--------------------------- MODULE DeliveryPromise ---------------------------
(***************************************************************************)
(* What the live-execution queue promises the callers of enqueue_action    *)
(* about a visible message, with no worker, claim, retry or clock in it:   *)
(* an item is open until it is withdrawn (cancelled or blocked: it never   *)
(* posts), confirmed (it has posted) or given up (it may have posted, or   *)
(* post later); and it posts once at most.                                 *)
(***************************************************************************)
EXTENDS Naturals

CONSTANT Item
VARIABLES stage, posts

Init ==
    /\ stage = [i \in Item |-> "none"]
    /\ posts = [i \in Item |-> 0]

Submit(i) ==
    /\ stage[i] = "none"
    /\ stage' = [stage EXCEPT ![i] = "open"]
    /\ UNCHANGED posts

Post(i) ==
    /\ stage[i] \in {"open", "given_up"} /\ posts[i] = 0
    /\ posts' = [posts EXCEPT ![i] = 1]
    /\ UNCHANGED stage

Withdraw(i) ==
    /\ stage[i] = "open" /\ posts[i] = 0
    /\ stage' = [stage EXCEPT ![i] = "withdrawn"]
    /\ UNCHANGED posts

Confirm(i) ==
    /\ stage[i] = "open" /\ posts[i] = 1
    /\ stage' = [stage EXCEPT ![i] = "confirmed"]
    /\ UNCHANGED posts

GiveUp(i) ==
    /\ stage[i] = "open"
    /\ stage' = [stage EXCEPT ![i] = "given_up"]
    /\ UNCHANGED posts

Next == \E i \in Item : Submit(i) \/ Post(i) \/ Withdraw(i) \/ Confirm(i) \/ GiveUp(i)

Spec == Init /\ [][Next]_<<stage, posts>>
=============================================================================
