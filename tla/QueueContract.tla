----------------------------- MODULE QueueContract -----------------------------
(***************************************************************************)
(* The queue of live actions as its clients know it (enqueue_action,       *)
(* cancel_action_if_pending and the status of a record): what a client     *)
(* that cancels, supersedes or waits may count on, with no worker, expiry, *)
(* retry or clock in it.  An action that was put in waits until it is      *)
(* cancelled or a worker takes it; a worker that has it finishes it or     *)
(* puts it back, and nobody else touches it; what is finished or cancelled *)
(* stays so.                                                               *)
(*                                                                         *)
(* LiveExecution implements this contract, and PreparedExecution, whose    *)
(* model of the workers is drawn from it, asks for no more.                *)
(***************************************************************************)
VARIABLE entries    \* how each action that was put in stands

Init == DOMAIN entries = {}

Put(i) ==
    /\ i \notin DOMAIN entries
    /\ entries' = [j \in DOMAIN entries \cup {i} |-> IF j = i THEN "pending" ELSE entries[j]]

Cancel(i) ==
    /\ i \in DOMAIN entries /\ entries[i] = "pending"
    /\ entries' = [entries EXCEPT ![i] = "cancelled"]

\* Actions whose worker is gone are put back first.
Take(i, back) ==
    /\ i \in DOMAIN entries /\ back \subseteq DOMAIN entries
    /\ \A j \in back : entries[j] = "claimed"
    /\ entries[i] = "pending" \/ i \in back
    /\ entries' = [j \in DOMAIN entries |->
                     IF j = i THEN "claimed" ELSE IF j \in back THEN "pending" ELSE entries[j]]

PutBack(i) ==
    /\ i \in DOMAIN entries /\ entries[i] = "claimed"
    /\ entries' = [entries EXCEPT ![i] = "pending"]

Finish(i) ==
    /\ i \in DOMAIN entries /\ entries[i] = "claimed"
    /\ entries' = [entries EXCEPT ![i] = "done"]

Next ==
    \E i \in DOMAIN entries' :
      \/ Put(i) \/ Cancel(i) \/ PutBack(i) \/ Finish(i)
      \/ \E back \in SUBSET DOMAIN entries : Take(i, back)

Spec == Init /\ [][Next]_entries
=============================================================================
