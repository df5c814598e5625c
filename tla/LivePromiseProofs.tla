--------------------------- MODULE LivePromiseProofs ---------------------------
(***************************************************************************)
(* The queue of live actions implements DeliveryPromise and QueueContract: *)
(* under the refinement mappings of LiveExecution every step of a worker,  *)
(* a caller or Telegram is a step of the promise, and of the contract, or  *)
(* leaves it alone.                                                        *)
(***************************************************************************)
EXTENDS LiveExecutionProofs

PStage == [a \in Visible |-> StageOf(actions[a].status)]
PPosts == [a \in Visible |-> delivered[a]]

\* A visible action is an action, and its status tells its stage.
LEMMA StageFields ==
    ASSUME NEW s \in Status
    PROVE  /\ s = "absent" => StageOf(s) = "none"
           /\ s = "succeeded" => StageOf(s) = "confirmed"
           /\ s = "failed" => StageOf(s) = "given_up"
           /\ s \in {"blocked", "cancelled"} => StageOf(s) = "withdrawn"
           /\ s \in Pending \cup {"claimed", "running"} => StageOf(s) = "open"
BY DEF StageOf, Status, Pending, Terminal

\* The stage of a visible action changes with its record alone.
LEMMA StageFrame ==
    ASSUME \A a \in Visible : StageOf(actions'[a].status) = StageOf(actions[a].status)
    PROVE  PStage' = PStage
BY DEF PStage

\* If the record of a alone changes, and its stage becomes s, so does the
\* promise's.
LEMMA StageUpdate ==
    ASSUME NEW a \in Visible, NEW s, StageOf(actions'[a].status) = s,
           \A b \in Visible : b # a => actions'[b] = actions[b]
    PROVE  PStage' = [PStage EXCEPT ![a] = s]
BY DEF PStage

\* An empty queue has promised nothing.
LEMMA PromiseInit == Init => Promise!Init
<1> SUFFICES ASSUME Init PROVE Promise!Init
  OBVIOUS
<1>1. \A a \in Visible : a \in Action
  BY ConstantsOK
<1>2. StageOf("absent") = "none"
  BY DEF StageOf
<1> QED
  BY <1>1, <1>2 DEF Init, Absent, Promise!Init

\* A record that is written over moves the promise on by one step, or not at all.
LEMMA RecordStep ==
    ASSUME TypeOK, TypeOK', NEW a \in Action, ActionPosting(a),
           \A b \in Action : b # a => actions'[b] = actions[b],
           delivered' = delivered,
           \/ /\ actions[a].status = "absent" /\ actions'[a].status = "queued"
           \/ /\ actions[a].status \in Pending \cup {"claimed", "running"}
              /\ \/ actions'[a].status \in Pending \cup {"claimed", "running", "failed"}
                 \/ actions'[a].status = "succeeded" /\ (a \in Visible => delivered[a] = 1)
                 \/ actions'[a].status \in {"blocked", "cancelled"} /\ Unposted(a)
    PROVE  Promise!Next \/ UNCHANGED <<PStage, PPosts>>
<1>1. PPosts' = PPosts
  BY DEF PPosts
<1>2. CASE a \notin Visible
  <2>1. \A b \in Visible : b \in Action /\ b # a
    BY <1>2, ConstantsOK
  <2>2. PStage' = PStage
    BY <2>1 DEF PStage
  <2> QED
    BY <1>1, <2>2
<1>3. CASE a \in Visible
  <2>1. \A b \in Visible : b # a => actions'[b] = actions[b]
    BY ConstantsOK
  <2>2. /\ PStage[a] = StageOf(actions[a].status) /\ PPosts[a] = delivered[a]
        /\ actions[a].status \in Status /\ actions'[a].status \in Status
    BY <1>3 DEF PStage, PPosts, TypeOK, LiveActionRecord
  <2>3. CASE actions[a].status = "absent" /\ actions'[a].status = "queued"
    <3>1. PStage[a] = "none" /\ PStage' = [PStage EXCEPT ![a] = "open"]
      BY <1>3, <2>1, <2>2, <2>3, StageFields, StageUpdate DEF Pending
    <3>2. Promise!Submit(a)
      BY <1>1, <3>1 DEF Promise!Submit, PStage, PPosts
    <3> QED
      BY <1>3, <3>2 DEF Promise!Next
  <2>4. CASE actions[a].status \in Pending \cup {"claimed", "running"}
    <3>1. PStage[a] = "open"
      BY <2>2, <2>4, StageFields
    <3>2. CASE actions'[a].status \in Pending \cup {"claimed", "running"}
      <4>1. StageOf(actions'[a].status) = StageOf(actions[a].status)
        BY <2>2, <2>4, <3>2, StageFields
      <4> QED
        BY <1>1, <2>1, <4>1, StageFrame
    <3>3. CASE actions'[a].status = "failed"
      <4>1. PStage' = [PStage EXCEPT ![a] = "given_up"]
        BY <1>3, <2>1, <2>2, <3>3, StageFields, StageUpdate
      <4>2. Promise!GiveUp(a)
        BY <1>1, <3>1, <4>1 DEF Promise!GiveUp, PStage, PPosts
      <4> QED
        BY <1>3, <4>2 DEF Promise!Next
    <3>4. CASE actions'[a].status = "succeeded" /\ (a \in Visible => delivered[a] = 1)
      <4>1. PStage' = [PStage EXCEPT ![a] = "confirmed"]
        BY <1>3, <2>1, <2>2, <3>4, StageFields, StageUpdate
      <4>2. Promise!Confirm(a)
        BY <1>1, <1>3, <2>2, <3>1, <3>4, <4>1 DEF Promise!Confirm, PStage, PPosts
      <4> QED
        BY <1>3, <4>2 DEF Promise!Next
    <3>5. CASE actions'[a].status \in {"blocked", "cancelled"} /\ Unposted(a)
      <4>1. PStage' = [PStage EXCEPT ![a] = "withdrawn"]
        BY <1>3, <2>1, <2>2, <3>5, StageFields, StageUpdate
      <4>2. Promise!Withdraw(a)
        BY <1>1, <2>2, <3>1, <3>5, <4>1 DEF Promise!Withdraw, PStage, PPosts, Unposted
      <4> QED
        BY <1>3, <4>2 DEF Promise!Next
    <3> QED
      BY <2>4, <3>2, <3>3, <3>4, <3>5 DEF Pending
  <2> QED
    BY <2>3, <2>4
<1> QED
  BY <1>2, <1>3

\* A post that lands while the record stands is a post of the promise.
LEMMA PostStep ==
    ASSUME TypeOK, NEW a \in Visible, delivered[a] = 0,
           delivered' = [delivered EXCEPT ![a] = delivered[a] + 1],
           actions' = actions, actions[a].status \in {"running", "failed"}
    PROVE  Promise!Next
<1>1. a \in Action /\ actions[a].status \in Status
  BY ConstantsOK DEF TypeOK, LiveActionRecord
<1>2. PStage[a] \in {"open", "given_up"} /\ PPosts[a] = 0
  BY <1>1, StageFields DEF PStage, PPosts
<1>3. PStage' = PStage
  BY DEF PStage
<1>4. PPosts' = [PPosts EXCEPT ![a] = 1]
  <2>1. /\ delivered' = [delivered EXCEPT ![a] = 1]
        /\ delivered \in [Action -> Nat] /\ \A b \in Visible : b \in Action
    BY ConstantsOK DEF TypeOK
  <2> QED
    BY <2>1 DEF PPosts
<1>5. Promise!Post(a)
  BY <1>2, <1>3, <1>4 DEF Promise!Post, PStage, PPosts
<1> QED
  BY <1>5 DEF Promise!Next

\* A worker that executes has its record running, so the step that ends its
\* attempt is one of the promise's steps.
LEMMA PromiseStep ==
    ASSUME IInv, IInv', ~ClosingCanFlood, [Next]_vars
    PROVE  Promise!Next \/ UNCHANGED <<PStage, PPosts>>
<1> USE DEF file_vars, worker_vars, world_vars
<1>0. /\ TypeOK /\ TypeOK' /\ Shape
      /\ \A a \in Action : ActionPosting(a)
      /\ \A w \in Worker : Owns(w) /\ WorkerPosting(w)
  BY DEF IInv, TypeInv, Ownership, Posting
<1>s. ASSUME actions' = actions, delivered' = delivered
      PROVE  UNCHANGED <<PStage, PPosts>>
  BY <1>s DEF PStage, PPosts
<1>1. ASSUME NEW a \in Action, Enqueue(a)
      PROVE  Promise!Next \/ UNCHANGED <<PStage, PPosts>>
  <2>1. /\ actions[a].status = "absent" /\ actions'[a].status = "queued"
        /\ \A b \in Action : b # a => actions'[b] = actions[b]
        /\ delivered' = delivered
    BY <1>0, <1>1 DEF Enqueue, TypeOK, LiveActionRecord
  <2> QED
    BY <1>0, <2>1, RecordStep
<1>2. ASSUME NEW a \in Action, CancelIfPending(a)
      PROVE  Promise!Next \/ UNCHANGED <<PStage, PPosts>>
  <2>1. Unclaimed(actions[a], "cancelled").status = "cancelled"
    BY <1>0, UnclaimedFields DEF TypeOK, Status, Terminal
  <2>2. /\ actions[a].status \in Pending /\ actions'[a].status = "cancelled"
        /\ \A b \in Action : b # a => actions'[b] = actions[b]
        /\ delivered' = delivered
    BY <1>0, <1>2, <2>1 DEF CancelIfPending, TypeOK
  <2>3. Unposted(a)
    BY <1>0, <2>2, WaitingIsUnposted
  <2> QED
    BY <1>0, <2>2, <2>3, RecordStep
<1>3. ASSUME NEW a \in Action, LandLate(a)
      PROVE  Promise!Next \/ UNCHANGED <<PStage, PPosts>>
  <2>1. a \in Visible /\ a \in late /\ delivered[a] = 0
    BY <1>0, <1>3 DEF LandLate, TypeOK, ActionPosting
  <2>2. actions[a].status \in {"running", "failed"}
    <3>1. actions[a].status \in Status /\ ActionPosting(a)
      BY <1>0 DEF TypeOK, LiveActionRecord
    <3> QED
      BY <2>1, <3>1 DEF ActionPosting, Consistent, Unposted, Status, Pending, Terminal
  <2> QED
    BY <1>0, <1>3, <2>1, <2>2, PostStep DEF LandLate
<1>4. ASSUME NEW w \in Worker, Claim(w)
      PROVE  Promise!Next \/ UNCHANGED <<PStage, PPosts>>
  <2>1. ASSUME NEW a \in Action
        PROVE  \/ actions'[a] = actions[a]
               \/ /\ actions[a].status \in Pending \cup {"claimed"}
                  /\ actions'[a].status \in Pending \cup {"claimed"}
    <3> DEFINE swept == [b \in Action |-> IF ClaimExpired(actions[b])
                                          THEN Unclaimed(actions[b], "queued")
                                          ELSE actions[b]]
    <3>1. PICK c \in Action :
             /\ IsReady(swept[c])
             /\ actions' = [swept EXCEPT ![c] =
                  [swept[c] EXCEPT !.status = "claimed", !.claimed_by = w,
                                   !.claim_expires_at = now + ClaimTTL]]
      BY <1>4 DEF Claim
    <3>2. /\ swept[a] \in LiveActionRecord
          /\ \/ swept[a] = actions[a]
             \/ actions[a].status = "claimed" /\ swept[a].status = "queued"
      BY <1>0, UnclaimedFields DEF ClaimExpired, TypeOK, Status, Pending
    <3> HIDE DEF swept
    <3>3. CASE a = c
      <4>1. actions'[a].status = "claimed"
        <5>1. actions'[a] = [swept[a] EXCEPT !.status = "claimed", !.claimed_by = w,
                                             !.claim_expires_at = now + ClaimTTL]
          BY <3>1, <3>3 DEF swept
        <5> QED
          BY <3>2, <5>1 DEF LiveActionRecord
      <4>2. swept[a].status \in Pending
        BY <3>1, <3>3 DEF IsReady
      <4> QED
        BY <3>2, <4>1, <4>2
    <3>4. CASE a # c
      <4>1. actions'[a] = swept[a]
        BY <3>1, <3>4 DEF swept
      <4> QED
        BY <3>2, <4>1 DEF Pending
    <3> QED
      BY <3>3, <3>4
  <2>2. \A a \in Visible : StageOf(actions'[a].status) = StageOf(actions[a].status)
    <3>1. \A a \in Action : /\ actions[a].status \in Status
                            /\ actions'[a].status \in Status
      BY <1>0 DEF TypeOK, LiveActionRecord
    <3> QED
      BY <2>1, <3>1, StageFields, ConstantsOK
  <2>3. delivered' = delivered
    BY <1>4 DEF Claim
  <2> QED
    BY <2>2, <2>3, StageFrame DEF PPosts
<1>5. ASSUME NEW w \in Worker, MarkRunning(w)
      PROVE  Promise!Next \/ UNCHANGED <<PStage, PPosts>>
  <2>1. /\ job[w] \in Action /\ actions[job[w]].status = "claimed"
        /\ delivered' = delivered
    BY <1>0, <1>5 DEF MarkRunning, Shape, Owns
  <2>2. copy'[w].status = "running"
    BY <1>0, <1>5 DEF MarkRunning, TypeOK, LiveActionRecord
  <2>3. /\ actions'[job[w]].status = "running"
        /\ \A b \in Action : b # job[w] => actions'[b] = actions[b]
    BY <1>0, <1>5, <2>1, <2>2 DEF MarkRunning, TypeOK
  <2> QED
    BY <1>0, <2>1, <2>3, RecordStep
<1>6. ASSUME NEW w \in Worker, EndSend(w)
      PROVE  Promise!Next \/ UNCHANGED <<PStage, PPosts>>
  <2>1. /\ job[w] \in Action /\ actions[job[w]].status = "running"
        /\ delivered[job[w]] = 0 /\ actions' = actions
    BY <1>0, <1>6 DEF EndSend, Shape, Owns, Executing, WorkerPosting, Unposted
  <2>2. \/ delivered' = delivered
        \/ /\ job[w] \in Visible
           /\ delivered' = [delivered EXCEPT ![job[w]] = delivered[job[w]] + 1]
    BY <1>6 DEF EndSend, Answer
  <2>3. CASE delivered' = delivered
    BY <1>s, <2>1, <2>3
  <2>4. CASE /\ job[w] \in Visible
             /\ delivered' = [delivered EXCEPT ![job[w]] = delivered[job[w]] + 1]
    BY <1>0, <2>1, <2>4, PostStep
  <2> QED
    BY <2>2, <2>3, <2>4
<1>7. ASSUME NEW w \in Worker, SaveOutcome(w)
      PROVE  Promise!Next \/ UNCHANGED <<PStage, PPosts>>
  <2>1. /\ job[w] \in Action /\ actions[job[w]].status = "running"
        /\ copy[w].status \in {"succeeded", "blocked", "failed", "retry_wait"}
        /\ Consistent(job[w], copy[w].status)
    BY <1>0, <1>7 DEF SaveOutcome, Shape, Owns, Executing, WorkerPosting
  <2>2. /\ actions'[job[w]] = copy[w] /\ delivered' = delivered
        /\ \A b \in Action : b # job[w] => actions'[b] = actions[b]
    BY <1>0, <1>7, <2>1 DEF SaveOutcome, TypeOK
  <2>3. ActionPosting(job[w])
    BY <1>0, <2>1
  <2>4. \/ actions'[job[w]].status \in Pending \cup {"claimed", "running", "failed"}
        \/ /\ actions'[job[w]].status = "succeeded"
           /\ job[w] \in Visible => delivered[job[w]] = 1
        \/ actions'[job[w]].status \in {"blocked", "cancelled"} /\ Unposted(job[w])
    BY <2>1, <2>2 DEF Consistent, Pending
  <2> QED
    BY <1>0, <2>1, <2>2, <2>3, <2>4, RecordStep
<1>8. \/ \E w \in Worker : \/ EvaluatePolicy(w) \/ BeginSend(w) \/ ApplyOutcome(w)
                           \/ RecordAttempt(w) \/ Abort(w)
      \/ \E paused \in BOOLEAN : PauseCampaign(paused)
      \/ \E acct \in Account, paused \in BOOLEAN : PauseAccount(acct, paused)
      \/ Tick
      \/ UNCHANGED vars
      => actions' = actions /\ delivered' = delivered
  BY DEF EvaluatePolicy, BeginSend, ApplyOutcome, RecordAttempt, Abort,
         PauseCampaign, PauseAccount, Tick, vars
<1> QED
  BY <1>s, <1>1, <1>2, <1>3, <1>4, <1>5, <1>6, <1>7, <1>8, NextCases

-----------------------------------------------------------------------------
\* The queue implements the promise: what a caller sees of an action, its record
\* and its posts, changes only as DeliveryPromise allows.
THEOREM Keeps ==
    ASSUME WorkersKeepUp, ~ClosingCanFlood
    PROVE  Spec => KeepsPromise
<1>1. Init => IInv /\ Promise!Init
  BY InitInv, PromiseInit
<1>2. IInv /\ [Next]_vars => IInv'
  BY TypeStep, OwnershipStep, PostingStep DEF IInv
<1>3. IInv /\ IInv' /\ [Next]_vars =>
        [Promise!Next]_<<[a \in Visible |-> StageOf(actions[a].status)],
                         [a \in Visible |-> delivered[a]]>>
  BY PromiseStep DEF PStage, PPosts
<1> QED
  BY <1>1, <1>2, <1>3, PTL DEF Spec, KeepsPromise, Promise!Spec

-----------------------------------------------------------------------------
(* The contract with those who cancel and supersede.                       *)

\* An action that was put in has an entry, and its status tells which.
LEMMA EntryFields ==
    ASSUME NEW s \in Status
    PROVE  /\ s \in Pending => EntryOf(s) = "pending"
           /\ s \in {"claimed", "running"} => EntryOf(s) = "claimed"
           /\ s = "cancelled" => EntryOf(s) = "cancelled"
           /\ s \in {"succeeded", "failed", "blocked"} => EntryOf(s) = "done"
BY DEF EntryOf, Status, Pending, Terminal

LEMMA EntryOfAction ==
    /\ \A a : a \in DOMAIN Entries <=> a \in Action /\ actions[a].status # "absent"
    /\ \A a \in DOMAIN Entries : Entries[a] = EntryOf(actions[a].status)
BY DEF Entries

\* If the record of one action that was put in changes, so does its entry alone.
LEMMA EntryUpdate ==
    ASSUME NEW a \in Action, actions[a].status # "absent", actions'[a].status # "absent",
           \A b \in Action : b # a => actions'[b] = actions[b]
    PROVE  Entries' = [Entries EXCEPT ![a] = EntryOf(actions'[a].status)]
<1>1. {b \in Action : actions'[b].status # "absent"} = {b \in Action : actions[b].status # "absent"}
  OBVIOUS
<1> QED
  BY <1>1 DEF Entries

\* A record that is written over moves the contract on by one step, or not at all.
LEMMA EntryStep ==
    ASSUME TypeOK, TypeOK', NEW a \in Action,
           \A b \in Action : b # a => actions'[b] = actions[b],
           \/ actions[a].status = "absent" /\ actions'[a].status = "queued"
           \/ actions[a].status \in Pending /\ actions'[a].status = "cancelled"
           \/ actions[a].status = "claimed" /\ actions'[a].status = "running"
           \/ /\ actions[a].status = "running"
              /\ actions'[a].status \in {"succeeded", "blocked", "failed", "retry_wait"}
    PROVE  Contract!Next \/ Entries' = Entries
<1>0. actions[a].status \in Status /\ actions'[a].status \in Status
  BY DEF TypeOK, LiveActionRecord
<1>1. CASE actions[a].status = "absent" /\ actions'[a].status = "queued"
  <2>1. DOMAIN Entries' = DOMAIN Entries \cup {a} /\ a \notin DOMAIN Entries
    BY <1>1 DEF Entries
  <2>2. EntryOf(actions'[a].status) = "pending"
    BY <1>0, <1>1, EntryFields DEF Pending
  <2>3. Entries' = [j \in DOMAIN Entries \cup {a} |-> IF j = a THEN "pending" ELSE Entries[j]]
    <3>1. Entries' = [j \in DOMAIN Entries' |-> EntryOf(actions'[j].status)]
      BY DEF Entries
    <3>2. \A j \in DOMAIN Entries : EntryOf(actions'[j].status) = Entries[j]
      BY <2>1, EntryOfAction
    <3> QED
      BY <2>1, <2>2, <3>1, <3>2
  <2>4. Contract!Put(a)
    BY <2>1, <2>3 DEF Contract!Put
  <2> QED
    BY <2>1, <2>4 DEF Contract!Next
<1>2. CASE actions[a].status # "absent" /\ actions'[a].status # "absent"
  <2>1. /\ Entries' = [Entries EXCEPT ![a] = EntryOf(actions'[a].status)]
        /\ a \in DOMAIN Entries /\ Entries[a] = EntryOf(actions[a].status)
    BY <1>2, EntryUpdate, EntryOfAction
  <2>2. a \in DOMAIN Entries'
    BY <2>1
  <2>3. CASE actions[a].status \in Pending /\ actions'[a].status = "cancelled"
    <3>1. Contract!Cancel(a)
      BY <1>0, <2>1, <2>3, EntryFields DEF Contract!Cancel
    <3> QED
      BY <2>2, <3>1 DEF Contract!Next
  <2>4. CASE actions[a].status = "claimed" /\ actions'[a].status = "running"
    <3>1. Entries[a] = "claimed" /\ Entries' = [Entries EXCEPT ![a] = "claimed"]
      BY <1>0, <2>1, <2>4, EntryFields
    <3> QED
      BY <3>1 DEF Entries
  <2>5. CASE actions[a].status = "running" /\ actions'[a].status = "retry_wait"
    <3>1. Contract!PutBack(a)
      BY <1>0, <2>1, <2>5, EntryFields DEF Contract!PutBack, Pending
    <3> QED
      BY <2>2, <3>1 DEF Contract!Next
  <2>6. CASE /\ actions[a].status = "running"
             /\ actions'[a].status \in {"succeeded", "blocked", "failed"}
    <3>1. Contract!Finish(a)
      BY <1>0, <2>1, <2>6, EntryFields DEF Contract!Finish
    <3> QED
      BY <2>2, <3>1 DEF Contract!Next
  <2> QED
    BY <1>2, <2>3, <2>4, <2>5, <2>6
<1> QED
  BY <1>1, <1>2 DEF Pending

\* A claim puts back what has expired and takes one action that waits.
LEMMA TakeStep ==
    ASSUME TypeOK, NEW w \in Worker, Claim(w)
    PROVE  Contract!Next
<1> DEFINE back == {b \in Action : ClaimExpired(actions[b])}
           swept == [b \in Action |-> IF ClaimExpired(actions[b])
                                      THEN Unclaimed(actions[b], "queued")
                                      ELSE actions[b]]
<1>1. PICK a \in Action :
         /\ IsReady(swept[a])
         /\ actions' = [swept EXCEPT ![a] = [swept[a] EXCEPT !.status = "claimed", !.claimed_by = w,
                                               !.claim_expires_at = now + ClaimTTL]]
  BY DEF Claim
<1>2. \A b \in Action :
        /\ actions[b].status \in Status /\ swept[b] \in LiveActionRecord
        /\ b \in back => actions[b].status = "claimed" /\ swept[b].status = "queued"
        /\ b \notin back => swept[b] = actions[b]
  BY UnclaimedFields DEF ClaimExpired, TypeOK, LiveActionRecord, Status, Pending
<1>3. /\ actions'[a].status = "claimed"
      /\ \A b \in Action : b # a => actions'[b] = swept[b]
  <2> HIDE DEF swept
  <2>1. swept[a] \in LiveActionRecord /\ DOMAIN swept = Action
    BY <1>2 DEF swept
  <2>2. [swept[a] EXCEPT !.status = "claimed", !.claimed_by = w,
                         !.claim_expires_at = now + ClaimTTL].status = "claimed"
    BY <2>1 DEF LiveActionRecord
  <2>3. /\ actions'[a] = [swept[a] EXCEPT !.status = "claimed", !.claimed_by = w,
                                          !.claim_expires_at = now + ClaimTTL]
        /\ \A b \in Action : b # a => actions'[b] = swept[b]
    BY <1>1, <2>1 DEF swept
  <2> QED
    BY <2>2, <2>3
<1>4. actions[a].status \in Pending \/ a \in back
  BY <1>1, <1>2 DEF IsReady
<1> HIDE DEF back, swept
<1>5. /\ a \in DOMAIN Entries /\ back \subseteq DOMAIN Entries
      /\ \A b \in back : Entries[b] = "claimed"
      /\ Entries[a] = "pending" \/ a \in back
  <2>1. \A b \in back : b \in Action /\ actions[b].status = "claimed"
    BY <1>2 DEF back
  <2>2. actions[a].status # "absent"
    BY <1>4, <2>1 DEF Pending
  <2> QED
    BY <1>2, <1>4, <2>1, <2>2, EntryOfAction, EntryFields
<1>6. DOMAIN Entries' = DOMAIN Entries
  <2>1. \A b \in Action : actions'[b].status = "absent" <=> actions[b].status = "absent"
    <3> TAKE b \in Action
    <3>1. CASE b = a
      BY <1>3, <1>5, <3>1, EntryOfAction
    <3>2. CASE b # a /\ b \in back
      BY <1>2, <1>3, <3>2
    <3>3. CASE b # a /\ b \notin back
      BY <1>2, <1>3, <3>3
    <3> QED
      BY <3>1, <3>2, <3>3
  <2> QED
    BY <2>1 DEF Entries
<1>7. Entries' = [j \in DOMAIN Entries |->
                    IF j = a THEN "claimed" ELSE IF j \in back THEN "pending" ELSE Entries[j]]
  <2>1. Entries' = [j \in DOMAIN Entries |-> EntryOf(actions'[j].status)]
    BY <1>6 DEF Entries
  <2>2. ASSUME NEW j \in DOMAIN Entries
        PROVE  EntryOf(actions'[j].status)
                 = IF j = a THEN "claimed" ELSE IF j \in back THEN "pending" ELSE Entries[j]
    <3>0. j \in Action /\ Entries[j] = EntryOf(actions[j].status)
          /\ "claimed" \in Status /\ "queued" \in Status
      BY EntryOfAction DEF Status, Pending
    <3>1. CASE j = a
      BY <1>3, <3>0, <3>1, EntryFields
    <3>2. CASE j # a /\ j \in back
      BY <1>2, <1>3, <3>0, <3>2, EntryFields DEF Pending
    <3>3. CASE j # a /\ j \notin back
      BY <1>2, <1>3, <3>0, <3>3
    <3> QED
      BY <3>1, <3>2, <3>3
  <2> QED
    BY <2>1, <2>2
<1>8. Contract!Take(a, back)
  BY <1>5, <1>7 DEF Contract!Take
<1> QED
  BY <1>5, <1>6, <1>8 DEF Contract!Next

\* A worker finds its action as it left it, so what it saves goes on from there.
LEMMA ContractStep ==
    ASSUME TypeInv, TypeInv', Ownership, Journal, [Next]_vars
    PROVE  Contract!Next \/ Entries' = Entries
<1> USE DEF file_vars, worker_vars, world_vars
<1>0. /\ TypeOK /\ TypeOK' /\ Shape
      /\ \A w \in Worker : Owns(w) /\ WorkerJournal(w)
  BY DEF TypeInv, Ownership, Journal
<1>1. ASSUME NEW a \in Action, Enqueue(a) PROVE Contract!Next \/ Entries' = Entries
  <2>1. /\ actions[a].status = "absent" /\ actions'[a].status = "queued"
        /\ \A b \in Action : b # a => actions'[b] = actions[b]
    BY <1>0, <1>1 DEF Enqueue, TypeOK, LiveActionRecord
  <2> QED
    BY <1>0, <2>1, EntryStep
<1>2. ASSUME NEW a \in Action, CancelIfPending(a) PROVE Contract!Next \/ Entries' = Entries
  <2>1. Unclaimed(actions[a], "cancelled").status = "cancelled"
    BY <1>0, UnclaimedFields DEF TypeOK, Status, Terminal
  <2>2. /\ actions[a].status \in Pending /\ actions'[a].status = "cancelled"
        /\ \A b \in Action : b # a => actions'[b] = actions[b]
    BY <1>0, <1>2, <2>1 DEF CancelIfPending, TypeOK
  <2> QED
    BY <1>0, <2>2, EntryStep
<1>3. ASSUME NEW w \in Worker, Claim(w) PROVE Contract!Next
  BY <1>0, <1>3, TakeStep
<1>4. ASSUME NEW w \in Worker, MarkRunning(w) PROVE Contract!Next \/ Entries' = Entries
  <2>1. job[w] \in Action /\ actions[job[w]].status = "claimed"
    BY <1>0, <1>4 DEF MarkRunning, Shape, Owns
  <2>2. copy'[w].status = "running"
    BY <1>0, <1>4 DEF MarkRunning, TypeOK, LiveActionRecord
  <2>3. /\ actions'[job[w]].status = "running"
        /\ \A b \in Action : b # job[w] => actions'[b] = actions[b]
    BY <1>0, <1>4, <2>1, <2>2 DEF MarkRunning, TypeOK
  <2> QED
    BY <1>0, <2>1, <2>3, EntryStep
<1>5. ASSUME NEW w \in Worker, SaveOutcome(w) PROVE Contract!Next \/ Entries' = Entries
  <2>1. /\ job[w] \in Action /\ actions[job[w]].status = "running"
        /\ copy[w].status \in {"succeeded", "blocked", "failed", "retry_wait"}
    BY <1>0, <1>5 DEF SaveOutcome, Shape, Owns, Executing, WorkerJournal, Ends
  <2>2. /\ actions'[job[w]] = copy[w]
        /\ \A b \in Action : b # job[w] => actions'[b] = actions[b]
    BY <1>0, <1>5, <2>1 DEF SaveOutcome, TypeOK
  <2> QED
    BY <1>0, <2>1, <2>2, EntryStep
<1>6. \/ \E a \in Action : LandLate(a)
      \/ \E w \in Worker : \/ EvaluatePolicy(w) \/ BeginSend(w) \/ EndSend(w)
                           \/ ApplyOutcome(w) \/ RecordAttempt(w) \/ Abort(w)
      \/ \E paused \in BOOLEAN : PauseCampaign(paused)
      \/ \E acct \in Account, paused \in BOOLEAN : PauseAccount(acct, paused)
      \/ Tick
      \/ UNCHANGED vars
      => actions' = actions
  BY DEF LandLate, EvaluatePolicy, BeginSend, EndSend, ApplyOutcome, RecordAttempt, Abort,
         PauseCampaign, PauseAccount, Tick, vars
<1>7. actions' = actions => Entries' = Entries
  BY DEF Entries
<1> QED
  BY <1>1, <1>2, <1>3, <1>4, <1>5, <1>6, <1>7, NextCases

\* The queue implements its contract with the clients, also when a call that goes offline
\* after a post is rate limited: a claimed action is its worker's alone, a cancelled one
\* is never taken up, and what has ended stays so.
THEOREM KeepsToContract == ASSUME WorkersKeepUp PROVE Spec => KeepsContract
<1> DEFINE Inv == TypeInv /\ Ownership /\ Journal
<1>1. Init => Inv /\ Contract!Init
  <2> SUFFICES ASSUME Init PROVE Inv /\ Contract!Init
    OBVIOUS
  <2>1. Inv
    BY InitInv, JournalInit DEF IInv
  <2>2. Contract!Init
    BY DEF Init, Absent, Contract!Init, Entries
  <2> QED
    BY <2>1, <2>2
<1>2. Inv /\ [Next]_vars => Inv'
  BY TypeStep, OwnershipStep, JournalStep
<1>3. Inv /\ Inv' /\ [Next]_vars => [Contract!Next]_Entries
  BY ContractStep
<1> QED
  BY <1>1, <1>2, <1>3, PTL DEF Spec, KeepsContract, Contract!Spec
================================================================================
