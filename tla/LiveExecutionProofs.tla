------------------------- MODULE LiveExecutionProofs -------------------------
(***************************************************************************)
(* Proofs about LiveExecution, for every number of actions, accounts and   *)
(* workers and for every bound.                                            *)
(***************************************************************************)
EXTENDS LiveExecution, FiniteSetTheorems, TLAPS

Executing == {"running", "cleared", "sending", "executed", "applied", "journaled"}

\* A worker that is not idle works on an action, and has an outcome to report
\* once it has executed it.
Shape ==
    \A w \in Worker :
        /\ pc[w] # "idle" => job[w] \in Action
        /\ pc[w] \in {"executed", "applied", "journaled"} =>
             outcome[w].code \in Code

TypeInv == TypeOK /\ Shape

\* A worker owns the record it works on: the claim it took is still the stored
\* one and, once saved as running, nobody but the worker moves it on.
Owns(w) ==
    /\ pc[w] = "claimed" =>
         /\ actions[job[w]] = copy[w]
         /\ copy[w].status = "claimed" /\ copy[w].claimed_by = w
         /\ now < copy[w].claim_expires_at
    /\ pc[w] \in Executing =>
         /\ actions[job[w]].status = "running"
         /\ actions[job[w]].claimed_by = w
    /\ pc[w] \in {"running", "cleared", "sending", "executed"} =>
         copy[w].status = "running"

Ownership == \A w \in Worker : Owns(w)

\* Nothing of a has been posted, and nothing still can be without a new call.
Unposted(a) == delivered[a] = 0 /\ a \notin late

\* What a result says about the post it is the result of.
Consistent(a, status) ==
    /\ status \in {"retry_wait", "blocked"} => Unposted(a)
    /\ status = "succeeded" /\ a \in Visible => delivered[a] = 1

ActionPosting(a) ==
    /\ delivered[a] \in {0, 1}
    /\ a \in late => delivered[a] = 0
    /\ actions[a].status \in {"absent", "queued", "claimed", "cancelled"} =>
         Unposted(a)
    /\ Consistent(a, actions[a].status)

WorkerPosting(w) ==
    /\ pc[w] \in {"claimed", "running", "cleared", "sending"} => Unposted(job[w])
    /\ pc[w] = "executed" =>
         /\ Blocked(outcome[w]) \/ Retryable(job[w], outcome[w]) => Unposted(job[w])
         /\ outcome[w].code = "success" /\ job[w] \in Visible => delivered[job[w]] = 1
    /\ pc[w] \in {"applied", "journaled"} =>
         /\ copy[w].status \in {"succeeded", "blocked", "failed", "retry_wait"}
         /\ Consistent(job[w], copy[w].status)

Posting == /\ \A a \in Action : ActionPosting(a)
           /\ \A w \in Worker : WorkerPosting(w)

IInv == TypeInv /\ Ownership /\ Posting

-----------------------------------------------------------------------------
(* The helpers.                                                            *)

\* Giving a record back (Unclaimed) keeps its shape and counts.
LEMMA UnclaimedFields ==
    ASSUME NEW r \in LiveActionRecord, NEW s \in Status
    PROVE  /\ Unclaimed(r, s) \in LiveActionRecord
           /\ Unclaimed(r, s).status = s
           /\ Unclaimed(r, s).retry_count = r.retry_count
BY ConstantsOK DEF Unclaimed, LiveActionRecord

\* So does writing its status, and the due time with it.
LEMMA StatusUpdate ==
    ASSUME NEW r \in LiveActionRecord, NEW s \in Status, NEW n \in Nat
    PROVE  /\ [r EXCEPT !.status = s] \in LiveActionRecord
           /\ [r EXCEPT !.status = s].status = s
           /\ [r EXCEPT !.status = s].claimed_by = r.claimed_by
           /\ [r EXCEPT !.status = s, !.due_at = n] \in LiveActionRecord
           /\ [r EXCEPT !.status = s, !.due_at = n].status = s
BY DEF LiveActionRecord

\* The retry delay is a time.
LEMMA DelayIsNat ==
    ASSUME NEW o \in DispatchOutcome, NEW d \in RetryDelays(o)
    PROVE  d \in Nat
BY ConstantsOK DEF RetryDelays, DispatchOutcome

\* _apply_outcome ends the attempt: finished, or waiting for a retry that the
\* outcome allows.
LEMMA AppliedFields ==
    ASSUME NEW a, NEW r \in LiveActionRecord, NEW o \in DispatchOutcome,
           NEW d \in Nat, now \in Nat
    PROVE  /\ Applied(a, r, o, d) \in LiveActionRecord
           /\ Applied(a, r, o, d).status \in
                {"succeeded", "blocked", "failed", "retry_wait"}
           /\ Applied(a, r, o, d).status = "succeeded" => o.code = "success"
           /\ Applied(a, r, o, d).status = "blocked" => Blocked(o)
           /\ Applied(a, r, o, d).status = "retry_wait" => Retryable(a, o)
<1>1. CASE o.code = "success"
  BY <1>1, UnclaimedFields DEF Applied, Status, Terminal
<1>2. CASE o.code # "success" /\ Blocked(o)
  BY <1>2, UnclaimedFields DEF Applied, Status, Terminal
<1>3. CASE /\ o.code # "success" /\ ~Blocked(o)
           /\ Retryable(a, o) /\ r.retry_count < MaxRetries
  <2>1. Unclaimed(r, "retry_wait") \in LiveActionRecord
    BY UnclaimedFields DEF Status, Pending
  <2>2. Applied(a, r, o, d) = [Unclaimed(r, "retry_wait") EXCEPT
                                 !.retry_count = r.retry_count + 1, !.due_at = now + d]
    BY <1>3 DEF Applied
  <2>3. Unclaimed(r, "retry_wait").status = "retry_wait"
    BY UnclaimedFields DEF Status, Pending
  <2>4. Applied(a, r, o, d) \in LiveActionRecord
    <3>1. PICK u \in LiveActionRecord, m \in Nat, n \in Nat :
             u = Unclaimed(r, "retry_wait") /\ m = r.retry_count + 1 /\ n = now + d
      BY <2>1 DEF LiveActionRecord
    <3>2. [u EXCEPT !.retry_count = m, !.due_at = n] \in LiveActionRecord
      BY DEF LiveActionRecord
    <3> QED
      BY <2>2, <3>1, <3>2
  <2>5. Applied(a, r, o, d).status = "retry_wait"
    BY <2>1, <2>2, <2>3 DEF LiveActionRecord
  <2> QED
    BY <1>3, <2>4, <2>5
<1>4. CASE /\ o.code # "success" /\ ~Blocked(o)
           /\ ~(Retryable(a, o) /\ r.retry_count < MaxRetries)
  <2>1. Unclaimed(r, "failed") \in LiveActionRecord
    BY UnclaimedFields DEF Status, Terminal
  <2>2. Applied(a, r, o, d) = [Unclaimed(r, "failed") EXCEPT !.retry_count = r.retry_count + 1]
    BY <1>4 DEF Applied
  <2>3. Unclaimed(r, "failed").status = "failed"
    BY UnclaimedFields DEF Status, Terminal
  <2> QED
    BY <2>1, <2>2, <2>3 DEF LiveActionRecord
<1> QED
  BY <1>1, <1>2, <1>3, <1>4

\* A decision of the policy is an outcome, and never the outcome of a success.
LEMMA DecisionFields ==
    ASSUME TypeOK, NEW a \in Action, NEW t \in Nat,
           NEW o \in PolicyDecisions(a, t)
    PROVE  /\ o \in DispatchOutcome /\ o.code # "success"
           /\ o # NoOutcome => o.code \in Code
<1>1. /\ AccountOf[a] \in Account
      /\ accounts[AccountOf[a]] \in AccountPolicyState
      /\ registry[AccountOf[a]] \in AccountRecord
  BY ConstantsOK DEF TypeOK
<1>2. \A u \in Nat : u > t => /\ CoolDown(u, t) \in DispatchOutcome
                              /\ CoolDown(u, t).code \in Code \ {"success"}
  BY DEF CoolDown, DispatchOutcome, Code, Policy
<1>3. \A c \in Policy \cup {"account_flagged"} :
         /\ Refuse(c) \in DispatchOutcome
         /\ Refuse(c).code \in Code \ {"success"}
  BY DEF Refuse, DispatchOutcome, Code, Policy, Telegram
<1>4. NoOutcome \in DispatchOutcome /\ NoOutcome.code # "success"
  BY DEF NoOutcome, DispatchOutcome
<1>5. \/ o = NoOutcome
      \/ \E c \in Policy \cup {"account_flagged"} : o = Refuse(c)
      \/ \E u \in Nat : u > t /\ o = CoolDown(u, t)
  BY <1>1 DEF PolicyDecisions, Policy, AccountPolicyState, AccountRecord
<1> QED
  BY <1>2, <1>3, <1>4, <1>5

-----------------------------------------------------------------------------
(* The steps of the inductive invariant, one conjunct at a time.           *)

\* It holds of an empty queue.
LEMMA InitInv == Init => IInv
<1> SUFFICES ASSUME Init PROVE IInv
  OBVIOUS
<1>1. Absent \in LiveActionRecord /\ Absent.status = "absent"
  BY DEF Absent, LiveActionRecord, Status
<1>2. NoOutcome \in DispatchOutcome
  BY DEF NoOutcome, DispatchOutcome
<1>3. TypeOK
  <2>1. 0 \in 0..MaxTime /\ 0 \in 0..MaxCrashes /\ <<>> \in Seq(Code)
    BY ConstantsOK
  <2>2. /\ [is_paused |-> FALSE, cooldown_until |-> 0] \in AccountPolicyState
        /\ [is_paused |-> FALSE, friction |-> 0] \in CommunityPolicyState
        /\ [flagged |-> FALSE, rate_limit_until |-> 0] \in AccountRecord
    BY DEF AccountPolicyState, CommunityPolicyState, AccountRecord
  <2> QED
    BY <1>1, <1>2, <2>1, <2>2 DEF Init, TypeOK, Stage
<1>4. Ownership
  BY DEF Init, Ownership, Owns, Executing
<1>5. Posting
  BY <1>1 DEF Init, Posting, ActionPosting, WorkerPosting, Unposted, Consistent
<1>6. Shape
  BY DEF Init, Shape
<1> QED
  BY <1>3, <1>4, <1>5, <1>6 DEF IInv, TypeInv

\* The next-state relation with its quantifiers in front: what a proof that goes
\* action by action starts from.
LEMMA NextCases ==
    ASSUME [Next]_vars
    PROVE  \/ \E a \in Action : Enqueue(a) \/ CancelIfPending(a) \/ LandLate(a)
           \/ \E w \in Worker : Claim(w)
           \/ \E w \in Worker : MarkRunning(w)
           \/ \E w \in Worker : EvaluatePolicy(w)
           \/ \E w \in Worker : BeginSend(w)
           \/ \E w \in Worker : EndSend(w)
           \/ \E w \in Worker : ApplyOutcome(w)
           \/ \E w \in Worker : RecordAttempt(w)
           \/ \E w \in Worker : SaveOutcome(w)
           \/ \E w \in Worker : Abort(w)
           \/ \E paused \in BOOLEAN : PauseCampaign(paused)
           \/ \E acct \in Account, paused \in BOOLEAN : PauseAccount(acct, paused)
           \/ Tick
           \/ UNCHANGED vars
BY DEF Next, WorkerStep

\* Every step keeps the types, whatever the workers' timing.
LEMMA TypeStep == TypeInv /\ [Next]_vars => TypeInv'
<1> SUFFICES ASSUME TypeInv, [Next]_vars PROVE TypeInv'
  OBVIOUS
<1> USE ConstantsOK DEF file_vars, worker_vars, world_vars
<1>0. TypeOK /\ Shape
  BY DEF TypeInv
<1>1. ASSUME NEW a \in Action, Enqueue(a) PROVE TypeInv'
  <2>1. PICK d \in StartDelays :
           actions' = [actions EXCEPT ![a] = [actions[a] EXCEPT !.status = "queued",
                                                                !.due_at = now + d]]
    BY <1>0, <1>1 DEF Enqueue, TypeOK
  <2>2. now + d \in Nat
    BY <1>0 DEF TypeOK
  <2>3. [actions[a] EXCEPT !.status = "queued", !.due_at = now + d] \in LiveActionRecord
    <3>1. actions[a] \in LiveActionRecord /\ "queued" \in Status
      BY <1>0 DEF TypeOK, Status, Pending
    <3> QED
      BY <2>2, <3>1, StatusUpdate
  <2>4. actions' \in [Action -> LiveActionRecord]
    BY <1>0, <2>1, <2>3 DEF TypeOK
  <2> QED
    BY <1>0, <1>1, <2>4 DEF Enqueue, TypeInv, TypeOK, Shape
<1>2. ASSUME NEW a \in Action, CancelIfPending(a) PROVE TypeInv'
  <2>1. Unclaimed(actions[a], "cancelled") \in LiveActionRecord
    BY <1>0, UnclaimedFields DEF TypeOK, Status, Terminal
  <2> QED
    BY <1>0, <1>2, <2>1 DEF CancelIfPending, TypeInv, TypeOK, Shape
<1>3. ASSUME NEW a \in Action, LandLate(a) PROVE TypeInv'
  BY <1>0, <1>3 DEF LandLate, TypeInv, TypeOK, Shape
<1>4. ASSUME NEW w \in Worker, Claim(w) PROVE TypeInv'
  <2> DEFINE swept == [a \in Action |-> IF ClaimExpired(actions[a])
                                        THEN Unclaimed(actions[a], "queued")
                                        ELSE actions[a]]
             taken(a) == [swept[a] EXCEPT !.status = "claimed", !.claimed_by = w,
                                          !.claim_expires_at = now + ClaimTTL]
  <2>1. swept \in [Action -> LiveActionRecord]
    BY <1>0, UnclaimedFields DEF TypeOK, Status, Pending
  <2>2. PICK a \in Action : /\ actions' = [swept EXCEPT ![a] = taken(a)]
                            /\ job' = [job EXCEPT ![w] = a]
                            /\ copy' = [copy EXCEPT ![w] = taken(a)]
    BY <1>4 DEF Claim
  <2>3. taken(a) \in LiveActionRecord
    <3>1. swept[a] \in LiveActionRecord
      BY <2>1
    <3>2. now + ClaimTTL \in Nat
      BY <1>0 DEF TypeOK
    <3> HIDE DEF swept
    <3> QED
      BY <3>1, <3>2 DEF LiveActionRecord, Status
  <2> HIDE DEF swept, taken
  <2>4. /\ actions' \in [Action -> LiveActionRecord]
        /\ job' \in [Worker -> Action \cup {NoAction}]
        /\ copy' \in [Worker -> LiveActionRecord]
    BY <1>0, <2>1, <2>2, <2>3 DEF TypeOK
  <2>5. Shape'
    BY <1>0, <1>4, <2>2 DEF Claim, TypeOK, Shape
  <2> QED
    BY <1>0, <1>4, <2>4, <2>5 DEF Claim, TypeInv, TypeOK, Stage
<1>5. ASSUME NEW w \in Worker, MarkRunning(w) PROVE TypeInv'
  <2>1. [copy[w] EXCEPT !.status = "running"] \in LiveActionRecord
    <3>1. copy[w] \in LiveActionRecord /\ "running" \in Status
      BY <1>0 DEF TypeOK, Status
    <3> QED
      BY <3>1, StatusUpdate
  <2>2. copy' = [copy EXCEPT ![w] = [copy[w] EXCEPT !.status = "running"]]
    BY <1>0, <1>5 DEF MarkRunning, TypeOK
  <2>3. copy' \in [Worker -> LiveActionRecord]
    BY <1>0, <2>1, <2>2 DEF TypeOK
  <2>4. actions' \in [Action -> LiveActionRecord]
    BY <1>0, <1>5, <2>3 DEF MarkRunning, TypeOK
  <2>5. Shape'
    BY <1>0, <1>5 DEF MarkRunning, TypeOK, Shape
  <2> QED
    BY <1>0, <1>5, <2>3, <2>4, <2>5 DEF MarkRunning, TypeInv, TypeOK, Stage
<1>6. ASSUME NEW w \in Worker, EvaluatePolicy(w) PROVE TypeInv'
  <2>1. job[w] \in Action /\ started_at[w] \in Nat
    BY <1>0, <1>6 DEF EvaluatePolicy, Shape, TypeOK
  <2>2. PICK o \in PolicyDecisions(job[w], started_at[w]) :
           /\ outcome' = [outcome EXCEPT ![w] = o]
           /\ pc' = [pc EXCEPT ![w] = IF o = NoOutcome THEN "cleared" ELSE "executed"]
    BY <1>6 DEF EvaluatePolicy
  <2>3. o \in DispatchOutcome /\ (o # NoOutcome => o.code \in Code)
    BY <1>0, <2>1, DecisionFields
  <2>4. outcome' \in [Worker -> DispatchOutcome] /\ pc' \in [Worker -> Stage]
    BY <1>0, <2>2, <2>3 DEF TypeOK, Stage
  <2>5. Shape'
    BY <1>0, <1>6, <2>2, <2>3 DEF EvaluatePolicy, Shape, TypeOK
  <2> QED
    BY <1>0, <1>6, <2>4, <2>5 DEF EvaluatePolicy, TypeInv, TypeOK
<1>7. ASSUME NEW w \in Worker, BeginSend(w) PROVE TypeInv'
  <2>1. /\ Refuse("account_flagged") \in DispatchOutcome
        /\ Refuse("account_flagged").code \in Code
        /\ Refuse("rate_limited") \in DispatchOutcome
        /\ Refuse("rate_limited").code \in Code
    BY DEF Refuse, DispatchOutcome, Code, Telegram
  <2>2. outcome' \in [Worker -> DispatchOutcome] /\ pc' \in [Worker -> Stage]
    BY <1>0, <1>7, <2>1 DEF BeginSend, TypeOK, Stage
  <2>3. leaks' \in [Account -> Nat]
    <3>1. leaks' = leaks \/ leaks' = [leaks EXCEPT ![AccountOf[job[w]]] =
                                           leaks[AccountOf[job[w]]] + 1]
      <4>1. job[w] \in Action
        BY <1>0, <1>7 DEF BeginSend, Shape
      <4>2. AccountOf[job[w]] \in Account
        BY <4>1
      <4> QED
        BY <1>0, <1>7, <4>2 DEF BeginSend, TypeOK
    <3>2. leaks \in [Account -> Nat] /\ \A c \in Account : leaks[c] + 1 \in Nat
      BY <1>0 DEF TypeOK
    <3>3. \A c : \A n \in Nat : [leaks EXCEPT ![c] = n] \in [Account -> Nat]
      BY <3>2
    <3> QED
      BY <3>1, <3>2, <3>3
  <2>4. Shape'
    BY <1>0, <1>7, <2>1 DEF BeginSend, Shape, TypeOK
  <2> QED
    BY <1>0, <1>7, <2>2, <2>3, <2>4 DEF BeginSend, TypeInv, TypeOK
<1>8. ASSUME NEW w \in Worker, EndSend(w) PROVE TypeInv'
  <2>1. job[w] \in Action
    BY <1>0, <1>8 DEF EndSend, Shape
  <2>2. PICK code \in Telegram, wait \in FloodWaits \cup {0},
             landed \in BOOLEAN, runs_on \in BOOLEAN :
          /\ Answer(job[w], code, wait, landed, runs_on)
          /\ outcome' = [outcome EXCEPT ![w] = [code |-> code, wait |-> wait]]
          /\ registry' = [registry EXCEPT
                            ![AccountOf[job[w]]] = RegistryAfter(@, code, wait)]
          /\ delivered' = IF landed THEN [delivered EXCEPT ![job[w]] = @ + 1]
                          ELSE delivered
          /\ late' = IF runs_on THEN late \cup {job[w]} ELSE late
    BY <1>8 DEF EndSend
  <2>3. wait \in Nat /\ now + wait \in Nat
    BY <1>0 DEF TypeOK
  <2>4. outcome' \in [Worker -> DispatchOutcome]
    BY <1>0, <2>2, <2>3 DEF TypeOK, DispatchOutcome, Code
  <2>5. registry' \in [Account -> AccountRecord]
    <3>1. \A reg \in AccountRecord : RegistryAfter(reg, code, wait) \in AccountRecord
      BY <2>3 DEF RegistryAfter, AccountRecord
    <3> QED
      BY <1>0, <2>1, <2>2, <3>1 DEF TypeOK
  <2>6. delivered' \in [Action -> Nat]
    BY <1>0, <2>1, <2>2 DEF TypeOK
  <2>7. late' \subseteq Visible
    BY <1>0, <2>1, <2>2 DEF TypeOK, Answer
  <2>8. Shape'
    BY <1>0, <1>8, <2>1, <2>2 DEF EndSend, Shape, TypeOK, Code
  <2> QED
    BY <1>0, <1>8, <2>4, <2>5, <2>6, <2>7, <2>8
       DEF EndSend, TypeInv, TypeOK, Stage
<1>9. ASSUME NEW w \in Worker, ApplyOutcome(w) PROVE TypeInv'
  <2>1. job[w] \in Action /\ outcome[w] \in DispatchOutcome
        /\ copy[w] \in LiveActionRecord /\ now \in Nat
    BY <1>0, <1>9 DEF ApplyOutcome, Shape, TypeOK
  <2>2. accounts' \in [Account -> AccountPolicyState]
    <3>1. now + outcome[w].wait \in Nat
      BY <2>1 DEF DispatchOutcome
    <3>2. \A x \in AccountPolicyState, n \in Nat :
             /\ [x EXCEPT !.cooldown_until = n] \in AccountPolicyState
             /\ [x EXCEPT !.is_paused = TRUE] \in AccountPolicyState
      BY DEF AccountPolicyState
    <3>3. \A x \in AccountPolicyState :
             AccountAfter(x, outcome[w]) \in AccountPolicyState
      BY <3>1, <3>2 DEF AccountAfter
    <3> QED
      BY <1>0, <1>9, <2>1, <3>3 DEF ApplyOutcome, TypeOK
  <2>3. communities' \in [Community -> CommunityPolicyState]
    <3>1. \A x \in CommunityPolicyState : CommunityAfter(x) \in CommunityPolicyState
      BY DEF CommunityAfter, CommunityPolicyState
    <3> QED
      BY <1>0, <1>9, <2>1, <3>1 DEF ApplyOutcome, TypeOK
  <2>4. copy' \in [Worker -> LiveActionRecord]
    <3>1. PICK d \in RetryDelays(outcome[w]) :
             copy' = [copy EXCEPT ![w] = Applied(job[w], copy[w], outcome[w], d)]
      BY <1>9, <1>0 DEF ApplyOutcome, TypeOK
    <3>2. Applied(job[w], copy[w], outcome[w], d) \in LiveActionRecord
      BY <2>1, DelayIsNat, AppliedFields
    <3> QED
      BY <1>0, <3>1, <3>2 DEF TypeOK
  <2>5. Shape'
    BY <1>0, <1>9 DEF ApplyOutcome, Shape, TypeOK
  <2> QED
    BY <1>0, <1>9, <2>2, <2>3, <2>4, <2>5 DEF ApplyOutcome, TypeInv, TypeOK, Stage
<1>10. ASSUME NEW w \in Worker, RecordAttempt(w) PROVE TypeInv'
  <2>1. job[w] \in Action /\ outcome[w].code \in Code
    BY <1>0, <1>10 DEF RecordAttempt, Shape
  <2>2. attempts[job[w]] \in Seq(Code)
    BY <1>0, <2>1 DEF TypeOK
  <2>3. Append(attempts[job[w]], outcome[w].code) \in Seq(Code)
    BY <2>1, <2>2
  <2>4. attempts' \in [Action -> Seq(Code)]
    BY <1>0, <1>10, <2>3 DEF RecordAttempt, TypeOK
  <2>5. Shape'
    BY <1>0, <1>10 DEF RecordAttempt, Shape, TypeOK
  <2> QED
    BY <1>0, <1>10, <2>4, <2>5 DEF RecordAttempt, TypeInv, TypeOK, Stage
<1>11. ASSUME NEW w \in Worker, Idle(w)
       PROVE  /\ pc' \in [Worker -> Stage]
              /\ job' \in [Worker -> Action \cup {NoAction}]
              /\ copy' \in [Worker -> LiveActionRecord]
              /\ started_at' \in [Worker -> 0..MaxTime]
              /\ outcome' \in [Worker -> DispatchOutcome]
              /\ Shape'
  <2>1. Absent \in LiveActionRecord /\ NoOutcome \in DispatchOutcome
    BY DEF Absent, LiveActionRecord, Status, NoOutcome, DispatchOutcome
  <2>2. /\ pc' \in [Worker -> Stage]
        /\ job' \in [Worker -> Action \cup {NoAction}]
        /\ started_at' \in [Worker -> 0..MaxTime]
    BY <1>0, <1>11 DEF Idle, TypeOK, Stage
  <2>3. copy' \in [Worker -> LiveActionRecord] /\ outcome' \in [Worker -> DispatchOutcome]
    BY <1>0, <1>11, <2>1 DEF Idle, TypeOK
  <2>4. Shape'
    BY <1>0, <1>11 DEF Idle, Shape, TypeOK
  <2> QED
    BY <2>2, <2>3, <2>4
<1>12. ASSUME NEW w \in Worker, SaveOutcome(w) PROVE TypeInv'
  <2>1. actions' \in [Action -> LiveActionRecord]
    BY <1>0, <1>12 DEF SaveOutcome, TypeOK
  <2>2. Idle(w)
    BY <1>12 DEF SaveOutcome
  <2> QED
    BY <1>0, <1>11, <1>12, <2>1, <2>2 DEF SaveOutcome, TypeInv, TypeOK
<1>13. ASSUME NEW w \in Worker, Abort(w) PROVE TypeInv'
  <2>1. late' \subseteq Visible
    BY <1>0, <1>13 DEF Abort, TypeOK
  <2>2. Idle(w) /\ crashes' \in 0..MaxCrashes
    BY <1>0, <1>13 DEF Abort, TypeOK
  <2> QED
    BY <1>0, <1>11, <1>13, <2>1, <2>2 DEF Abort, TypeInv, TypeOK
<1>14. ASSUME NEW paused \in BOOLEAN, PauseCampaign(paused) PROVE TypeInv'
  BY <1>0, <1>14 DEF PauseCampaign, TypeInv, TypeOK, Shape
<1>15. ASSUME NEW acct \in Account, NEW paused \in BOOLEAN,
              PauseAccount(acct, paused)
       PROVE  TypeInv'
  <2>1. \A x \in AccountPolicyState : [x EXCEPT !.is_paused = paused] \in AccountPolicyState
    BY DEF AccountPolicyState
  <2>2. accounts' = [accounts EXCEPT ![acct] = [accounts[acct] EXCEPT !.is_paused = paused]]
    BY <1>0, <1>15 DEF PauseAccount, TypeOK
  <2>3. accounts' \in [Account -> AccountPolicyState]
    BY <1>0, <2>1, <2>2 DEF TypeOK
  <2>4. leaks' \in [Account -> Nat]
    BY <1>0, <1>15 DEF PauseAccount, TypeOK
  <2> QED
    BY <1>0, <1>15, <2>3, <2>4 DEF PauseAccount, TypeInv, TypeOK, Shape
<1>16. CASE Tick
  BY <1>0, <1>16 DEF Tick, TypeInv, TypeOK, Shape
<1>17. CASE UNCHANGED vars
  BY <1>0, <1>17 DEF vars, TypeInv, TypeOK, Shape
<1> QED
  BY <1>1, <1>2, <1>3, <1>4, <1>5, <1>6, <1>7, <1>8, <1>9, <1>10, <1>12,
     <1>13, <1>14, <1>15, <1>16, <1>17, NextCases

-----------------------------------------------------------------------------
(* Exclusive execution.                                                    *)

\* Owners of one record are one worker.
LEMMA OwnersDiffer == TypeInv /\ Ownership => ExclusiveExecution
<1> SUFFICES ASSUME TypeInv, Ownership,
                    NEW v \in Worker, NEW w \in Worker,
                    pc[v] # "idle", pc[w] # "idle", job[v] = job[w]
             PROVE  v = w
  BY DEF ExclusiveExecution
<1>1. \A u \in Worker : pc[u] # "idle" => pc[u] = "claimed" \/ pc[u] \in Executing
  BY DEF TypeInv, TypeOK, Stage, Executing
<1>2. \A u \in Worker : pc[u] # "idle" => actions[job[u]].claimed_by = u
  BY <1>1 DEF Ownership, Owns
<1> QED
  BY <1>2

\* What a worker owns stays its own while a step leaves its record, its part of
\* the worker state and the clock alone.
LEMMA OwnsFrame ==
    ASSUME NEW w \in Worker, Owns(w), pc'[w] = pc[w], job'[w] = job[w],
           copy'[w] = copy[w], now' = now,
           pc[w] # "idle" => actions'[job[w]] = actions[job[w]]
    PROVE  Owns(w)'
BY DEF Owns, Executing

\* No step takes a record from its owner, as long as no claim expires before
\* its worker has marked it running.
LEMMA OwnershipStep ==
    ASSUME WorkersKeepUp, TypeInv, Ownership, [Next]_vars
    PROVE  Ownership'
<1> USE ConstantsOK DEF file_vars, worker_vars, world_vars
<1>0. TypeOK /\ Shape /\ TypeInv' /\ ExclusiveExecution
  BY TypeStep, OwnersDiffer DEF TypeInv
<1>a. \A w \in Worker : pc[w] # "idle" =>
        /\ job[w] \in Action
        /\ actions[job[w]].status \in {"claimed", "running"}
        /\ ~ClaimExpired(actions[job[w]])
  <2>1. \A w \in Worker : pc[w] # "idle" => pc[w] = "claimed" \/ pc[w] \in Executing
    BY <1>0 DEF TypeOK, Stage, Executing
  <2>2. \A w \in Worker : pc[w] = "claimed" =>
          now \in Nat /\ copy[w].claim_expires_at \in Nat
    BY <1>0 DEF TypeOK, LiveActionRecord
  <2> QED
    BY <1>0, <2>1, <2>2 DEF Ownership, Owns, Shape, ClaimExpired
<1>1. ASSUME NEW a \in Action, Enqueue(a) \/ CancelIfPending(a) PROVE Ownership'
  <2> SUFFICES ASSUME NEW v \in Worker PROVE Owns(v)'
    BY DEF Ownership
  <2>1. actions[a].status \in {"absent", "queued", "retry_wait"}
        /\ UNCHANGED <<pc, job, copy, now>>
    BY <1>1 DEF Enqueue, CancelIfPending, Pending
  <2>2. pc[v] # "idle" => actions'[job[v]] = actions[job[v]]
    BY <1>0, <1>1, <1>a, <2>1 DEF Enqueue, CancelIfPending, TypeOK
  <2> QED
    BY <2>1, <2>2, OwnsFrame DEF Ownership
<1>2. ASSUME NEW w \in Worker, Claim(w) PROVE Ownership'
  <2> DEFINE swept == [a \in Action |-> IF ClaimExpired(actions[a])
                                        THEN Unclaimed(actions[a], "queued")
                                        ELSE actions[a]]
             taken(a) == [swept[a] EXCEPT !.status = "claimed", !.claimed_by = w,
                                          !.claim_expires_at = now + ClaimTTL]
  <2>1. PICK a \in Action : /\ IsReady(swept[a])
                            /\ actions' = [swept EXCEPT ![a] = taken(a)]
                            /\ job' = [job EXCEPT ![w] = a]
                            /\ copy' = [copy EXCEPT ![w] = taken(a)]
                            /\ pc' = [pc EXCEPT ![w] = "claimed"]
                            /\ now' = now
    BY <1>2 DEF Claim
  <2>2. Owns(w)'
    <3>1. pc'[w] = "claimed" /\ job'[w] = a /\ copy'[w] = taken(a)
      BY <1>0, <2>1 DEF TypeOK
    <3>2. actions'[a] = taken(a)
      BY <2>1
    <3>3. swept[a] \in LiveActionRecord
      BY <1>0, UnclaimedFields DEF TypeOK, Status, Pending
    <3>4. now + ClaimTTL \in Nat /\ now < now + ClaimTTL
      BY <1>0 DEF TypeOK
    <3>5. /\ taken(a).status = "claimed" /\ taken(a).claimed_by = w
          /\ taken(a).claim_expires_at = now + ClaimTTL
      <4> HIDE DEF swept
      <4> QED
        BY <3>3, <3>4 DEF LiveActionRecord, Status
    <3> HIDE DEF taken
    <3> QED
      BY <2>1, <3>1, <3>2, <3>4, <3>5 DEF Owns, Executing
  <2>3. ASSUME NEW v \in Worker, v # w PROVE Owns(v)'
    <3>1. pc[v] # "idle" => swept[job[v]] = actions[job[v]] /\ job[v] # a
      BY <1>a, <2>1 DEF IsReady, Pending
    <3>2. pc[v] # "idle" => actions'[job[v]] = actions[job[v]]
      BY <1>a, <2>1, <3>1
    <3> QED
      BY <1>0, <2>1, <2>3, <3>2, OwnsFrame DEF Ownership, TypeOK
  <2> QED
    BY <2>2, <2>3 DEF Ownership
<1>3. ASSUME NEW w \in Worker, MarkRunning(w) PROVE Ownership'
  <2> DEFINE marked == [copy[w] EXCEPT !.status = "running"]
  <2>1. /\ pc[w] = "claimed" /\ now' = now /\ job' = job
        /\ pc' = [pc EXCEPT ![w] = "running"]
        /\ copy' = [copy EXCEPT ![w] = marked]
        /\ actions' = [actions EXCEPT ![job[w]] = marked]
    BY <1>0, <1>3 DEF MarkRunning, TypeOK
  <2>2. marked.status = "running" /\ marked.claimed_by = w
    <3>1. copy[w] \in LiveActionRecord /\ "running" \in Status
      BY <1>0 DEF TypeOK, Status
    <3>2. copy[w].claimed_by = w
      BY <2>1 DEF Ownership, Owns
    <3> QED
      BY <3>1, <3>2, StatusUpdate
  <2> HIDE DEF marked
  <2>3. Owns(w)'
    BY <1>0, <1>a, <2>1, <2>2 DEF Owns, Executing, TypeOK
  <2>4. ASSUME NEW v \in Worker, v # w PROVE Owns(v)'
    <3>1. pc[v] # "idle" => job[v] # job[w]
      BY <1>0, <2>1, <2>4 DEF ExclusiveExecution
    <3>2. pc[v] # "idle" => actions'[job[v]] = actions[job[v]]
      BY <1>0, <1>a, <2>1, <3>1 DEF TypeOK
    <3> QED
      BY <1>0, <2>1, <2>4, <3>2, OwnsFrame DEF Ownership, TypeOK
  <2> QED
    BY <2>3, <2>4 DEF Ownership
<1>4. ASSUME NEW w \in Worker,
             \/ EvaluatePolicy(w) \/ BeginSend(w) \/ EndSend(w)
             \/ ApplyOutcome(w) \/ RecordAttempt(w)
      PROVE  Ownership'
  <2>1. /\ UNCHANGED <<now, actions, job>>
        /\ pc[w] \in Executing /\ pc'[w] \in Executing
        /\ \A v \in Worker : v # w => pc'[v] = pc[v] /\ copy'[v] = copy[v]
    BY <1>0, <1>4 DEF EvaluatePolicy, BeginSend, EndSend, ApplyOutcome,
                      RecordAttempt, Executing, TypeOK
  <2>2. pc'[w] \in {"running", "cleared", "sending", "executed"} =>
          /\ pc[w] \in {"running", "cleared", "sending"}
          /\ copy'[w] = copy[w]
    BY <1>0, <1>4 DEF EvaluatePolicy, BeginSend, EndSend, ApplyOutcome,
                      RecordAttempt, TypeOK
  <2>3. Owns(w)'
    BY <2>1, <2>2 DEF Ownership, Owns, Executing
  <2>4. ASSUME NEW v \in Worker, v # w PROVE Owns(v)'
    BY <2>1, <2>4, OwnsFrame DEF Ownership
  <2> QED
    BY <2>3, <2>4 DEF Ownership
<1>5. ASSUME NEW w \in Worker, SaveOutcome(w) \/ Abort(w) PROVE Ownership'
  <2>1. /\ pc[w] # "idle" /\ now' = now
        /\ pc'[w] = "idle"
        /\ \A v \in Worker : v # w => /\ pc'[v] = pc[v] /\ job'[v] = job[v]
                                      /\ copy'[v] = copy[v]
    BY <1>0, <1>5 DEF SaveOutcome, Abort, Idle, TypeOK
  <2>2. actions' = actions \/ actions' = [actions EXCEPT ![job[w]] = copy[w]]
    BY <1>5 DEF SaveOutcome, Abort
  <2>3. ASSUME NEW v \in Worker, v # w PROVE Owns(v)'
    <3>1. pc[v] # "idle" => job[v] # job[w]
      BY <1>0, <2>1, <2>3 DEF ExclusiveExecution
    <3>2. pc[v] # "idle" => actions'[job[v]] = actions[job[v]]
      BY <1>0, <1>a, <2>2, <3>1 DEF TypeOK
    <3> QED
      BY <2>1, <2>3, <3>2, OwnsFrame DEF Ownership
  <2>4. Owns(w)'
    BY <2>1 DEF Owns, Executing
  <2> QED
    BY <2>3, <2>4 DEF Ownership
<1>6. CASE Tick
  <2> SUFFICES ASSUME NEW v \in Worker PROVE Owns(v)'
    BY DEF Ownership
  <2>1. now' = now + 1 /\ UNCHANGED <<actions, pc, job, copy>>
        /\ (pc[v] = "claimed" => now + 1 < copy[v].claim_expires_at)
    BY <1>6 DEF Tick
  <2> QED
    BY <2>1 DEF Ownership, Owns, Executing
<1>7. CASE UNCHANGED <<now, actions, pc, job, copy>>
  BY <1>7 DEF Ownership, Owns, Executing
<1>8. \/ \E a \in Action : LandLate(a)
      \/ \E paused \in BOOLEAN : PauseCampaign(paused)
      \/ \E acct \in Account, paused \in BOOLEAN : PauseAccount(acct, paused)
      \/ UNCHANGED vars
      => UNCHANGED <<now, actions, pc, job, copy>>
  BY DEF LandLate, PauseCampaign, PauseAccount, vars
<1> QED
  BY <1>1, <1>2, <1>3, <1>4, <1>5, <1>6, <1>7, <1>8, NextCases

-----------------------------------------------------------------------------
(* At most one post.                                                       *)

\* What is known of an action's post stays true while its record, its post and
\* its pending call stay as they are.
LEMMA ActionPostingFrame ==
    ASSUME NEW a \in Action, ActionPosting(a), delivered'[a] = delivered[a],
           a \in late' <=> a \in late,
           \/ actions'[a].status = actions[a].status
           \/ actions'[a].status \in {"queued", "claimed", "running", "cancelled"} /\ Unposted(a)
    PROVE  ActionPosting(a)'
BY DEF ActionPosting, Unposted, Consistent

\* The same of a worker.
LEMMA WorkerPostingFrame ==
    ASSUME NEW w \in Worker, WorkerPosting(w), pc'[w] = pc[w], job'[w] = job[w],
           copy'[w] = copy[w], outcome'[w] = outcome[w],
           pc[w] # "idle" => /\ delivered'[job[w]] = delivered[job[w]]
                             /\ job[w] \in late' <=> job[w] \in late
    PROVE  WorkerPosting(w)'
BY DEF WorkerPosting, Unposted, Consistent, Blocked, Retryable

\* Nothing of an action that waits in the queue has been posted.
LEMMA WaitingIsUnposted ==
    ASSUME NEW a \in Action, ActionPosting(a),
           actions[a].status \in Pending \cup {"absent", "claimed"}
    PROVE  Unposted(a)
BY DEF ActionPosting, Consistent, Pending

\* No step makes a second post possible, as long as a call that is answered
\* "rate limited" has not posted.
LEMMA PostingStep ==
    ASSUME ~ClosingCanFlood, TypeInv, Ownership, Posting, [Next]_vars
    PROVE  Posting'
<1> USE ConstantsOK DEF file_vars, worker_vars, world_vars
<1>0. /\ TypeOK /\ Shape /\ ExclusiveExecution
      /\ \A a \in Action : ActionPosting(a)
      /\ \A w \in Worker : WorkerPosting(w)
  BY OwnersDiffer DEF TypeInv, Posting
<1>1. ASSUME NEW a \in Action, Enqueue(a) PROVE Posting'
  <2>1. Unposted(a) /\ actions[a].status = "absent"
    BY <1>0, <1>1, WaitingIsUnposted DEF Enqueue
  <2>2. PICK d \in StartDelays :
           actions' = [actions EXCEPT ![a] = [actions[a] EXCEPT !.status = "queued",
                                                                !.due_at = now + d]]
    BY <1>0, <1>1 DEF Enqueue, TypeOK
  <2>3. actions'[a].status = "queued"
    <3>1. actions[a] \in LiveActionRecord /\ "queued" \in Status /\ now + d \in Nat
      BY <1>0 DEF TypeOK, Status, Pending
    <3>2. [actions[a] EXCEPT !.status = "queued", !.due_at = now + d].status = "queued"
      BY <3>1 DEF LiveActionRecord
    <3> QED
      BY <1>0, <2>2, <3>2 DEF TypeOK
  <2>4. \A b \in Action : b # a => actions'[b] = actions[b]
    BY <1>0, <2>2 DEF TypeOK
  <2>5. UNCHANGED <<pc, job, copy, outcome, delivered, late>>
    BY <1>1 DEF Enqueue
  <2>6. ASSUME NEW b \in Action PROVE ActionPosting(b)'
    BY <1>0, <2>1, <2>3, <2>4, <2>5, ActionPostingFrame
  <2>7. ASSUME NEW v \in Worker PROVE WorkerPosting(v)'
    BY <1>0, <2>5, WorkerPostingFrame
  <2> QED
    BY <2>6, <2>7 DEF Posting
<1>2. ASSUME NEW a \in Action, CancelIfPending(a) PROVE Posting'
  <2>1. Unposted(a)
    BY <1>0, <1>2, WaitingIsUnposted DEF CancelIfPending
  <2>2. actions' = [actions EXCEPT ![a] = Unclaimed(actions[a], "cancelled")]
        /\ UNCHANGED <<pc, job, copy, outcome, delivered, late>>
    BY <1>0, <1>2 DEF CancelIfPending, TypeOK
  <2>3. Unclaimed(actions[a], "cancelled").status = "cancelled"
    BY <1>0, UnclaimedFields DEF TypeOK, Status, Terminal
  <2>4. actions'[a].status = "cancelled" /\ \A b \in Action : b # a => actions'[b] = actions[b]
    BY <1>0, <2>2, <2>3 DEF TypeOK
  <2>5. ASSUME NEW b \in Action PROVE ActionPosting(b)'
    BY <1>0, <2>1, <2>2, <2>4, ActionPostingFrame
  <2>6. ASSUME NEW v \in Worker PROVE WorkerPosting(v)'
    BY <1>0, <2>2, WorkerPostingFrame
  <2> QED
    BY <2>5, <2>6 DEF Posting
<1>3. ASSUME NEW a \in Action, LandLate(a) PROVE Posting'
  <2>1. /\ a \in late /\ late' = late \ {a}
        /\ delivered[a] = 0 /\ delivered' = [delivered EXCEPT ![a] = delivered[a] + 1]
        /\ UNCHANGED <<actions, pc, job, copy, outcome>>
    BY <1>0, <1>3 DEF LandLate, ActionPosting, TypeOK
  <2>2. delivered'[a] = 1 /\ a \notin late'
        /\ \A b \in Action : b # a => /\ delivered'[b] = delivered[b]
                                      /\ b \in late' <=> b \in late
    BY <1>0, <2>1 DEF TypeOK
  <2>3. ActionPosting(a)'
    BY <1>0, <2>1, <2>2 DEF ActionPosting, Unposted, Consistent
  <2>4. ASSUME NEW b \in Action, b # a PROVE ActionPosting(b)'
    BY <1>0, <2>1, <2>2, <2>4, ActionPostingFrame
  <2>5. ASSUME NEW v \in Worker PROVE WorkerPosting(v)'
    <3>1. CASE pc[v] # "idle" /\ job[v] = a
      BY <1>0, <2>1, <2>2, <3>1
         DEF WorkerPosting, Unposted, Consistent, Blocked, Retryable
    <3>2. CASE pc[v] = "idle" \/ job[v] # a
      <4>1. pc[v] # "idle" => job[v] \in Action
        BY <1>0 DEF Shape
      <4> QED
        BY <1>0, <2>1, <2>2, <3>2, <4>1, WorkerPostingFrame
    <3> QED
      BY <3>1, <3>2
  <2> QED
    BY <2>3, <2>4, <2>5 DEF Posting
<1>4. ASSUME NEW w \in Worker, Claim(w) PROVE Posting'
  <2> DEFINE swept == [a \in Action |-> IF ClaimExpired(actions[a])
                                        THEN Unclaimed(actions[a], "queued")
                                        ELSE actions[a]]
             taken(a) == [swept[a] EXCEPT !.status = "claimed", !.claimed_by = w,
                                          !.claim_expires_at = now + ClaimTTL]
  <2>1. PICK a \in Action : /\ IsReady(swept[a])
                            /\ actions' = [swept EXCEPT ![a] = taken(a)]
                            /\ job' = [job EXCEPT ![w] = a]
                            /\ pc' = [pc EXCEPT ![w] = "claimed"]
                            /\ copy' = [copy EXCEPT ![w] = taken(a)]
                            /\ UNCHANGED <<outcome, delivered, late>>
    BY <1>4 DEF Claim
  <2>2. ASSUME NEW b \in Action
        PROVE  /\ swept[b] \in LiveActionRecord
               /\ \/ swept[b].status = actions[b].status
                  \/ swept[b].status = "queued" /\ actions[b].status = "claimed"
    <3>1. actions[b] \in LiveActionRecord /\ "queued" \in Status
      BY <1>0 DEF TypeOK, Status, Pending
    <3> QED
      BY <3>1, UnclaimedFields DEF ClaimExpired
  <2>3. Unposted(a)
    BY <1>0, <2>1, <2>2, WaitingIsUnposted DEF IsReady, Pending
  <2>4. taken(a).status = "claimed"
    <3>1. swept[a] \in LiveActionRecord
      BY <2>2
    <3> HIDE DEF swept
    <3> QED
      BY <3>1 DEF LiveActionRecord
  <2>5. ASSUME NEW b \in Action PROVE ActionPosting(b)'
    <3>1. CASE b = a
      <4>1. actions'[a].status = "claimed"
        BY <2>1, <2>4
      <4> QED
        BY <1>0, <2>1, <2>3, <3>1, <4>1, ActionPostingFrame
    <3>2. CASE b # a
      <4>1. \/ actions'[b].status = actions[b].status
            \/ actions'[b].status = "queued" /\ actions[b].status = "claimed"
        BY <2>1, <2>2, <3>2
      <4>2. actions[b].status = "claimed" => Unposted(b)
        BY <1>0, WaitingIsUnposted
      <4> QED
        BY <1>0, <2>1, <4>1, <4>2, ActionPostingFrame
    <3> QED
      BY <3>1, <3>2
  <2>6. ASSUME NEW v \in Worker PROVE WorkerPosting(v)'
    <3>1. CASE v = w
      BY <1>0, <2>1, <2>3, <3>1 DEF WorkerPosting, Unposted, TypeOK
    <3>2. CASE v # w
      BY <1>0, <2>1, <3>2, WorkerPostingFrame DEF TypeOK
    <3> QED
      BY <3>1, <3>2
  <2> QED
    BY <2>5, <2>6 DEF Posting
<1>5. ASSUME NEW w \in Worker, MarkRunning(w) PROVE Posting'
  <2>1. /\ pc[w] = "claimed" /\ job[w] \in Action
        /\ pc' = [pc EXCEPT ![w] = "running"]
        /\ copy' = [copy EXCEPT ![w] = [copy[w] EXCEPT !.status = "running"]]
        /\ actions' = [actions EXCEPT ![job[w]] = [copy[w] EXCEPT !.status = "running"]]
        /\ UNCHANGED <<job, outcome, delivered, late>>
    BY <1>0, <1>5 DEF MarkRunning, TypeOK, Shape
  <2>2. Unposted(job[w])
    BY <1>0, <2>1 DEF WorkerPosting
  <2>3. [copy[w] EXCEPT !.status = "running"].status = "running"
    <3>1. copy[w] \in LiveActionRecord /\ "running" \in Status
      BY <1>0 DEF TypeOK, Status
    <3> QED
      BY <3>1, StatusUpdate
  <2>4. actions'[job[w]].status = "running"
        /\ \A b \in Action : b # job[w] => actions'[b] = actions[b]
    BY <1>0, <2>1, <2>3 DEF TypeOK
  <2>5. ASSUME NEW b \in Action PROVE ActionPosting(b)'
    BY <1>0, <2>1, <2>2, <2>4, ActionPostingFrame
  <2>6. ASSUME NEW v \in Worker PROVE WorkerPosting(v)'
    <3>1. CASE v = w
      BY <1>0, <2>1, <2>2, <3>1 DEF WorkerPosting, Unposted, TypeOK
    <3>2. CASE v # w
      BY <1>0, <2>1, <3>2, WorkerPostingFrame DEF TypeOK
    <3> QED
      BY <3>1, <3>2
  <2> QED
    BY <2>5, <2>6 DEF Posting
<1>6. ASSUME NEW w \in Worker, EvaluatePolicy(w) PROVE Posting'
  <2>1. /\ pc[w] = "running" /\ job[w] \in Action /\ started_at[w] \in Nat
        /\ UNCHANGED <<actions, job, copy, delivered, late>>
    BY <1>0, <1>6 DEF EvaluatePolicy, TypeOK, Shape
  <2>2. PICK o \in PolicyDecisions(job[w], started_at[w]) :
           /\ outcome' = [outcome EXCEPT ![w] = o]
           /\ pc' = [pc EXCEPT ![w] = IF o = NoOutcome THEN "cleared" ELSE "executed"]
    BY <1>6 DEF EvaluatePolicy
  <2>3. o.code # "success"
    BY <1>0, <2>1, DecisionFields
  <2>4. Unposted(job[w])
    BY <1>0, <2>1 DEF WorkerPosting
  <2>5. ASSUME NEW v \in Worker PROVE WorkerPosting(v)'
    <3>1. CASE v = w
      <4>1. outcome'[w] = o /\ pc'[w] \in {"cleared", "executed"}
        BY <1>0, <2>2 DEF TypeOK
      <4> QED
        BY <2>1, <2>3, <2>4, <3>1, <4>1 DEF WorkerPosting, Unposted
    <3>2. CASE v # w
      BY <1>0, <2>1, <2>2, <3>2, WorkerPostingFrame DEF TypeOK
    <3> QED
      BY <3>1, <3>2
  <2>6. ASSUME NEW b \in Action PROVE ActionPosting(b)'
    BY <1>0, <2>1, ActionPostingFrame
  <2> QED
    BY <2>5, <2>6 DEF Posting
<1>7. ASSUME NEW w \in Worker, BeginSend(w) PROVE Posting'
  <2>1. /\ pc[w] = "cleared" /\ UNCHANGED <<actions, job, copy, delivered, late>>
    BY <1>7 DEF BeginSend
  <2>2. Unposted(job[w])
    BY <1>0, <2>1 DEF WorkerPosting
  <2>3. /\ pc'[w] \in {"executed", "sending"}
        /\ pc'[w] = "executed" => outcome'[w].code # "success"
    BY <1>0, <1>7 DEF BeginSend, Refuse, TypeOK
  <2>4. \A v \in Worker : v # w => pc'[v] = pc[v] /\ outcome'[v] = outcome[v]
    BY <1>0, <1>7 DEF BeginSend, TypeOK
  <2>5. ASSUME NEW v \in Worker PROVE WorkerPosting(v)'
    <3>1. CASE v = w
      BY <2>1, <2>2, <2>3, <3>1 DEF WorkerPosting, Unposted
    <3>2. CASE v # w
      BY <1>0, <2>1, <2>4, <3>2, WorkerPostingFrame
    <3> QED
      BY <3>1, <3>2
  <2>6. ASSUME NEW b \in Action PROVE ActionPosting(b)'
    BY <1>0, <2>1, ActionPostingFrame
  <2> QED
    BY <2>5, <2>6 DEF Posting
<1>8. ASSUME NEW w \in Worker, EndSend(w) PROVE Posting'
  <2>1. /\ pc[w] = "sending" /\ job[w] \in Action
        /\ pc' = [pc EXCEPT ![w] = "executed"]
        /\ UNCHANGED <<actions, job, copy>>
    BY <1>0, <1>8 DEF EndSend, Shape
  <2>2. delivered[job[w]] = 0 /\ job[w] \notin late /\ actions[job[w]].status = "running"
    BY <1>0, <2>1 DEF WorkerPosting, Unposted, Ownership, Owns, Executing
  <2>3. PICK code \in Telegram, wait \in FloodWaits \cup {0},
             landed \in BOOLEAN, runs_on \in BOOLEAN :
          /\ Answer(job[w], code, wait, landed, runs_on)
          /\ outcome' = [outcome EXCEPT ![w] = [code |-> code, wait |-> wait]]
          /\ registry' = [registry EXCEPT
                            ![AccountOf[job[w]]] = RegistryAfter(@, code, wait)]
          /\ delivered' = IF landed THEN [delivered EXCEPT ![job[w]] = @ + 1]
                          ELSE delivered
          /\ late' = IF runs_on THEN late \cup {job[w]} ELSE late
    BY <1>8 DEF EndSend
  <2>4. /\ delivered'[job[w]] = IF landed THEN 1 ELSE 0
        /\ job[w] \in late' <=> runs_on
        /\ outcome'[w] = [code |-> code, wait |-> wait]
    BY <1>0, <2>1, <2>2, <2>3 DEF TypeOK
  <2>5. \A b \in Action : b # job[w] => /\ delivered'[b] = delivered[b]
                                        /\ b \in late' <=> b \in late
    BY <1>0, <2>1, <2>3 DEF TypeOK
  <2>6. \A v \in Worker : v # w => /\ pc'[v] = pc[v] /\ outcome'[v] = outcome[v]
                                   /\ pc[v] # "idle" => /\ job[v] # job[w]
                                                        /\ job[v] \in Action
    BY <1>0, <2>1, <2>3 DEF TypeOK, ExclusiveExecution, Shape
  <2>7. ASSUME NEW b \in Action PROVE ActionPosting(b)'
    <3>1. CASE b = job[w]
      BY <2>1, <2>2, <2>3, <2>4, <3>1
         DEF ActionPosting, Unposted, Consistent, Answer
    <3>2. CASE b # job[w]
      BY <1>0, <2>1, <2>5, <3>2, ActionPostingFrame
    <3> QED
      BY <3>1, <3>2
  <2>8. ASSUME NEW v \in Worker PROVE WorkerPosting(v)'
    <3>1. CASE v = w
      <4>1. pc'[w] = "executed" /\ job'[w] = job[w]
        BY <1>0, <2>1 DEF TypeOK
      <4>2. Blocked(outcome'[w]) \/ Retryable(job[w], outcome'[w]) => ~landed /\ ~runs_on
        BY <2>3, <2>4 DEF Answer, Blocked, Retryable
      <4>3. outcome'[w].code = "success" /\ job[w] \in Visible => landed
        BY <2>3, <2>4 DEF Answer
      <4> QED
        BY <2>4, <3>1, <4>1, <4>2, <4>3 DEF WorkerPosting, Unposted, Blocked, Retryable
    <3>2. CASE v # w
      BY <1>0, <2>1, <2>5, <2>6, <3>2, WorkerPostingFrame
    <3> QED
      BY <3>1, <3>2
  <2> QED
    BY <2>7, <2>8 DEF Posting
<1>9. ASSUME NEW w \in Worker, ApplyOutcome(w) PROVE Posting'
  <2>1. /\ pc[w] = "executed" /\ job[w] \in Action
        /\ outcome[w] \in DispatchOutcome /\ copy[w] \in LiveActionRecord
        /\ now \in Nat
        /\ pc' = [pc EXCEPT ![w] = "applied"]
        /\ UNCHANGED <<actions, job, outcome, delivered, late>>
    BY <1>0, <1>9 DEF ApplyOutcome, TypeOK, Shape
  <2>2. PICK d \in RetryDelays(outcome[w]) :
           copy' = [copy EXCEPT ![w] = Applied(job[w], copy[w], outcome[w], d)]
    BY <1>0, <1>9 DEF ApplyOutcome, TypeOK
  <2> DEFINE r == Applied(job[w], copy[w], outcome[w], d)
  <2>3. /\ r.status \in {"succeeded", "blocked", "failed", "retry_wait"}
        /\ r.status = "succeeded" => outcome[w].code = "success"
        /\ r.status = "blocked" => Blocked(outcome[w])
        /\ r.status = "retry_wait" => Retryable(job[w], outcome[w])
    BY <2>1, DelayIsNat, AppliedFields
  <2> HIDE DEF r
  <2>4. Consistent(job[w], r.status)
    BY <1>0, <2>1, <2>3 DEF WorkerPosting, Consistent
  <2>5. copy'[w] = r /\ \A v \in Worker : v # w => copy'[v] = copy[v]
    BY <1>0, <2>2 DEF TypeOK, r
  <2>6. ASSUME NEW v \in Worker PROVE WorkerPosting(v)'
    <3>1. CASE v = w
      BY <1>0, <2>1, <2>3, <2>4, <2>5, <3>1
         DEF WorkerPosting, Consistent, Unposted, TypeOK
    <3>2. CASE v # w
      BY <1>0, <2>1, <2>5, <3>2, WorkerPostingFrame DEF TypeOK
    <3> QED
      BY <3>1, <3>2
  <2>7. ASSUME NEW b \in Action PROVE ActionPosting(b)'
    BY <1>0, <2>1, ActionPostingFrame
  <2> QED
    BY <2>6, <2>7 DEF Posting
<1>10. ASSUME NEW w \in Worker, RecordAttempt(w) PROVE Posting'
  <2>1. /\ pc[w] = "applied" /\ pc' = [pc EXCEPT ![w] = "journaled"]
        /\ UNCHANGED <<actions, job, copy, outcome, delivered, late>>
    BY <1>10 DEF RecordAttempt
  <2>2. ASSUME NEW v \in Worker PROVE WorkerPosting(v)'
    <3>1. CASE v = w
      BY <1>0, <2>1, <3>1 DEF WorkerPosting, Consistent, Unposted, TypeOK
    <3>2. CASE v # w
      BY <1>0, <2>1, <3>2, WorkerPostingFrame DEF TypeOK
    <3> QED
      BY <3>1, <3>2
  <2>3. ASSUME NEW b \in Action PROVE ActionPosting(b)'
    BY <1>0, <2>1, ActionPostingFrame
  <2> QED
    BY <2>2, <2>3 DEF Posting
<1>11. ASSUME NEW w \in Worker, SaveOutcome(w) PROVE Posting'
  <2>1. /\ pc[w] = "journaled" /\ job[w] \in Action /\ pc'[w] = "idle"
        /\ actions' = [actions EXCEPT ![job[w]] = copy[w]]
        /\ UNCHANGED <<delivered, late>>
        /\ \A v \in Worker : v # w => /\ pc'[v] = pc[v] /\ job'[v] = job[v]
                                      /\ copy'[v] = copy[v]
                                      /\ outcome'[v] = outcome[v]
    BY <1>0, <1>11 DEF SaveOutcome, Idle, TypeOK, Shape
  <2>2. ASSUME NEW v \in Worker PROVE WorkerPosting(v)'
    <3>1. CASE v = w
      BY <2>1, <3>1 DEF WorkerPosting
    <3>2. CASE v # w
      BY <1>0, <2>1, <3>2, WorkerPostingFrame
    <3> QED
      BY <3>1, <3>2
  <2>3. ASSUME NEW b \in Action PROVE ActionPosting(b)'
    <3>1. CASE b = job[w]
      <4>1. actions'[b] = copy[w]
        BY <1>0, <2>1, <3>1 DEF TypeOK
      <4>2. /\ copy[w].status \in {"succeeded", "blocked", "failed", "retry_wait"}
            /\ Consistent(b, copy[w].status)
        BY <1>0, <2>1, <3>1 DEF WorkerPosting
      <4>3. ActionPosting(b)
        BY <1>0
      <4> QED
        BY <2>1, <4>1, <4>2, <4>3 DEF ActionPosting, Unposted, Consistent
    <3>2. CASE b # job[w]
      BY <1>0, <2>1, <3>2, ActionPostingFrame DEF TypeOK
    <3> QED
      BY <3>1, <3>2
  <2> QED
    BY <2>2, <2>3 DEF Posting
<1>12. ASSUME NEW w \in Worker, Abort(w) PROVE Posting'
  <2>1. /\ pc[w] # "idle" /\ job[w] \in Action /\ pc'[w] = "idle"
        /\ UNCHANGED <<actions, delivered>>
        /\ \A v \in Worker : v # w => /\ pc'[v] = pc[v] /\ job'[v] = job[v]
                                      /\ copy'[v] = copy[v]
                                      /\ outcome'[v] = outcome[v]
    BY <1>0, <1>12 DEF Abort, Idle, TypeOK, Shape
  <2>2. \/ late' = late
        \/ late' = late \cup {job[w]} /\ pc[w] = "sending"
    BY <1>12 DEF Abort
  <2>3. pc[w] = "sending" =>
          /\ Unposted(job[w])
          /\ actions[job[w]].status = "running"
    BY <1>0 DEF WorkerPosting, Ownership, Owns, Executing
  <2>4. ASSUME NEW v \in Worker PROVE WorkerPosting(v)'
    <3>1. CASE v = w
      BY <2>1, <3>1 DEF WorkerPosting
    <3>2. CASE v # w
      <4>1. pc[v] # "idle" => job[v] # job[w]
        BY <1>0, <2>1, <3>2 DEF ExclusiveExecution
      <4> QED
        BY <1>0, <2>1, <2>2, <3>2, <4>1, WorkerPostingFrame
    <3> QED
      BY <3>1, <3>2
  <2>5. ASSUME NEW b \in Action PROVE ActionPosting(b)'
    <3>1. CASE b = job[w] /\ pc[w] = "sending"
      BY <1>0, <2>1, <2>3, <3>1 DEF ActionPosting, Unposted, Consistent
    <3>2. CASE ~(b = job[w] /\ pc[w] = "sending")
      BY <1>0, <2>1, <2>2, <3>2, ActionPostingFrame
    <3> QED
      BY <3>1, <3>2
  <2> QED
    BY <2>4, <2>5 DEF Posting
<1>13. ASSUME UNCHANGED <<actions, pc, job, copy, outcome, delivered, late>>
       PROVE  Posting'
  <2>1. ASSUME NEW v \in Worker PROVE WorkerPosting(v)'
    BY <1>0, <1>13, WorkerPostingFrame
  <2>2. ASSUME NEW b \in Action PROVE ActionPosting(b)'
    BY <1>0, <1>13, ActionPostingFrame
  <2> QED
    BY <2>1, <2>2 DEF Posting
<1>14. \/ \E paused \in BOOLEAN : PauseCampaign(paused)
       \/ \E acct \in Account, paused \in BOOLEAN : PauseAccount(acct, paused)
       \/ Tick
       \/ UNCHANGED vars
       => UNCHANGED <<actions, pc, job, copy, outcome, delivered, late>>
  BY DEF PauseCampaign, PauseAccount, Tick, vars
<1> QED
  BY <1>1, <1>2, <1>3, <1>4, <1>5, <1>6, <1>7, <1>8, <1>9, <1>10, <1>11, <1>12,
     <1>13, <1>14, NextCases

-----------------------------------------------------------------------------
(* Theorems.                                                               *)

\* Every record, worker and counter keeps its type, whatever the timing of the
\* workers, the crashes and Telegram's answers.
THEOREM TypeCorrect == Spec => []TypeOK
<1>1. Init => TypeInv
  BY InitInv DEF IInv
<1>2. TypeInv /\ [Next]_vars => TypeInv'
  BY TypeStep
<1>3. TypeInv => TypeOK
  BY DEF TypeInv
<1> QED
  BY <1>1, <1>2, <1>3, PTL DEF Spec

\* If every worker marks its claim running before the claim expires, no two
\* workers ever execute one action: the check that the code makes once, at the
\* claim, is enough for everything that follows it.
THEOREM Exclusive == ASSUME WorkersKeepUp PROVE Spec => []ExclusiveExecution
<1>1. Init => TypeInv /\ Ownership
  BY InitInv DEF IInv
<1>2. TypeInv /\ Ownership /\ [Next]_vars => (TypeInv /\ Ownership)'
  BY TypeStep, OwnershipStep
<1>3. TypeInv /\ Ownership => ExclusiveExecution
  BY OwnersDiffer
<1> QED
  BY <1>1, <1>2, <1>3, PTL DEF Spec

\* A finished action is never taken up, saved over or brought back.
THEOREM Final == ASSUME WorkersKeepUp PROVE Spec => TerminalIsFinal
<1> USE DEF file_vars, worker_vars, world_vars
<1> DEFINE A == \A a \in Action :
                  actions[a].status \in Terminal => actions'[a] = actions[a]
<1>1. Init => TypeInv /\ Ownership
  BY InitInv DEF IInv
<1>2. TypeInv /\ Ownership /\ [Next]_vars => (TypeInv /\ Ownership)'
  BY TypeStep, OwnershipStep
<1>3. TypeInv /\ Ownership /\ [Next]_vars => [A]_vars
  <2> SUFFICES ASSUME TypeInv, Ownership, [Next]_vars, NEW a \in Action,
                      actions[a].status \in Terminal
               PROVE  actions'[a] = actions[a]
    OBVIOUS
  <2>1. TypeOK /\ Shape
    BY DEF TypeInv
  <2>2. ASSUME NEW b \in Action, Enqueue(b) \/ CancelIfPending(b)
        PROVE  actions'[a] = actions[a]
    BY <2>1, <2>2 DEF Enqueue, CancelIfPending, TypeOK, Terminal, Pending
  <2>3. ASSUME NEW w \in Worker, Claim(w) PROVE actions'[a] = actions[a]
    BY <2>3 DEF Claim, ClaimExpired, IsReady, Terminal, Pending
  <2>4. ASSUME NEW w \in Worker, MarkRunning(w) PROVE actions'[a] = actions[a]
    BY <2>1, <2>4 DEF MarkRunning, Ownership, Owns, Terminal, TypeOK
  <2>5. ASSUME NEW w \in Worker, SaveOutcome(w) PROVE actions'[a] = actions[a]
    BY <2>1, <2>5 DEF SaveOutcome, Ownership, Owns, Executing, Terminal, TypeOK
  <2>6. ASSUME actions' = actions PROVE actions'[a] = actions[a]
    BY <2>6
  <2>7. \/ \E b \in Action : LandLate(b)
        \/ \E w \in Worker : \/ EvaluatePolicy(w) \/ BeginSend(w) \/ EndSend(w)
                             \/ ApplyOutcome(w) \/ RecordAttempt(w) \/ Abort(w)
        \/ \E paused \in BOOLEAN : PauseCampaign(paused)
        \/ \E acct \in Account, paused \in BOOLEAN : PauseAccount(acct, paused)
        \/ Tick
        \/ UNCHANGED vars
        => actions' = actions
    BY DEF LandLate, EvaluatePolicy, BeginSend, EndSend, ApplyOutcome,
           RecordAttempt, Abort, PauseCampaign, PauseAccount, Tick, vars
  <2> QED
    BY <2>2, <2>3, <2>4, <2>5, <2>6, <2>7, NextCases
<1>4. Spec => [][A]_vars
  BY <1>1, <1>2, <1>3, PTL DEF Spec
<1> QED
  BY <1>4 DEF TerminalIsFinal

\* An action never posts twice: not through a retry, a timeout that posts late,
\* a crash inside the call or a reclaimed claim.
THEOREM NoDuplicate ==
    ASSUME WorkersKeepUp, ~ClosingCanFlood
    PROVE  Spec => []AtMostOnePost
<1>1. Init => IInv
  BY InitInv
<1>2. IInv /\ [Next]_vars => IInv'
  BY TypeStep, OwnershipStep, PostingStep DEF IInv
<1>3. IInv => AtMostOnePost
  BY DEF IInv, Posting, ActionPosting, AtMostOnePost
<1> QED
  BY <1>1, <1>2, <1>3, PTL DEF Spec

-----------------------------------------------------------------------------
(* The journal.                                                            *)

Tried(a) == Len(attempts[a])

\* The journal has one line for every retry counted, and one more once an
\* attempt that is not counted as a retry has ended.
ActionJournal(a) ==
    LET r == actions[a] IN
    /\ r.status \in {"absent", "queued", "retry_wait", "claimed", "cancelled"} =>
         Tried(a) = r.retry_count /\ r.retry_count <= MaxRetries
    /\ r.status = "running" =>
         Tried(a) \in {r.retry_count, r.retry_count + 1} /\ r.retry_count <= MaxRetries
    /\ r.status = "failed" =>
         Tried(a) = r.retry_count /\ r.retry_count <= MaxRetries + 1
    /\ r.status \in {"succeeded", "blocked"} =>
         Tried(a) = r.retry_count + 1 /\ r.retry_count <= MaxRetries

\* A record that ends the attempt number tried.
Ends(r, tried) ==
    /\ r.status \in {"succeeded", "blocked", "failed", "retry_wait"}
    /\ r.status \in {"failed", "retry_wait"} => r.retry_count = tried
    /\ r.status \in {"succeeded", "blocked"} => r.retry_count + 1 = tried
    /\ r.status = "retry_wait" => tried <= MaxRetries

\* How far the worker that owns a record is with its line in the journal.
WorkerJournal(w) ==
    /\ pc[w] \in Executing \ {"journaled"} => Tried(job[w]) = actions[job[w]].retry_count
    /\ pc[w] \in {"running", "cleared", "sending", "executed"} =>
         copy[w].retry_count = actions[job[w]].retry_count
    /\ pc[w] = "applied" => Ends(copy[w], Tried(job[w]) + 1)
    /\ pc[w] = "journaled" => /\ Tried(job[w]) = actions[job[w]].retry_count + 1
                              /\ Ends(copy[w], Tried(job[w]))

Journal == /\ \A a \in Action : ActionJournal(a)
           /\ \A w \in Worker : WorkerJournal(w)

\* A record that ends the attempt says so in its retry count.
LEMMA AppliedEnds ==
    ASSUME NEW a, NEW r \in LiveActionRecord, NEW o \in DispatchOutcome,
           NEW d \in Nat, now \in Nat
    PROVE  Ends(Applied(a, r, o, d), r.retry_count + 1)
<1> USE ConstantsOK DEF Ends
<1>0. r.retry_count \in Nat
  BY DEF LiveActionRecord
<1>1. CASE o.code = "success"
  BY <1>0, <1>1, UnclaimedFields DEF Applied, Status, Terminal
<1>2. CASE o.code # "success" /\ Blocked(o)
  BY <1>0, <1>2, UnclaimedFields DEF Applied, Status, Terminal
<1>3. CASE /\ o.code # "success" /\ ~Blocked(o)
           /\ Retryable(a, o) /\ r.retry_count < MaxRetries
  <2>1. Unclaimed(r, "retry_wait") \in LiveActionRecord
        /\ Unclaimed(r, "retry_wait").status = "retry_wait"
    BY UnclaimedFields DEF Status, Pending
  <2>2. Applied(a, r, o, d) = [Unclaimed(r, "retry_wait") EXCEPT
                                 !.retry_count = r.retry_count + 1, !.due_at = now + d]
    BY <1>3 DEF Applied
  <2>3. \A u \in LiveActionRecord, m, n \in Nat :
           /\ [u EXCEPT !.retry_count = m, !.due_at = n].status = u.status
           /\ [u EXCEPT !.retry_count = m, !.due_at = n].retry_count = m
    BY DEF LiveActionRecord
  <2>4. /\ Applied(a, r, o, d).status = "retry_wait"
        /\ Applied(a, r, o, d).retry_count = r.retry_count + 1
    <3>1. r.retry_count + 1 \in Nat /\ now + d \in Nat
      BY <1>0
    <3> QED
      BY <2>1, <2>2, <2>3, <3>1
  <2> QED
    BY <1>0, <1>3, <2>4
<1>4. CASE /\ o.code # "success" /\ ~Blocked(o)
           /\ ~(Retryable(a, o) /\ r.retry_count < MaxRetries)
  <2>1. Unclaimed(r, "failed") \in LiveActionRecord
        /\ Unclaimed(r, "failed").status = "failed"
    BY UnclaimedFields DEF Status, Terminal
  <2>2. Applied(a, r, o, d) = [Unclaimed(r, "failed") EXCEPT !.retry_count = r.retry_count + 1]
    BY <1>4 DEF Applied
  <2>3. \A u \in LiveActionRecord, m \in Nat :
           /\ [u EXCEPT !.retry_count = m].status = u.status
           /\ [u EXCEPT !.retry_count = m].retry_count = m
    BY DEF LiveActionRecord
  <2>4. /\ Applied(a, r, o, d).status = "failed"
        /\ Applied(a, r, o, d).retry_count = r.retry_count + 1
    BY <1>0, <2>1, <2>2, <2>3
  <2> QED
    BY <1>0, <2>4
<1> QED
  BY <1>1, <1>2, <1>3, <1>4

\* The journal of an action that keeps its count and its lines, whatever
\* becomes of its status on the way to the next attempt.
LEMMA ActionJournalFrame ==
    ASSUME NEW a \in Action, ActionJournal(a), attempts'[a] = attempts[a],
           actions'[a].retry_count = actions[a].retry_count,
           \/ actions'[a].status = actions[a].status
           \/ /\ actions[a].status \in {"absent", "queued", "retry_wait", "claimed"}
              /\ actions'[a].status \in {"queued", "claimed", "running", "cancelled"}
    PROVE  ActionJournal(a)'
BY ConstantsOK DEF ActionJournal, Tried

\* The same of its worker.
LEMMA WorkerJournalFrame ==
    ASSUME NEW w \in Worker, WorkerJournal(w), pc'[w] = pc[w], job'[w] = job[w],
           copy'[w] = copy[w],
           pc[w] # "idle" => /\ actions'[job[w]].retry_count = actions[job[w]].retry_count
                             /\ attempts'[job[w]] = attempts[job[w]]
    PROVE  WorkerJournal(w)'
BY DEF WorkerJournal, Tried, Ends, Executing

\* Types of what is counted.
LEMMA JournalTypes ==
    ASSUME TypeOK
    PROVE  \A a \in Action : /\ actions[a] \in LiveActionRecord
                             /\ actions[a].retry_count \in Nat
                             /\ Tried(a) \in Nat
BY DEF TypeOK, LiveActionRecord, Tried

\* Nothing has been tried yet.
LEMMA JournalInit == Init => Journal
<1> SUFFICES ASSUME Init PROVE Journal
  OBVIOUS
<1>1. \A a \in Action : actions[a] = Absent /\ attempts[a] = <<>>
  BY DEF Init
<1>2. \A w \in Worker : pc[w] = "idle"
  BY DEF Init
<1> QED
  BY <1>1, <1>2, ConstantsOK
     DEF Journal, ActionJournal, WorkerJournal, Tried, Absent, Executing

\* Every step keeps the journal and the queue in agreement.
LEMMA JournalStep ==
    ASSUME WorkersKeepUp, TypeInv, Ownership, Journal, [Next]_vars
    PROVE  Journal'
<1> USE ConstantsOK DEF file_vars, worker_vars, world_vars
<1>0. /\ TypeOK /\ Shape /\ ExclusiveExecution
      /\ \A a \in Action : ActionJournal(a)
      /\ \A w \in Worker : WorkerJournal(w)
  BY OwnersDiffer DEF TypeInv, Journal
<1>a. \A a \in Action : /\ actions[a] \in LiveActionRecord
                        /\ actions[a].retry_count \in Nat
                        /\ Tried(a) \in Nat
  BY <1>0, JournalTypes
<1>1. ASSUME NEW a \in Action, Enqueue(a) \/ CancelIfPending(a) PROVE Journal'
  <2>1. UNCHANGED <<attempts, pc, job, copy>>
        /\ actions[a].status \in {"absent", "queued", "retry_wait"}
    BY <1>1 DEF Enqueue, CancelIfPending, Pending
  <2>2. /\ actions'[a].retry_count = actions[a].retry_count
        /\ actions'[a].status \in {"queued", "cancelled"}
    <3>1. CASE Enqueue(a)
      <4>1. PICK d \in StartDelays :
               actions' = [actions EXCEPT ![a] = [actions[a] EXCEPT !.status = "queued",
                                                                    !.due_at = now + d]]
        BY <1>0, <3>1 DEF Enqueue, TypeOK
      <4>2. \A u \in LiveActionRecord : \A n :
               /\ [u EXCEPT !.status = "queued", !.due_at = n].status = "queued"
               /\ [u EXCEPT !.status = "queued", !.due_at = n].retry_count = u.retry_count
        BY DEF LiveActionRecord
      <4> QED
        BY <1>0, <1>a, <4>1, <4>2 DEF TypeOK
    <3>2. CASE CancelIfPending(a)
      BY <1>0, <1>a, <3>2, UnclaimedFields DEF CancelIfPending, TypeOK, Status, Terminal
    <3> QED
      BY <1>1, <3>1, <3>2
  <2>3. \A b \in Action : b # a => actions'[b] = actions[b]
    BY <1>0, <1>1 DEF Enqueue, CancelIfPending, TypeOK
  <2>4. ASSUME NEW b \in Action PROVE ActionJournal(b)'
    BY <1>0, <2>1, <2>2, <2>3, ActionJournalFrame
  <2>5. ASSUME NEW v \in Worker PROVE WorkerJournal(v)'
    BY <1>0, <2>1, <2>2, <2>3, WorkerJournalFrame DEF Shape
  <2> QED
    BY <2>4, <2>5 DEF Journal
<1>2. ASSUME NEW w \in Worker, Claim(w) PROVE Journal'
  <2> DEFINE swept == [a \in Action |-> IF ClaimExpired(actions[a])
                                        THEN Unclaimed(actions[a], "queued")
                                        ELSE actions[a]]
             taken(a) == [swept[a] EXCEPT !.status = "claimed", !.claimed_by = w,
                                          !.claim_expires_at = now + ClaimTTL]
  <2>1. PICK a \in Action : /\ IsReady(swept[a])
                            /\ actions' = [swept EXCEPT ![a] = taken(a)]
                            /\ job' = [job EXCEPT ![w] = a]
                            /\ copy' = [copy EXCEPT ![w] = taken(a)]
                            /\ pc' = [pc EXCEPT ![w] = "claimed"]
                            /\ UNCHANGED attempts
    BY <1>2 DEF Claim
  <2>2. \A b \in Action :
          /\ swept[b] \in LiveActionRecord
          /\ swept[b].retry_count = actions[b].retry_count
          /\ \/ swept[b] = actions[b]
             \/ actions[b].status = "claimed" /\ swept[b].status = "queued"
    BY <1>a, UnclaimedFields DEF ClaimExpired, Status, Pending
  <2>3. /\ taken(a).status = "claimed"
        /\ taken(a).retry_count = actions[a].retry_count
    <3> HIDE DEF swept
    <3> QED
      BY <2>2 DEF LiveActionRecord
  <2>4. swept[a].status \in {"queued", "retry_wait"}
    BY <2>1 DEF IsReady, Pending
  <2> HIDE DEF swept, taken
  <2>5. ASSUME NEW b \in Action PROVE ActionJournal(b)'
    <3>1. CASE b = a
      <4>1. actions'[b] = taken(a)
        BY <2>1, <2>2, <3>1 DEF swept
      <4>2. actions[a].status \in {"queued", "retry_wait", "claimed"}
        BY <2>2, <2>4
      <4> QED
        BY <1>0, <2>1, <2>3, <3>1, <4>1, <4>2, ActionJournalFrame
    <3>2. CASE b # a
      <4>1. actions'[b] = swept[b]
        BY <2>1, <3>2 DEF swept
      <4> QED
        BY <1>0, <2>1, <2>2, <4>1, ActionJournalFrame
    <3> QED
      BY <3>1, <3>2
  <2>6. \A b \in Action : actions'[b].retry_count = actions[b].retry_count
    <3>1. \A b \in Action : actions'[b] = IF b = a THEN taken(a) ELSE swept[b]
      BY <2>1 DEF swept
    <3> QED
      BY <2>2, <2>3, <3>1
  <2>7. ASSUME NEW v \in Worker PROVE WorkerJournal(v)'
    <3>1. CASE v = w
      <4>1. pc'[v] = "claimed"
        BY <1>0, <2>1, <3>1 DEF TypeOK
      <4> QED
        BY <4>1 DEF WorkerJournal, Executing
    <3>2. CASE v # w
      BY <1>0, <2>1, <2>6, <3>2, WorkerJournalFrame DEF TypeOK, Shape
    <3> QED
      BY <3>1, <3>2
  <2> QED
    BY <2>5, <2>7 DEF Journal
<1>3. ASSUME NEW w \in Worker, MarkRunning(w) PROVE Journal'
  <2> DEFINE marked == [copy[w] EXCEPT !.status = "running"]
  <2>1. /\ pc[w] = "claimed" /\ job' = job /\ attempts' = attempts
        /\ pc' = [pc EXCEPT ![w] = "running"]
        /\ copy' = [copy EXCEPT ![w] = marked]
        /\ actions' = [actions EXCEPT ![job[w]] = marked]
        /\ job[w] \in Action
    BY <1>0, <1>3 DEF MarkRunning, TypeOK, Shape
  <2>2. actions[job[w]] = copy[w] /\ copy[w].status = "claimed"
    BY <2>1 DEF Ownership, Owns
  <2>3. marked.status = "running" /\ marked.retry_count = actions[job[w]].retry_count
    <3>1. copy[w] \in LiveActionRecord
      BY <1>0 DEF TypeOK
    <3> QED
      BY <2>2, <3>1 DEF LiveActionRecord
  <2> HIDE DEF marked
  <2>4. /\ actions'[job[w]] = marked /\ copy'[w] = marked /\ pc'[w] = "running"
        /\ \A b \in Action : b # job[w] => actions'[b] = actions[b]
        /\ \A v \in Worker : v # w => pc'[v] = pc[v] /\ copy'[v] = copy[v]
    BY <1>0, <2>1 DEF TypeOK
  <2>5. ASSUME NEW b \in Action PROVE ActionJournal(b)'
    BY <1>0, <2>1, <2>2, <2>3, <2>4, ActionJournalFrame
  <2>6. ASSUME NEW v \in Worker PROVE WorkerJournal(v)'
    <3>1. CASE v = w
      <4>1. Tried(job[w]) = actions[job[w]].retry_count
        BY <1>0, <2>1, <2>2 DEF ActionJournal
      <4> QED
        BY <2>1, <2>3, <2>4, <3>1, <4>1 DEF WorkerJournal, Tried
    <3>2. CASE v # w
      BY <1>0, <2>1, <2>3, <2>4, <3>2, WorkerJournalFrame DEF Shape
    <3> QED
      BY <3>1, <3>2
  <2> QED
    BY <2>5, <2>6 DEF Journal
<1>4. ASSUME NEW w \in Worker, EvaluatePolicy(w) \/ BeginSend(w) \/ EndSend(w)
      PROVE  Journal'
  <2>1. /\ UNCHANGED <<actions, attempts, job, copy>>
        /\ pc[w] \in {"running", "cleared", "sending"}
        /\ pc'[w] \in {"cleared", "sending", "executed"}
        /\ \A v \in Worker : v # w => pc'[v] = pc[v]
    BY <1>0, <1>4 DEF EvaluatePolicy, BeginSend, EndSend, TypeOK
  <2>2. ASSUME NEW b \in Action PROVE ActionJournal(b)'
    BY <1>0, <2>1, ActionJournalFrame
  <2>3. ASSUME NEW v \in Worker PROVE WorkerJournal(v)'
    <3>1. CASE v = w
      BY <1>0, <2>1, <3>1 DEF WorkerJournal, Tried, Executing
    <3>2. CASE v # w
      BY <1>0, <2>1, <3>2, WorkerJournalFrame
    <3> QED
      BY <3>1, <3>2
  <2> QED
    BY <2>2, <2>3 DEF Journal
<1>5. ASSUME NEW w \in Worker, ApplyOutcome(w) PROVE Journal'
  <2>1. /\ pc[w] = "executed" /\ pc'[w] = "applied"
        /\ UNCHANGED <<actions, attempts, job>>
        /\ job[w] \in Action /\ now \in Nat
        /\ copy[w] \in LiveActionRecord /\ outcome[w] \in DispatchOutcome
    BY <1>0, <1>5 DEF ApplyOutcome, TypeOK, Shape
  <2>2. PICK d \in RetryDelays(outcome[w]) :
           copy' = [copy EXCEPT ![w] = Applied(job[w], copy[w], outcome[w], d)]
    BY <1>0, <1>5 DEF ApplyOutcome, TypeOK
  <2>3. Ends(copy'[w], copy[w].retry_count + 1)
    BY <1>0, <2>1, <2>2, DelayIsNat, AppliedEnds DEF TypeOK
  <2>4. copy[w].retry_count = Tried(job[w]) /\ Tried(job[w]) = actions[job[w]].retry_count
    BY <1>0, <2>1 DEF WorkerJournal, Executing
  <2>5. \A v \in Worker : v # w => pc'[v] = pc[v] /\ copy'[v] = copy[v]
    BY <1>0, <1>5, <2>2 DEF ApplyOutcome, TypeOK
  <2>6. ASSUME NEW b \in Action PROVE ActionJournal(b)'
    BY <1>0, <2>1, ActionJournalFrame
  <2>7. ASSUME NEW v \in Worker PROVE WorkerJournal(v)'
    <3>1. CASE v = w
      BY <2>1, <2>3, <2>4, <3>1 DEF WorkerJournal, Tried, Ends
    <3>2. CASE v # w
      BY <1>0, <2>1, <2>5, <3>2, WorkerJournalFrame
    <3> QED
      BY <3>1, <3>2
  <2> QED
    BY <2>6, <2>7 DEF Journal
<1>6. ASSUME NEW w \in Worker, RecordAttempt(w) PROVE Journal'
  <2>1. /\ pc[w] = "applied" /\ pc'[w] = "journaled"
        /\ UNCHANGED <<actions, job, copy>>
        /\ job[w] \in Action /\ outcome[w].code \in Code
        /\ attempts' = [attempts EXCEPT ![job[w]] = Append(@, outcome[w].code)]
        /\ \A v \in Worker : v # w => pc'[v] = pc[v]
    BY <1>0, <1>6 DEF RecordAttempt, TypeOK, Shape
  <2>2. actions[job[w]].status = "running"
    BY <2>1 DEF Ownership, Owns, Executing
  <2>3. Tried(job[w])' = Tried(job[w]) + 1
    <3>1. attempts[job[w]] \in Seq(Code)
      BY <1>0, <2>1 DEF TypeOK
    <3>2. attempts'[job[w]] = Append(attempts[job[w]], outcome[w].code)
      BY <1>0, <2>1 DEF TypeOK
    <3>3. Len(attempts'[job[w]]) = Len(attempts[job[w]]) + 1
      BY <2>1, <3>1, <3>2
    <3> QED
      BY <2>1, <3>3 DEF Tried
  <2>4. \A b \in Action : b # job[w] => attempts'[b] = attempts[b]
    BY <1>0, <2>1 DEF TypeOK
  <2>5. Tried(job[w]) = actions[job[w]].retry_count
    BY <1>0, <2>1 DEF WorkerJournal, Executing
  <2>6. ASSUME NEW b \in Action PROVE ActionJournal(b)'
    <3>1. CASE b = job[w]
      <4>1. Tried(b)' = actions[b].retry_count + 1 /\ actions'[b] = actions[b]
        BY <2>1, <2>3, <2>5, <3>1 DEF Tried
      <4>2. actions[b].status = "running" /\ actions[b].retry_count <= MaxRetries
        BY <1>0, <2>2, <3>1 DEF ActionJournal
      <4> QED
        BY <4>1, <4>2 DEF ActionJournal
    <3>2. CASE b # job[w]
      BY <1>0, <2>1, <2>4, <3>2, ActionJournalFrame
    <3> QED
      BY <3>1, <3>2
  <2>7. ASSUME NEW v \in Worker PROVE WorkerJournal(v)'
    <3>1. CASE v = w
      <4>1. Ends(copy[w], Tried(job[w]) + 1)
        BY <1>0, <2>1 DEF WorkerJournal
      <4> QED
        BY <2>1, <2>3, <2>5, <3>1, <4>1 DEF WorkerJournal, Tried, Ends, Executing
    <3>2. CASE v # w
      <4>1. pc[v] # "idle" => job[v] # job[w] /\ job[v] \in Action
        BY <1>0, <2>1, <3>2 DEF ExclusiveExecution, Shape
      <4> QED
        BY <1>0, <2>1, <2>4, <3>2, <4>1, WorkerJournalFrame
    <3> QED
      BY <3>1, <3>2
  <2> QED
    BY <2>6, <2>7 DEF Journal
<1>7. ASSUME NEW w \in Worker, SaveOutcome(w) PROVE Journal'
  <2>1. /\ pc[w] = "journaled" /\ job[w] \in Action /\ pc'[w] = "idle"
        /\ actions' = [actions EXCEPT ![job[w]] = copy[w]]
        /\ attempts' = attempts
        /\ \A v \in Worker : v # w => /\ pc'[v] = pc[v] /\ job'[v] = job[v]
                                      /\ copy'[v] = copy[v]
    BY <1>0, <1>7 DEF SaveOutcome, Idle, TypeOK, Shape
  <2>2. Ends(copy[w], Tried(job[w])) /\ Tried(job[w]) = actions[job[w]].retry_count + 1
    BY <1>0, <2>1 DEF WorkerJournal
  <2>3. actions[job[w]].status = "running"
    BY <2>1 DEF Ownership, Owns, Executing
  <2>4. actions[job[w]].retry_count <= MaxRetries
    BY <1>0, <2>1, <2>3 DEF ActionJournal
  <2>5. actions'[job[w]] = copy[w] /\ copy[w].retry_count \in Nat
        /\ \A b \in Action : b # job[w] => actions'[b] = actions[b]
    BY <1>0, <2>1 DEF TypeOK, LiveActionRecord
  <2>6. ASSUME NEW b \in Action PROVE ActionJournal(b)'
    <3>1. CASE b = job[w]
      BY <1>a, <2>1, <2>2, <2>4, <2>5, <3>1 DEF ActionJournal, Ends, Tried
    <3>2. CASE b # job[w]
      BY <1>0, <2>1, <2>5, <3>2, ActionJournalFrame
    <3> QED
      BY <3>1, <3>2
  <2>7. ASSUME NEW v \in Worker PROVE WorkerJournal(v)'
    <3>1. CASE v = w
      BY <2>1, <3>1 DEF WorkerJournal, Executing
    <3>2. CASE v # w
      <4>1. pc[v] # "idle" => job[v] # job[w] /\ job[v] \in Action
        BY <1>0, <2>1, <3>2 DEF ExclusiveExecution, Shape
      <4> QED
        BY <1>0, <2>1, <2>5, <3>2, <4>1, WorkerJournalFrame
    <3> QED
      BY <3>1, <3>2
  <2> QED
    BY <2>6, <2>7 DEF Journal
<1>8. ASSUME NEW w \in Worker, Abort(w) PROVE Journal'
  <2>1. /\ pc'[w] = "idle" /\ UNCHANGED <<actions, attempts>>
        /\ \A v \in Worker : v # w => /\ pc'[v] = pc[v] /\ job'[v] = job[v]
                                      /\ copy'[v] = copy[v]
    BY <1>0, <1>8 DEF Abort, Idle, TypeOK
  <2>2. ASSUME NEW b \in Action PROVE ActionJournal(b)'
    BY <1>0, <2>1, ActionJournalFrame
  <2>3. ASSUME NEW v \in Worker PROVE WorkerJournal(v)'
    <3>1. CASE v = w
      BY <2>1, <3>1 DEF WorkerJournal, Executing
    <3>2. CASE v # w
      BY <1>0, <2>1, <3>2, WorkerJournalFrame
    <3> QED
      BY <3>1, <3>2
  <2> QED
    BY <2>2, <2>3 DEF Journal
<1>9. ASSUME UNCHANGED <<actions, attempts, pc, job, copy>> PROVE Journal'
  BY <1>9 DEF Journal, ActionJournal, WorkerJournal, Tried, Ends
<1>10. \/ \E a \in Action : LandLate(a)
       \/ \E paused \in BOOLEAN : PauseCampaign(paused)
       \/ \E acct \in Account, paused \in BOOLEAN : PauseAccount(acct, paused)
       \/ Tick
       \/ UNCHANGED vars
       => UNCHANGED <<actions, attempts, pc, job, copy>>
  BY DEF LandLate, PauseCampaign, PauseAccount, Tick, vars
<1> QED
  BY <1>1, <1>2, <1>3, <1>4, <1>5, <1>6, <1>7, <1>8, <1>9, <1>10, NextCases

\* If every worker marks its claim running before the claim expires, no action
\* is tried more than MaxRetries + 1 times, and the journal has a line for every
\* attempt the record counts: at most the attempt a dead tick was in differs.
THEOREM JournalKept == ASSUME WorkersKeepUp PROVE Spec => []JournalAgrees
<1> DEFINE Inv == TypeInv /\ Ownership /\ Journal
<1>1. Init => Inv
  BY InitInv, JournalInit DEF IInv
<1>2. Inv /\ [Next]_vars => Inv'
  BY TypeStep, OwnershipStep, JournalStep
<1>3. Inv => JournalAgrees
  <2> SUFFICES ASSUME Inv, NEW a \in Action
               PROVE  /\ Tried(a) <= MaxRetries + 1
                      /\ actions[a].status \notin {"running", "succeeded", "blocked"} =>
                            Tried(a) = actions[a].retry_count
                      /\ actions[a].status = "running" =>
                            Tried(a) - actions[a].retry_count \in {0, 1}
                      /\ actions[a].status \in {"succeeded", "blocked"} =>
                            Tried(a) = actions[a].retry_count + 1
    BY DEF JournalAgrees, Tried
  <2>1. /\ ActionJournal(a) /\ MaxRetries \in Nat
        /\ actions[a].status \in Status /\ actions[a].retry_count \in Nat
    BY ConstantsOK DEF Journal, TypeInv, TypeOK, LiveActionRecord
  <2> QED
    BY <2>1 DEF ActionJournal, Status, Pending, Terminal
<1> QED
  BY <1>1, <1>2, <1>3, PTL DEF Spec

-----------------------------------------------------------------------------
(* What gets through after a pause.                                        *)

\* The workers that the policy has let through to the account and that have not
\* called Telegram yet.
Cleared(acct) == {w \in Worker : pc[w] = "cleared" /\ AccountOf[job[w]] = acct}

\* Those are the only calls a pause can no longer stop.
PauseHolds(acct) ==
    IF accounts[acct].is_paused
    THEN leaks[acct] + Cardinality(Cleared(acct)) <= Cardinality(Worker)
    ELSE leaks[acct] = 0

PauseInv == \A acct \in Account : PauseHolds(acct)

\* The workers whose call may still end in a refusal that counts against chat c.
Writing(c) ==
    {w \in Worker : /\ \/ pc[w] \in {"cleared", "sending"}
                       \/ pc[w] = "executed" /\ outcome[w].code = "write_forbidden"
                    /\ CommunityOf[job[w]] = c}

\* A chat that has reached the threshold lets nobody else through.
FrictionHolds(c) ==
    /\ communities[c].friction + Cardinality(Writing(c))
         <= FrictionThreshold - 1 + Cardinality(Worker)
    /\ communities[c].friction >= FrictionThreshold => communities[c].is_paused

FrictionInv == \A c \in Community : FrictionHolds(c)

\* Counting some of the workers.
LEMMA SomeWorkers ==
    ASSUME NEW S \in SUBSET Worker, NEW T \in SUBSET S
    PROVE  /\ IsFiniteSet(S) /\ Cardinality(S) \in Nat /\ Cardinality(T) \in Nat
           /\ Cardinality(T) <= Cardinality(S)
           /\ Cardinality(Worker) \in Nat /\ Cardinality(S) <= Cardinality(Worker)
           /\ \A w \in S : Cardinality(S \ {w}) = Cardinality(S) - 1
BY WorkersFinite, FS_Subset, FS_CardinalityType, FS_RemoveElement

\* The bound of a pause survives a step that leaves the account alone and lets
\* nobody else through.
LEMMA PauseFrame ==
    ASSUME TypeOK, NEW acct \in Account, PauseHolds(acct),
           accounts'[acct].is_paused = accounts[acct].is_paused,
           leaks'[acct] = leaks[acct], Cleared(acct)' \subseteq Cleared(acct)
    PROVE  PauseHolds(acct)'
<1>1. Cleared(acct) \in SUBSET Worker /\ leaks[acct] \in Nat
  BY DEF Cleared, TypeOK
<1>2. /\ Cardinality(Cleared(acct)') \in Nat /\ Cardinality(Cleared(acct)) \in Nat
      /\ Cardinality(Cleared(acct)') <= Cardinality(Cleared(acct))
      /\ Cardinality(Worker) \in Nat
  BY <1>1, SomeWorkers
<1> QED
  BY <1>1, <1>2 DEF PauseHolds

\* A community nobody writes about keeps its count.
LEMMA FrictionFrame ==
    ASSUME TypeOK, NEW c \in Community, FrictionHolds(c),
           communities'[c] = communities[c], Writing(c)' \subseteq Writing(c)
    PROVE  FrictionHolds(c)'
<1>1. Writing(c) \in SUBSET Worker /\ communities[c].friction \in Nat
  BY DEF Writing, TypeOK, CommunityPolicyState
<1>2. /\ Cardinality(Writing(c)') \in Nat /\ Cardinality(Writing(c)) \in Nat
      /\ Cardinality(Writing(c)') <= Cardinality(Writing(c))
      /\ Cardinality(Worker) \in Nat
  BY <1>1, SomeWorkers
<1> QED
  BY <1>1, <1>2, ConstantsOK DEF FrictionHolds

\* A step that clears nobody: every worker it leaves before its call was there
\* before, on the same action.
LEMMA NobodyCleared ==
    ASSUME \A w \in Worker : pc'[w] = "cleared" => pc[w] = "cleared" /\ job'[w] = job[w]
    PROVE  \A acct \in Account : Cleared(acct)' \subseteq Cleared(acct)
BY DEF Cleared

\* Every step keeps the pauses as tight.
LEMMA PauseStep ==
    ASSUME TypeInv, PauseInv, [Next]_vars
    PROVE  PauseInv'
<1> USE ConstantsOK DEF file_vars, worker_vars, world_vars
<1>0. TypeOK /\ Shape /\ \A acct \in Account : PauseHolds(acct)
  BY DEF TypeInv, PauseInv
<1>1. ASSUME UNCHANGED <<accounts, leaks>>,
             \A w \in Worker : pc'[w] = "cleared" => pc[w] = "cleared" /\ job'[w] = job[w]
      PROVE  PauseInv'
  BY <1>0, <1>1, NobodyCleared, PauseFrame DEF PauseInv
<1>2. ASSUME NEW w \in Worker, EvaluatePolicy(w) PROVE PauseInv'
  <2>1. /\ pc[w] = "running" /\ job[w] \in Action /\ AccountOf[job[w]] \in Account
        /\ UNCHANGED <<accounts, leaks, job>>
        /\ \A v \in Worker : v # w => pc'[v] = pc[v]
    BY <1>0, <1>2 DEF EvaluatePolicy, TypeOK, Shape
  <2>2. pc'[w] = "cleared" => ~accounts[AccountOf[job[w]]].is_paused
    <3>1. PICK o \in PolicyDecisions(job[w], started_at[w]) :
             pc' = [pc EXCEPT ![w] = IF o = NoOutcome THEN "cleared" ELSE "executed"]
      BY <1>2 DEF EvaluatePolicy
    <3>2. pc'[w] = "cleared" => o = NoOutcome
      BY <1>0, <3>1 DEF TypeOK
    <3> QED
      BY <3>2 DEF PolicyDecisions, Refuse, NoOutcome
  <2>3. ASSUME NEW acct \in Account PROVE PauseHolds(acct)'
    <3>1. CASE acct = AccountOf[job[w]] /\ pc'[w] = "cleared"
      BY <1>0, <2>1, <2>2, <3>1 DEF PauseHolds
    <3>2. CASE ~(acct = AccountOf[job[w]] /\ pc'[w] = "cleared")
      <4>1. Cleared(acct)' \subseteq Cleared(acct)
        BY <2>1, <3>2 DEF Cleared
      <4> QED
        BY <1>0, <2>1, <4>1, PauseFrame
    <3> QED
      BY <3>1, <3>2
  <2> QED
    BY <2>3 DEF PauseInv
<1>3. ASSUME NEW w \in Worker, BeginSend(w) PROVE PauseInv'
  <2>1. /\ pc[w] = "cleared" /\ pc'[w] # "cleared" /\ job[w] \in Action
        /\ AccountOf[job[w]] \in Account /\ UNCHANGED <<accounts, job>>
        /\ \A v \in Worker : v # w => pc'[v] = pc[v]
    BY <1>0, <1>3 DEF BeginSend, TypeOK, Shape
  <2>2. \/ leaks' = leaks
        \/ /\ leaks' = [leaks EXCEPT ![AccountOf[job[w]]] = @ + 1]
           /\ accounts[AccountOf[job[w]]].is_paused
    BY <1>3 DEF BeginSend
  <2>3. \A acct \in Account : Cleared(acct)' \subseteq Cleared(acct)
    BY <2>1, NobodyCleared
  <2>4. ASSUME NEW acct \in Account PROVE PauseHolds(acct)'
    <3>1. CASE leaks'[acct] = leaks[acct]
      BY <1>0, <2>1, <2>3, <3>1, PauseFrame
    <3>2. CASE leaks'[acct] # leaks[acct]
      <4>1. /\ acct = AccountOf[job[w]] /\ accounts[acct].is_paused
            /\ leaks[acct] \in Nat /\ leaks'[acct] = leaks[acct] + 1
        BY <1>0, <2>1, <2>2, <3>2 DEF TypeOK
      <4>2. w \in Cleared(acct) /\ Cleared(acct) \in SUBSET Worker
        BY <2>1, <4>1 DEF Cleared
      <4>3. Cleared(acct)' = Cleared(acct) \ {w}
        BY <2>1, <4>1 DEF Cleared
      <4>4. /\ Cardinality(Cleared(acct)') = Cardinality(Cleared(acct)) - 1
            /\ Cardinality(Cleared(acct)) \in Nat /\ Cardinality(Worker) \in Nat
        BY <4>2, <4>3, SomeWorkers
      <4>5. leaks[acct] + Cardinality(Cleared(acct)) <= Cardinality(Worker)
        BY <1>0, <4>1 DEF PauseHolds
      <4> QED
        BY <2>1, <4>1, <4>4, <4>5 DEF PauseHolds
    <3> QED
      BY <3>1, <3>2
  <2> QED
    BY <2>4 DEF PauseInv
<1>4. ASSUME NEW w \in Worker, ApplyOutcome(w) PROVE PauseInv'
  <2>1. /\ leaks' = leaks /\ job' = job
        /\ \A v \in Worker : pc'[v] = "cleared" => pc[v] = "cleared"
        /\ accounts' = [accounts EXCEPT ![AccountOf[job[w]]] = AccountAfter(@, outcome[w])]
    BY <1>0, <1>4 DEF ApplyOutcome, TypeOK
  <2>2. \A acct \in Account : accounts[acct].is_paused => accounts'[acct].is_paused
    <3>1. \A s \in AccountPolicyState : s.is_paused => AccountAfter(s, outcome[w]).is_paused
      BY DEF AccountPolicyState, AccountAfter
    <3> QED
      BY <1>0, <2>1, <3>1 DEF TypeOK
  <2>3. ASSUME NEW acct \in Account PROVE PauseHolds(acct)'
    <3>0. Cleared(acct)' \subseteq Cleared(acct) /\ leaks'[acct] = leaks[acct]
      BY <2>1, NobodyCleared
    <3>1. CASE accounts'[acct].is_paused = accounts[acct].is_paused
      BY <1>0, <3>0, <3>1, PauseFrame
    <3>2. CASE accounts'[acct].is_paused # accounts[acct].is_paused
      <4>1. leaks'[acct] = 0
        <5>1. ~accounts[acct].is_paused
          <6>1. accounts[acct].is_paused \in BOOLEAN
            BY <1>0 DEF TypeOK, AccountPolicyState
          <6>2. accounts'[acct].is_paused \in BOOLEAN
            BY <1>0, TypeStep DEF TypeInv, TypeOK, AccountPolicyState
          <6> QED
            BY <2>2, <3>2, <6>1, <6>2
        <5> QED
          BY <1>0, <3>0, <5>1 DEF PauseHolds
      <4>2. /\ Cardinality(Cleared(acct)') \in Nat /\ Cardinality(Worker) \in Nat
            /\ Cardinality(Cleared(acct)') <= Cardinality(Worker)
        <5>1. Cleared(acct)' \in SUBSET Worker
          BY DEF Cleared
        <5> QED
          BY <5>1, SomeWorkers
      <4> QED
        BY <4>1, <4>2 DEF PauseHolds
    <3> QED
      BY <3>1, <3>2
  <2> QED
    BY <2>3 DEF PauseInv
<1>5. ASSUME NEW acct \in Account, NEW paused \in BOOLEAN, PauseAccount(acct, paused)
      PROVE  PauseInv'
  <2>1. /\ UNCHANGED <<pc, job>>
        /\ leaks' = [leaks EXCEPT ![acct] = 0]
        /\ \A b \in Account : b # acct => accounts'[b] = accounts[b]
    BY <1>0, <1>5 DEF PauseAccount, TypeOK
  <2>2. ASSUME NEW b \in Account PROVE PauseHolds(b)'
    <3>0. Cleared(b)' = Cleared(b)
      BY <2>1 DEF Cleared
    <3>1. CASE b = acct
      <4>1. leaks'[b] = 0
        BY <1>0, <2>1, <3>1 DEF TypeOK
      <4>2. /\ Cardinality(Cleared(b)) \in Nat /\ Cardinality(Worker) \in Nat
            /\ Cardinality(Cleared(b)) <= Cardinality(Worker)
        <5>1. Cleared(b) \in SUBSET Worker
          BY DEF Cleared
        <5> QED
          BY <5>1, SomeWorkers
      <4> QED
        BY <3>0, <4>1, <4>2 DEF PauseHolds
    <3>2. CASE b # acct
      BY <1>0, <2>1, <3>0, <3>2, PauseFrame DEF TypeOK
    <3> QED
      BY <3>1, <3>2
  <2> QED
    BY <2>2 DEF PauseInv
<1>6. ASSUME \/ \E a \in Action : Enqueue(a) \/ CancelIfPending(a) \/ LandLate(a)
             \/ \E paused \in BOOLEAN : PauseCampaign(paused)
             \/ Tick
             \/ UNCHANGED vars
      PROVE  UNCHANGED <<accounts, leaks, pc, job>>
  BY <1>6 DEF Enqueue, CancelIfPending, LandLate, PauseCampaign, Tick, vars
<1>7. ASSUME NEW w \in Worker,
             \/ Claim(w) \/ MarkRunning(w) \/ EndSend(w) \/ RecordAttempt(w)
             \/ SaveOutcome(w) \/ Abort(w)
      PROVE  PauseInv'
  <2>1. /\ UNCHANGED <<accounts, leaks>>
        /\ pc'[w] # "cleared"
        /\ \A v \in Worker : v # w => pc'[v] = pc[v] /\ job'[v] = job[v]
    <3>1. CASE Claim(w)
      <4>1. PICK a : job' = [job EXCEPT ![w] = a]
        BY <3>1 DEF Claim
      <4>2. pc' = [pc EXCEPT ![w] = "claimed"] /\ outcome' = outcome
            /\ UNCHANGED <<accounts, communities, leaks>>
        BY <3>1 DEF Claim, file_vars, world_vars
      <4> QED
        BY <1>0, <4>1, <4>2 DEF TypeOK
    <3>2. CASE MarkRunning(w) \/ EndSend(w) \/ RecordAttempt(w)
      BY <1>0, <3>2 DEF MarkRunning, EndSend, RecordAttempt, TypeOK
    <3>3. CASE SaveOutcome(w) \/ Abort(w)
      BY <1>0, <3>3 DEF SaveOutcome, Abort, Idle, TypeOK
    <3> QED
      BY <1>7, <3>1, <3>2, <3>3
  <2>2. \A v \in Worker : pc'[v] = "cleared" => pc[v] = "cleared" /\ job'[v] = job[v]
    BY <2>1
  <2> QED
    BY <1>1, <2>1, <2>2
<1> QED
  BY <1>1, <1>2, <1>3, <1>4, <1>5, <1>6, <1>7, NextCases

\* Every step keeps the count of frictions bounded.
LEMMA FrictionStep ==
    ASSUME TypeInv, FrictionInv, [Next]_vars
    PROVE  FrictionInv'
<1> USE ConstantsOK DEF file_vars, worker_vars, world_vars
<1>0. TypeOK /\ Shape /\ \A c \in Community : FrictionHolds(c)
  BY DEF TypeInv, FrictionInv
<1>1. ASSUME UNCHANGED communities,
             \A c \in Community : Writing(c)' \subseteq Writing(c)
      PROVE  FrictionInv'
  BY <1>0, <1>1, FrictionFrame DEF FrictionInv
<1>2. ASSUME NEW w \in Worker, EvaluatePolicy(w) PROVE FrictionInv'
  <2>1. /\ pc[w] = "running" /\ job[w] \in Action
        /\ UNCHANGED <<communities, job>>
        /\ \A v \in Worker : v # w => pc'[v] = pc[v] /\ outcome'[v] = outcome[v]
    BY <1>0, <1>2 DEF EvaluatePolicy, TypeOK, Shape
  <2>2. PICK o \in PolicyDecisions(job[w], started_at[w]) :
           /\ pc' = [pc EXCEPT ![w] = IF o = NoOutcome THEN "cleared" ELSE "executed"]
           /\ outcome' = [outcome EXCEPT ![w] = o]
    BY <1>2 DEF EvaluatePolicy
  <2>3. pc'[w] = (IF o = NoOutcome THEN "cleared" ELSE "executed") /\ outcome'[w] = o
    BY <1>0, <2>2 DEF TypeOK
  <2>4. o.code # "write_forbidden"
    BY DEF PolicyDecisions, Refuse, CoolDown, NoOutcome
  <2>5. o = NoOutcome /\ CommunityOf[job[w]] \in Community
          => ~communities[CommunityOf[job[w]]].is_paused
    BY DEF PolicyDecisions, Refuse, CoolDown, NoOutcome
  <2>6. ASSUME NEW c \in Community PROVE FrictionHolds(c)'
    <3>1. CASE c = CommunityOf[job[w]] /\ o = NoOutcome
      <4>1. communities'[c] = communities[c] /\ ~communities[c].is_paused
        BY <2>1, <2>5, <3>1
      <4>2. communities[c].friction \in Nat /\ communities[c].friction <= FrictionThreshold - 1
        <5>1. communities[c].friction \in Nat
          BY <1>0 DEF TypeOK, CommunityPolicyState
        <5>2. ~(communities[c].friction >= FrictionThreshold)
          BY <1>0, <4>1 DEF FrictionHolds
        <5> QED
          BY <5>1, <5>2
      <4>3. /\ Cardinality(Writing(c)') \in Nat /\ Cardinality(Worker) \in Nat
            /\ Cardinality(Writing(c)') <= Cardinality(Worker)
        <5>1. Writing(c)' \in SUBSET Worker
          BY DEF Writing
        <5> QED
          BY <5>1, SomeWorkers
      <4> QED
        BY <4>1, <4>2, <4>3 DEF FrictionHolds
    <3>2. CASE ~(c = CommunityOf[job[w]] /\ o = NoOutcome)
      <4>1. Writing(c)' \subseteq Writing(c)
        BY <2>1, <2>3, <2>4, <3>2 DEF Writing
      <4> QED
        BY <1>0, <2>1, <4>1, FrictionFrame
    <3> QED
      BY <3>1, <3>2
  <2> QED
    BY <2>6 DEF FrictionInv
<1>3. ASSUME NEW w \in Worker, ApplyOutcome(w) PROVE FrictionInv'
  <2>1. /\ pc[w] = "executed" /\ pc'[w] = "applied" /\ job[w] \in Action
        /\ UNCHANGED <<job, outcome>>
        /\ \A v \in Worker : v # w => pc'[v] = pc[v]
    BY <1>0, <1>3 DEF ApplyOutcome, TypeOK, Shape
  <2>2. \/ communities' = communities
        \/ /\ outcome[w].code = "write_forbidden" /\ CommunityOf[job[w]] # NoCommunity
           /\ communities' = [communities EXCEPT ![CommunityOf[job[w]]] = CommunityAfter(@)]
    BY <1>3 DEF ApplyOutcome
  <2>3. ASSUME NEW c \in Community PROVE FrictionHolds(c)'
    <3>0. Writing(c)' = Writing(c) \ {w}
      BY <2>1 DEF Writing
    <3>1. CASE communities'[c] = communities[c]
      BY <1>0, <3>0, <3>1, FrictionFrame
    <3>2. CASE communities'[c] # communities[c]
      <4>1. /\ c = CommunityOf[job[w]] /\ outcome[w].code = "write_forbidden"
            /\ communities'[c] = CommunityAfter(communities[c])
        BY <1>0, <2>1, <2>2, <3>2 DEF TypeOK
      <4>2. w \in Writing(c) /\ Writing(c) \in SUBSET Worker
        BY <2>1, <4>1 DEF Writing
      <4>3. /\ Cardinality(Writing(c)') = Cardinality(Writing(c)) - 1
            /\ Cardinality(Writing(c)) \in Nat /\ Cardinality(Worker) \in Nat
        BY <3>0, <4>2, SomeWorkers
      <4>4. /\ communities[c].friction \in Nat
            /\ communities'[c].friction = communities[c].friction + 1
            /\ communities'[c].friction >= FrictionThreshold => communities'[c].is_paused
        <5>1. communities[c] \in CommunityPolicyState
          BY <1>0 DEF TypeOK
        <5>2. communities[c].friction \in Nat
          BY <5>1 DEF CommunityPolicyState
        <5>3. communities'[c] =
                [is_paused |-> communities[c].is_paused
                                 \/ communities[c].friction + 1 >= FrictionThreshold,
                 friction  |-> communities[c].friction + 1]
          BY <4>1 DEF CommunityAfter
        <5>4. communities'[c].friction = communities[c].friction + 1
          BY <5>3
        <5>5. communities'[c].is_paused = (communities[c].is_paused
                                \/ communities[c].friction + 1 >= FrictionThreshold)
          BY <5>3
        <5>6. communities'[c].friction >= FrictionThreshold => communities'[c].is_paused
          BY <5>4, <5>5, Zenon
        <5> QED
          BY <5>2, <5>4, <5>6
      <4>5. communities[c].friction + Cardinality(Writing(c))
              <= FrictionThreshold - 1 + Cardinality(Worker)
        BY <1>0 DEF FrictionHolds
      <4> QED
        BY <4>3, <4>4, <4>5 DEF FrictionHolds
    <3> QED
      BY <3>1, <3>2
  <2> QED
    BY <2>3 DEF FrictionInv
<1>4. ASSUME NEW w \in Worker, BeginSend(w) \/ EndSend(w)
      PROVE  UNCHANGED communities /\ \A c \in Community : Writing(c)' \subseteq Writing(c)
  <2>1. /\ pc[w] \in {"cleared", "sending"} /\ UNCHANGED <<communities, job>>
        /\ \A v \in Worker : v # w => pc'[v] = pc[v] /\ outcome'[v] = outcome[v]
    BY <1>0, <1>4 DEF BeginSend, EndSend, TypeOK
  <2> QED
    BY <2>1 DEF Writing
<1>5. ASSUME \/ \E a \in Action : Enqueue(a) \/ CancelIfPending(a) \/ LandLate(a)
             \/ \E paused \in BOOLEAN : PauseCampaign(paused)
             \/ \E acct \in Account, paused \in BOOLEAN : PauseAccount(acct, paused)
             \/ Tick
             \/ UNCHANGED vars
      PROVE  UNCHANGED <<communities, pc, job, outcome>>
  BY <1>5 DEF Enqueue, CancelIfPending, LandLate, PauseCampaign, PauseAccount, Tick, vars
<1>6. UNCHANGED <<pc, job, outcome>> => \A c \in Community : Writing(c)' \subseteq Writing(c)
  BY DEF Writing
<1>7. ASSUME NEW w \in Worker,
             \/ Claim(w) \/ MarkRunning(w) \/ RecordAttempt(w)
             \/ SaveOutcome(w) \/ Abort(w)
      PROVE  UNCHANGED communities /\ \A c \in Community : Writing(c)' \subseteq Writing(c)
  <2>1. /\ UNCHANGED communities
        /\ pc'[w] \notin {"cleared", "sending", "executed"}
        /\ \A v \in Worker : v # w =>
              pc'[v] = pc[v] /\ job'[v] = job[v] /\ outcome'[v] = outcome[v]
    <3>1. CASE Claim(w)
      <4>1. PICK a : job' = [job EXCEPT ![w] = a]
        BY <3>1 DEF Claim
      <4>2. pc' = [pc EXCEPT ![w] = "claimed"] /\ outcome' = outcome
            /\ UNCHANGED <<accounts, communities, leaks>>
        BY <3>1 DEF Claim, file_vars, world_vars
      <4> QED
        BY <1>0, <4>1, <4>2 DEF TypeOK
    <3>2. CASE MarkRunning(w) \/ RecordAttempt(w)
      BY <1>0, <3>2 DEF MarkRunning, RecordAttempt, TypeOK
    <3>3. CASE SaveOutcome(w) \/ Abort(w)
      BY <1>0, <3>3 DEF SaveOutcome, Abort, Idle, TypeOK
    <3> QED
      BY <1>7, <3>1, <3>2, <3>3
  <2> QED
    BY <2>1 DEF Writing
<1> QED
  BY <1>1, <1>2, <1>3, <1>4, <1>5, <1>6, <1>7, NextCases

\* After a pause at most one more call per worker reaches Telegram for the
\* account, whoever paused it and whatever the workers were doing: the call the
\* policy had let through before.
THEOREM PauseIsTight == Spec => []PauseLeakBound
<1>1. Init => TypeInv /\ PauseInv
  BY InitInv DEF IInv, Init, PauseInv, PauseHolds
<1>2. TypeInv /\ PauseInv /\ [Next]_vars => (TypeInv /\ PauseInv)'
  BY TypeStep, PauseStep
<1>3. TypeInv /\ PauseInv => PauseLeakBound
  <2> SUFFICES ASSUME TypeInv, PauseInv, NEW acct \in Account, accounts[acct].is_paused
               PROVE  leaks[acct] <= Cardinality(Worker)
    BY DEF PauseLeakBound
  <2>1. leaks[acct] + Cardinality(Cleared(acct)) <= Cardinality(Worker)
    BY DEF PauseInv, PauseHolds
  <2>2. leaks[acct] \in Nat /\ Cleared(acct) \in SUBSET Worker
    BY DEF TypeInv, TypeOK, Cleared
  <2>3. Cardinality(Cleared(acct)) \in Nat /\ Cardinality(Worker) \in Nat
    BY <2>2, SomeWorkers
  <2> QED
    BY <2>1, <2>2, <2>3
<1> QED
  BY <1>1, <1>2, <1>3, PTL DEF Spec

\* A group chat refuses at most the writes up to its threshold and one more per
\* worker: those under way when it was paused.
THEOREM FrictionIsBounded == Spec => []FrictionBound
<1>1. Init => TypeInv /\ FrictionInv
  <2> SUFFICES ASSUME Init, NEW c \in Community PROVE FrictionHolds(c)
    BY InitInv DEF IInv, FrictionInv
  <2>1. communities[c].friction = 0 /\ Writing(c) \in SUBSET Worker
    BY DEF Init, Writing
  <2>2. /\ Cardinality(Writing(c)) \in Nat /\ Cardinality(Worker) \in Nat
        /\ Cardinality(Writing(c)) <= Cardinality(Worker)
    BY <2>1, SomeWorkers
  <2> QED
    BY <2>1, <2>2, ConstantsOK DEF FrictionHolds
<1>2. TypeInv /\ FrictionInv /\ [Next]_vars => (TypeInv /\ FrictionInv)'
  BY TypeStep, FrictionStep
<1>3. TypeInv /\ FrictionInv => FrictionBound
  <2> SUFFICES ASSUME TypeInv, FrictionInv, NEW c \in Community
               PROVE  communities[c].friction <= FrictionThreshold - 1 + Cardinality(Worker)
    BY DEF FrictionBound
  <2>1. communities[c].friction + Cardinality(Writing(c))
          <= FrictionThreshold - 1 + Cardinality(Worker)
    BY DEF FrictionInv, FrictionHolds
  <2>2. communities[c].friction \in Nat /\ Writing(c) \in SUBSET Worker
    BY DEF TypeInv, TypeOK, CommunityPolicyState, Writing
  <2>3. Cardinality(Writing(c)) \in Nat /\ Cardinality(Worker) \in Nat
    BY <2>2, SomeWorkers
  <2> QED
    BY <2>1, <2>2, <2>3, ConstantsOK
<1> QED
  BY <1>1, <1>2, <1>3, PTL DEF Spec
=============================================================================
