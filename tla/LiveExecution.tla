---------------------------- MODULE LiveExecution ----------------------------
(***************************************************************************)
(* The queue of live actions and the workers that execute them             *)
(* (telegram_app/live_execution): the only path from a planned message to  *)
(* a visible Telegram write.                                               *)
(*                                                                         *)
(* Processes: live-execution workers (server.py --run-live-executor), the  *)
(* callers that enqueue and cancel, the operator who pauses and resumes,   *)
(* Telegram itself, and the wall clock.  Every read-modify-write of the    *)
(* queue file runs under the manager's guard and is one atomic action      *)
(* here; module StateGuard is about the guard itself.  Everything a worker *)
(* does BETWEEN two guarded calls interleaves with everything else.        *)
(*                                                                         *)
(* An action is named by its idempotency key: enqueue returns the existing *)
(* record when the key is already there, so a second enqueue is no step.   *)
(***************************************************************************)
EXTENDS Naturals, Sequences, FiniteSets

CONSTANTS
    Action,             \* live actions, each one idempotency key
    Account,            \* managed Telegram accounts
    Community,          \* group chats with a community policy state
    Worker,             \* live-execution workers
    NoWorker, NoAction, NoCommunity,
    AccountOf,          \* the account_id of each action
    CommunityOf,        \* the group chat an action writes to, or NoCommunity
    Visible,            \* group messages, group replies and DM replies
    Approved,           \* actions whose payload carries a valid approval_context
    ClaimTTL,           \* claim_ttl_seconds
    MaxRetries,         \* max_retries
    RetryMaxDelay,      \* retry_max_delay_seconds
    FrictionThreshold,  \* pause_threshold of record_community_write_friction
    FloodWaits,         \* wait_seconds Telegram may answer a call with
    StartDelays,        \* how far ahead of now an enqueued action is scheduled
    OperatorPauses,     \* the accounts the operator pauses and resumes
    CampaignPauses,     \* TRUE: the operator pauses and resumes the campaign
    MaxTime,            \* bound: the clock stops here
    MaxCrashes,         \* bound: worker crashes and aborted ticks
    WorkersKeepUp,      \* TRUE: a claim is marked running before it expires
    ClosingCanFlood     \* TRUE: going offline after a send may be rate limited

Telegram == {"success", "rate_limited", "transient_error", "unexpected_error",
             "write_forbidden", "account_flagged"}
Policy == {"campaign_paused", "approval_required", "account_paused",
           "account_rate_limited", "community_risk_pause", "conversation_paused"}
Code == Telegram \cup Policy

Pending == {"queued", "retry_wait"}
Terminal == {"succeeded", "failed", "blocked", "cancelled"}
Status == Pending \cup Terminal \cup {"absent", "claimed", "running"}

ASSUME ConstantsOK ==
    /\ NoWorker \notin Worker /\ NoAction \notin Action
    /\ NoCommunity \notin Community
    /\ AccountOf \in [Action -> Account]
    /\ CommunityOf \in [Action -> Community \cup {NoCommunity}]
    /\ Visible \subseteq Action /\ Approved \subseteq Action
    /\ ClaimTTL \in Nat \ {0} /\ RetryMaxDelay \in Nat \ {0}
    /\ FrictionThreshold \in Nat \ {0} /\ FloodWaits \subseteq Nat \ {0}
    /\ MaxRetries \in Nat /\ MaxTime \in Nat /\ MaxCrashes \in Nat
    /\ StartDelays \subseteq Nat /\ OperatorPauses \subseteq Account
    /\ CampaignPauses \in BOOLEAN
    /\ WorkersKeepUp \in BOOLEAN /\ ClosingCanFlood \in BOOLEAN

\* Each worker is an operating-system process.
ASSUME WorkersFinite == IsFiniteSet(Worker)

VARIABLES
    now,             \* the wall clock
    actions,         \* actions.json: the stored record of each action
    attempts,        \* attempts.jsonl: outcome codes of each action, in order
    accounts,        \* live-engagement-policy/state.json, account part
    communities,     \* live-engagement-policy/state.json, community part
    campaign_paused, \* CampaignStatus.PAUSED
    registry,        \* accounts.json of the MTProto account registry
    pc,              \* where in dispatch_next_ready each worker is
    job,             \* the action it works on
    copy,            \* its in-memory LiveActionRecord
    started_at,      \* when its tick started
    outcome,         \* its DispatchOutcome
    late,            \* sends that timed out here but still run in Telethon
    crashes,
    \* History, read by no action:
    delivered,       \* how many visible posts an action has produced
    leaks            \* Telegram calls begun while the account was paused

file_vars == <<accounts, communities, campaign_paused, registry>>
worker_vars == <<pc, job, copy, started_at, outcome>>
world_vars == <<late, delivered, leaks>>
vars == <<now, actions, attempts, accounts, communities, campaign_paused,
          registry, pc, job, copy, started_at, outcome, late, crashes,
          delivered, leaks>>

-----------------------------------------------------------------------------
(* Records.                                                                *)

\* due_at is next_attempt_at, or created_at while that is None: the first
\* component of the claim order and, since created_at is never in the future,
\* the readiness test of is_ready.
LiveActionRecord ==
    [status : Status, retry_count : Nat, due_at : Nat,
     claimed_by : Worker \cup {NoWorker}, claim_expires_at : Nat]
AccountPolicyState == [is_paused : BOOLEAN, cooldown_until : Nat]
CommunityPolicyState == [is_paused : BOOLEAN, friction : Nat]
AccountRecord == [flagged : BOOLEAN, rate_limit_until : Nat]
DispatchOutcome == [code : Code \cup {"none"}, wait : Nat]

Stage == {"idle", "claimed", "running", "cleared", "sending", "executed",
          "applied", "journaled"}

Absent == [status |-> "absent", retry_count |-> 0, due_at |-> 0,
           claimed_by |-> NoWorker, claim_expires_at |-> 0]
NoOutcome == [code |-> "none", wait |-> 0]

Unclaimed(r, s) ==
    [r EXCEPT !.status = s, !.claimed_by = NoWorker, !.claim_expires_at = 0]

\* Mutant: a retry is never taken up again.
IsReadyForgetsRetries(r) == r.status = "queued" /\ r.due_at <= now
IsReady(r) == r.status \in Pending /\ r.due_at <= now
\* Mutant: a running action is taken back too.
ClaimExpiredOrRunning(r) ==
    r.status \in {"claimed", "running"} /\ r.claim_expires_at <= now
ClaimExpired(r) == r.status = "claimed" /\ r.claim_expires_at <= now

-----------------------------------------------------------------------------
(* What an outcome means.                                                  *)

\* Mutant: an unclear failure counts as a refusal.
BlockedOrUnclear(o) == o.code \in {"write_forbidden", "unexpected_error"}
Blocked(o) == o.code \in {"write_forbidden", "account_flagged", "campaign_paused",
                          "approval_required", "account_paused",
                          "community_risk_pause", "conversation_paused"}

\* Mutant: an ambiguous send is tried again.
RetryableWhenAmbiguous(a, o) ==
    o.code \in {"rate_limited", "account_rate_limited", "transient_error"}

\* A send that may or may not have gone out is never retried.
Retryable(a, o) ==
    \/ o.code \in {"rate_limited", "account_rate_limited"}
    \/ o.code = "transient_error" /\ a \notin Visible

\* The platform's wait, capped; otherwise exponential back-off with jitter,
\* abstracted to its range.
RetryDelays(o) ==
    IF o.wait > 0
    THEN {IF o.wait < RetryMaxDelay THEN o.wait ELSE RetryMaxDelay}
    ELSE 1..RetryMaxDelay

\* Mutant: one retry too many.
AppliedOnceMore(a, r, o, d) ==
    IF o.code = "success" THEN Unclaimed(r, "succeeded")
    ELSE IF Blocked(o) THEN Unclaimed(r, "blocked")
    ELSE IF Retryable(a, o) /\ r.retry_count <= MaxRetries
    THEN [Unclaimed(r, "retry_wait") EXCEPT !.retry_count = r.retry_count + 1,
                                            !.due_at = now + d]
    ELSE [Unclaimed(r, "failed") EXCEPT !.retry_count = r.retry_count + 1]

\* The record after _apply_outcome, when the delay (if any) is d.
Applied(a, r, o, d) ==
    IF o.code = "success" THEN Unclaimed(r, "succeeded")
    ELSE IF Blocked(o) THEN Unclaimed(r, "blocked")
    ELSE IF Retryable(a, o) /\ r.retry_count < MaxRetries
    THEN [Unclaimed(r, "retry_wait") EXCEPT !.retry_count = r.retry_count + 1,
                                            !.due_at = now + d]
    ELSE [Unclaimed(r, "failed") EXCEPT !.retry_count = r.retry_count + 1]

Refuse(c) == [code |-> c, wait |-> 0]
CoolDown(until, t) == [code |-> "account_rate_limited", wait |-> until - t]

\* Mutant: the pause of the account is not looked at.
PolicyWithoutPause(a, t) ==
    {NoOutcome} \cup IF campaign_paused THEN {Refuse("campaign_paused")} ELSE {}

\* LiveActionPolicyEvaluator.evaluate, as of time t.  The conversation an
\* action belongs to is outside this module: it may refuse any visible action.
\* NoOutcome lets the action through.
PolicyDecisions(a, t) ==
    LET acct == accounts[AccountOf[a]]
        reg  == registry[AccountOf[a]]
        chat == CommunityOf[a]
    IN  IF campaign_paused THEN {Refuse("campaign_paused")}
        ELSE IF a \notin Approved THEN {Refuse("approval_required")}
        ELSE IF acct.is_paused THEN {Refuse("account_paused")}
        ELSE IF acct.cooldown_until > t THEN {CoolDown(acct.cooldown_until, t)}
        ELSE IF reg.flagged THEN {Refuse("account_flagged")}
        ELSE IF reg.rate_limit_until > t THEN {CoolDown(reg.rate_limit_until, t)}
        ELSE IF chat # NoCommunity /\ communities[chat].is_paused
        THEN {Refuse("community_risk_pause")}
        ELSE {NoOutcome} \cup (IF a \in Visible THEN {Refuse("conversation_paused")}
                             ELSE {})

-----------------------------------------------------------------------------
(* Callers.                                                                *)

Enqueue(a) ==
    /\ actions[a].status = "absent"
    /\ \E d \in StartDelays :
          actions' = [actions EXCEPT ![a] = [@ EXCEPT !.status = "queued",
                                                      !.due_at = now + d]]
    /\ UNCHANGED <<now, attempts, crashes, file_vars, worker_vars, world_vars>>

\* Mutant: a claimed action can be cancelled.
CancelUnlessDone(a) ==
    /\ actions[a].status \in Pending \cup {"claimed"}
    /\ actions' = [actions EXCEPT ![a] = Unclaimed(@, "cancelled")]
    /\ UNCHANGED <<now, attempts, crashes, file_vars, worker_vars, world_vars>>
CancelIfPending(a) ==
    /\ actions[a].status \in Pending
    /\ actions' = [actions EXCEPT ![a] = Unclaimed(@, "cancelled")]
    /\ UNCHANGED <<now, attempts, crashes, file_vars, worker_vars, world_vars>>

-----------------------------------------------------------------------------
(* One worker's dispatch_next_ready.                                       *)

\* Expired claims go back to the queue, then the action that is due longest is
\* taken; ties are broken by a hash, here by choice.
Claim(w) ==
    /\ pc[w] = "idle"
    /\ LET swept == [a \in Action |-> IF ClaimExpired(actions[a])
                                      THEN Unclaimed(actions[a], "queued")
                                      ELSE actions[a]]
           ready == {a \in Action : IsReady(swept[a])}
       IN  \E a \in ready :
             LET taken == [swept[a] EXCEPT !.status = "claimed", !.claimed_by = w,
                                           !.claim_expires_at = now + ClaimTTL]
             IN  /\ \A b \in ready : swept[a].due_at <= swept[b].due_at
                 /\ actions' = [swept EXCEPT ![a] = taken]
                 /\ job' = [job EXCEPT ![w] = a]
                 /\ copy' = [copy EXCEPT ![w] = taken]
    /\ pc' = [pc EXCEPT ![w] = "claimed"]
    /\ started_at' = [started_at EXCEPT ![w] = now]
    /\ UNCHANGED <<now, attempts, crashes, outcome, file_vars, world_vars>>

\* save() writes the worker's copy whatever the stored record has become.
MarkRunning(w) ==
    /\ pc[w] = "claimed"
    /\ copy' = [copy EXCEPT ![w].status = "running"]
    /\ actions' = [actions EXCEPT ![job[w]] = copy'[w]]
    /\ pc' = [pc EXCEPT ![w] = "running"]
    /\ UNCHANGED <<now, attempts, crashes, job, started_at, outcome, file_vars,
                   world_vars>>

EvaluatePolicy(w) ==
    /\ pc[w] = "running"
    /\ \E o \in PolicyDecisions(job[w], started_at[w]) :
          /\ outcome' = [outcome EXCEPT ![w] = o]
          /\ pc' = [pc EXCEPT ![w] = IF o = NoOutcome THEN "cleared" ELSE "executed"]
    /\ UNCHANGED <<now, actions, attempts, crashes, job, copy, started_at,
                   file_vars, world_vars>>

\* The capability looks at the registry once more, then calls Telegram.
BeginSend(w) ==
    /\ pc[w] = "cleared"
    /\ LET acct == AccountOf[job[w]]
           refused == \/ registry[acct].flagged
                      \/ registry[acct].rate_limit_until > now
       IN  /\ pc' = [pc EXCEPT ![w] = IF refused THEN "executed" ELSE "sending"]
           /\ outcome' = [outcome EXCEPT ![w] =
                 IF registry[acct].flagged THEN Refuse("account_flagged")
                 ELSE IF refused THEN Refuse("rate_limited") ELSE @]
           /\ leaks' = IF ~refused /\ accounts[acct].is_paused
                       THEN [leaks EXCEPT ![acct] = @ + 1] ELSE leaks
    /\ UNCHANGED <<now, actions, attempts, crashes, job, copy, started_at,
                   file_vars, late, delivered>>

\* How Telegram may answer action a: the code, the wait, whether the post has
\* landed by then, and whether the timed-out call still runs and may land later.
Answer(a, code, wait, landed, runs_on) ==
    /\ (wait # 0) = (code = "rate_limited")
    /\ code = "write_forbidden" => a \in Visible
    /\ code = "success" => (landed <=> a \in Visible)
    /\ landed => /\ a \in Visible
                 /\ \/ code \in {"success", "transient_error", "unexpected_error"}
                    \/ code = "rate_limited" /\ ClosingCanFlood
    /\ runs_on => a \in Visible /\ code = "transient_error" /\ ~landed

\* mark_action_success / mark_action_failure.
RegistryAfter(reg, code, wait) ==
    IF code = "success" THEN [flagged |-> FALSE, rate_limit_until |-> 0]
    ELSE IF code = "rate_limited"
    THEN [flagged |-> FALSE, rate_limit_until |-> now + wait]
    ELSE IF code \in {"write_forbidden", "account_flagged"}
    THEN [reg EXCEPT !.flagged = TRUE]
    ELSE reg

EndSend(w) ==
    /\ pc[w] = "sending"
    /\ \E code \in Telegram, wait \in FloodWaits \cup {0},
          landed \in BOOLEAN, runs_on \in BOOLEAN :
        /\ Answer(job[w], code, wait, landed, runs_on)
        /\ outcome' = [outcome EXCEPT ![w] = [code |-> code, wait |-> wait]]
        /\ registry' = [registry EXCEPT
                          ![AccountOf[job[w]]] = RegistryAfter(@, code, wait)]
        /\ delivered' = IF landed THEN [delivered EXCEPT ![job[w]] = @ + 1]
                        ELSE delivered
        /\ late' = IF runs_on THEN late \cup {job[w]} ELSE late
    /\ pc' = [pc EXCEPT ![w] = "executed"]
    /\ UNCHANGED <<now, actions, attempts, crashes, job, copy, started_at,
                   accounts, communities, campaign_paused, leaks>>

\* The result timeout does not cancel the coroutine: the post lands afterwards.
LandLate(a) ==
    /\ a \in late
    /\ late' = late \ {a}
    /\ delivered' = [delivered EXCEPT ![a] = @ + 1]
    /\ UNCHANGED <<now, actions, attempts, crashes, file_vars, worker_vars,
                   leaks>>

\* _apply_outcome_side_effects, on the policy state of the account ...
AccountAfter(s, o) ==
    IF o.code = "success" THEN [s EXCEPT !.cooldown_until = 0]
    ELSE IF o.code = "rate_limited" /\ o.wait > 0
    THEN [s EXCEPT !.cooldown_until = now + o.wait]
    ELSE IF o.code = "account_flagged" THEN [s EXCEPT !.is_paused = TRUE]
    ELSE s

\* Mutant: the chat is paused one refusal too late.
CommunityAfterOneMore(s) ==
    [is_paused |-> s.is_paused \/ s.friction + 1 > FrictionThreshold,
     friction  |-> s.friction + 1]

\* ... and on that of the group chat.
CommunityAfter(s) ==
    [is_paused |-> s.is_paused \/ s.friction + 1 >= FrictionThreshold,
     friction  |-> s.friction + 1]

ApplyOutcome(w) ==
    /\ pc[w] = "executed"
    /\ LET a == job[w]
           chat == CommunityOf[a]
       IN  /\ accounts' = [accounts EXCEPT ![AccountOf[a]] =
                             AccountAfter(@, outcome[w])]
           /\ communities' =
                IF outcome[w].code = "write_forbidden" /\ chat # NoCommunity
                THEN [communities EXCEPT ![chat] = CommunityAfter(@)]
                ELSE communities
           /\ \E d \in RetryDelays(outcome[w]) :
                copy' = [copy EXCEPT ![w] = Applied(a, @, outcome[w], d)]
    /\ pc' = [pc EXCEPT ![w] = "applied"]
    /\ UNCHANGED <<now, actions, attempts, crashes, job, started_at, outcome,
                   campaign_paused, registry, world_vars>>

RecordAttempt(w) ==
    /\ pc[w] = "applied"
    /\ attempts' = [attempts EXCEPT ![job[w]] = Append(@, outcome[w].code)]
    /\ pc' = [pc EXCEPT ![w] = "journaled"]
    /\ UNCHANGED <<now, actions, crashes, job, copy, started_at, outcome,
                   file_vars, world_vars>>

Idle(w) ==
    /\ pc' = [pc EXCEPT ![w] = "idle"]
    /\ job' = [job EXCEPT ![w] = NoAction]
    /\ copy' = [copy EXCEPT ![w] = Absent]
    /\ started_at' = [started_at EXCEPT ![w] = 0]
    /\ outcome' = [outcome EXCEPT ![w] = NoOutcome]

SaveOutcome(w) ==
    /\ pc[w] = "journaled"
    /\ actions' = [actions EXCEPT ![job[w]] = copy[w]]
    /\ Idle(w)
    /\ UNCHANGED <<now, attempts, crashes, file_vars, world_vars>>

\* The process dies, or an exception leaves dispatch_next_ready and run_forever
\* logs it and goes on: either way the tick is over and its copy is lost.  A
\* call that was inside Telegram may land all the same.
Abort(w) ==
    /\ pc[w] # "idle" /\ crashes < MaxCrashes
    /\ crashes' = crashes + 1
    /\ late' \in {late} \cup {late \cup {a} : a \in {b \in Visible :
                                  pc[w] = "sending" /\ job[w] = b}}
    /\ Idle(w)
    /\ UNCHANGED <<now, actions, attempts, file_vars, delivered, leaks>>

-----------------------------------------------------------------------------
(* The operator, and time.                                                 *)

PauseCampaign(paused) ==
    /\ CampaignPauses
    /\ campaign_paused # paused
    /\ campaign_paused' = paused
    /\ UNCHANGED <<now, actions, attempts, crashes, accounts, communities,
                   registry, worker_vars, world_vars>>

\* Each pause starts a new count of the calls that still get through.
PauseAccount(acct, paused) ==
    /\ acct \in OperatorPauses
    /\ accounts[acct].is_paused # paused
    /\ accounts' = [accounts EXCEPT ![acct].is_paused = paused]
    /\ leaks' = [leaks EXCEPT ![acct] = 0]
    /\ UNCHANGED <<now, actions, attempts, crashes, communities, campaign_paused,
                   registry, worker_vars, late, delivered>>

\* When WorkersKeepUp, no claim expires before its worker has marked it running.
Tick ==
    /\ now < MaxTime
    /\ WorkersKeepUp =>
         \A w \in Worker : pc[w] = "claimed" => now + 1 < copy[w].claim_expires_at
    /\ now' = now + 1
    /\ UNCHANGED <<actions, attempts, crashes, file_vars, worker_vars, world_vars>>

-----------------------------------------------------------------------------
Init ==
    /\ now = 0
    /\ actions = [a \in Action |-> Absent]
    /\ attempts = [a \in Action |-> <<>>]
    /\ accounts = [c \in Account |-> [is_paused |-> FALSE, cooldown_until |-> 0]]
    /\ communities = [c \in Community |-> [is_paused |-> FALSE, friction |-> 0]]
    /\ campaign_paused = FALSE
    /\ registry = [c \in Account |-> [flagged |-> FALSE, rate_limit_until |-> 0]]
    /\ pc = [w \in Worker |-> "idle"]
    /\ job = [w \in Worker |-> NoAction]
    /\ copy = [w \in Worker |-> Absent]
    /\ started_at = [w \in Worker |-> 0]
    /\ outcome = [w \in Worker |-> NoOutcome]
    /\ late = {}
    /\ crashes = 0
    /\ delivered = [a \in Action |-> 0]
    /\ leaks = [c \in Account |-> 0]

WorkerStep(w) ==
    \/ Claim(w) \/ MarkRunning(w) \/ EvaluatePolicy(w) \/ BeginSend(w)
    \/ EndSend(w) \/ ApplyOutcome(w) \/ RecordAttempt(w) \/ SaveOutcome(w)

Next ==
    \/ \E a \in Action : Enqueue(a) \/ CancelIfPending(a) \/ LandLate(a)
    \/ \E w \in Worker : WorkerStep(w) \/ Abort(w)
    \/ \E paused \in BOOLEAN : PauseCampaign(paused)
    \/ \E acct \in Account, paused \in BOOLEAN : PauseAccount(acct, paused)
    \/ Tick

Spec == Init /\ [][Next]_vars

\* run_forever calls dispatch_next_ready again and again and time passes; nobody
\* promises that callers, operators or Telegram's late answers ever act.
FairSpec == Spec /\ WF_vars(Tick) /\ \A w \in Worker : WF_vars(WorkerStep(w))

-----------------------------------------------------------------------------
(* Properties.                                                             *)

TypeOK ==
    /\ now \in 0..MaxTime
    /\ actions \in [Action -> LiveActionRecord]
    /\ attempts \in [Action -> Seq(Code)]
    /\ accounts \in [Account -> AccountPolicyState]
    /\ communities \in [Community -> CommunityPolicyState]
    /\ campaign_paused \in BOOLEAN
    /\ registry \in [Account -> AccountRecord]
    /\ pc \in [Worker -> Stage]
    /\ job \in [Worker -> Action \cup {NoAction}]
    /\ copy \in [Worker -> LiveActionRecord]
    /\ started_at \in [Worker -> 0..MaxTime]
    /\ outcome \in [Worker -> DispatchOutcome]
    /\ late \subseteq Visible
    /\ crashes \in 0..MaxCrashes
    /\ delivered \in [Action -> Nat]
    /\ leaks \in [Account -> Nat]

\* Two workers never execute the same action, whatever expires, is cancelled,
\* retried or abandoned in between: nothing after the claim checks ownership.
ExclusiveExecution ==
    \A v, w \in Worker :
        v # w /\ pc[v] # "idle" /\ pc[w] # "idle" => job[v] # job[w]

\* An action produces at most one visible post, counting one that may still
\* land: retries, timeouts, crashes and reclaimed claims never repeat a post.
AtMostOnePost ==
    \A a \in Action : delivered[a] + (IF a \in late THEN 1 ELSE 0) <= 1

\* A finished action stays as it finished: no blind save of an in-memory copy
\* brings a succeeded, failed, blocked or cancelled record back.
TerminalIsFinal ==
    [][\A a \in Action :
         actions[a].status \in Terminal => actions'[a] = actions[a]]_vars

\* The journal and the record, two files written one after the other, agree on
\* how often an action was tried, up to a tick that died between the two; and
\* no action is tried more than MaxRetries + 1 times.
JournalAgrees ==
    \A a \in Action :
        LET tried == Len(attempts[a])
            r == actions[a]
        IN  /\ tried <= MaxRetries + 1
            /\ r.status \notin {"running", "succeeded", "blocked"} =>
                  tried = r.retry_count
            /\ r.status = "running" => tried - r.retry_count \in {0, 1}
            /\ r.status \in {"succeeded", "blocked"} => tried = r.retry_count + 1

\* After an account is paused each worker gets at most one more call through:
\* the one it had already cleared with the policy.
PauseLeakBound ==
    \A acct \in Account :
        accounts[acct].is_paused => leaks[acct] <= Cardinality(Worker)

\* A group chat refuses at most one write per worker beyond the threshold that
\* pauses it, whichever accounts the writes come from.
FrictionBound ==
    \A c \in Community :
        communities[c].friction <= FrictionThreshold - 1 + Cardinality(Worker)

\* The action waits for a time after the end of the bounded clock.
BeyondClock(a) ==
    \/ actions[a].status \in Pending /\ actions[a].due_at > MaxTime
    \/ actions[a].status = "claimed" /\ actions[a].claim_expires_at > MaxTime

\* While no tick is aborted, every action that is enqueued ends up finished,
\* unless the bounded clock stops before it is due: none is passed over for ever
\* and none is retried for ever.
EventuallySettles ==
    \A a \in Action :
        actions[a].status # "absent" ~>
            actions[a].status \in Terminal \/ BeyondClock(a)

\* What the caller of enqueue_action may rely on.
StageOf(status) ==
    CASE status = "absent" -> "none"
      [] status = "succeeded" -> "confirmed"
      [] status = "failed" -> "given_up"
      [] status \in {"blocked", "cancelled"} -> "withdrawn"
      [] OTHER -> "open"
Promise == INSTANCE DeliveryPromise WITH
    Item  <- Visible,
    stage <- [a \in Visible |-> StageOf(actions[a].status)],
    posts <- [a \in Visible |-> delivered[a]]

\* The queue implements that promise: a withdrawn action never posts, a
\* confirmed one has posted, a given-up one posts at most once.
KeepsPromise == Promise!Spec

\* What those who cancel and supersede queued actions may rely on.
EntryOf(status) ==
    CASE status \in Pending -> "pending"
      [] status \in {"claimed", "running"} -> "claimed"
      [] status = "cancelled" -> "cancelled"
      [] OTHER -> "done"
Entries == [a \in {b \in Action : actions[b].status # "absent"} |-> EntryOf(actions[a].status)]
Contract == INSTANCE QueueContract WITH entries <- Entries

\* The queue implements that contract: nobody but its worker moves an action that was
\* claimed, a cancelled one is never taken up again, and no late save undoes an end.
KeepsContract == Contract!Spec

-----------------------------------------------------------------------------
(* What the repository's documents say and the code does not do; a run     *)
(* refutes it.                                                             *)

\* "queued actions survive process restarts": even if ticks are aborted, an
\* enqueued action is finished some day.
ActionsSurviveRestarts == EventuallySettles
=============================================================================
