-------------------------- MODULE ConversationReview --------------------------
(***************************************************************************)
(* The life of one external conversation: inbound events are projected     *)
(* onto its record, review workers claim its review moments and queue      *)
(* replies, the live-execution worker delivers them and opens follow-up    *)
(* windows, the operator pauses and resumes it (telegram_app/              *)
(* external_conversations and engagement_brain).                           *)
(*                                                                         *)
(* Every process loads the record, decides, and saves the WHOLE record     *)
(* back.  Claiming and completing a review do so under the guard, in one   *)
(* atomic action.  All the update_* calls load outside the guard: here     *)
(* they are two actions, a load into copy and a save, and what others      *)
(* wrote in between is overwritten.  UpdatesDontOverlap = TRUE assumes     *)
(* those overlaps away, to show what the protocol guarantees without them. *)
(***************************************************************************)
EXTENDS Naturals, FiniteSets

CONSTANTS
    Reviewer,            \* conversation-review workers
    Nobody, NoCopy,
    Draft,               \* texts the brain may draft
    Origin,              \* thread_origin: "group_reply" or "direct_inbound_dm"
    DmFollowUpLimit,     \* DEFAULT_DM_FOLLOW_UP_LIMIT
    ClaimTTL,            \* claim_ttl_seconds
    FollowUpDelays,      \* how far ahead a follow-up window is opened
    MaxEvents,           \* bound: inbound events
    MaxControls,         \* bound: pauses and resumes by the operator
    MaxAborts,           \* bound: review ticks that die
    MaxTime,             \* bound: the clock stops here
    UpdatesDontOverlap   \* TRUE: nobody writes between a load and its save

Process == Reviewer \cup {"listener", "executor", "operator"}

ASSUME ReviewConstantsOK ==
    /\ Reviewer \cap {"listener", "executor", "operator"} = {}
    /\ Nobody \notin Reviewer
    /\ Origin \in {"group_reply", "direct_inbound_dm"}
    /\ DmFollowUpLimit \in Nat /\ ClaimTTL \in Nat \ {0}
    /\ FollowUpDelays \subseteq Nat \ {0}
    /\ MaxEvents \in Nat /\ MaxControls \in Nat /\ MaxAborts \in Nat
    /\ MaxTime \in Nat /\ UpdatesDontOverlap \in BOOLEAN

\* trigger_key: inbound:<event>, or follow_up:<due at>:<attempts so far>.
Key == ({"inbound"} \X Nat \X {0}) \cup ({"follow_up"} \X Nat \X Nat)
NoKey == <<"none", 0, 0>>
IsFollowUp(key) == key[1] = "follow_up"

\* 0 stands for None in follow_up_due_at, and for "" in last_event_id.  paused
\* stands for every status that keeps a conversation from being reviewed.
ExternalConversationRecord ==
    [status : {"active", "paused"},
     next_action_type : {"review_inbound", "other"},
     last_event_id : Nat,
     follow_up_due_at : Nat,
     follow_up_attempt_count : Nat,
     review_claimed_by : Reviewer \cup {Nobody},
     review_claim_expires_at : Nat,
     review_claim_trigger_key : Key \cup {NoKey},
     last_completed_review_trigger_key : Key \cup {NoKey}]

Stage == {"idle",
          "triage", "triaged", "review", "propose", "decide", "next_action",
          "clear_window", "complete",          \* reviewers
          "project",                           \* listener
          "record", "consume", "schedule",     \* executor
          "pause", "resume"}                   \* operator

VARIABLES
    now,
    conversation,  \* the record in conversations.json
    pc,            \* where each process is
    copy,          \* the record it has loaded and not yet saved
    task,          \* the trigger key each reviewer works on
    enqueued,      \* whether its review queued a reply
    sends,         \* live actions by idempotency key: trigger and draft
    open,          \* those not yet executed
    arrived,       \* inbound events so far
    controls,      \* pauses and resumes so far
    aborts,
    \* History, read by no action:
    saw,           \* the newest event in the context of each reviewer
    reviewed,      \* the newest event in the context of a completed review
    claimed,       \* every key that was ever claimed
    excused,       \* a claim has expired unfinished, or the operator resumed
    follow_ups     \* follow-ups queued since the last inbound event

review_vars == <<task, enqueued, saw>>
queue_vars == <<sends, open, follow_ups>>
bound_vars == <<arrived, controls, aborts>>
history_vars == <<reviewed, claimed, excused>>
vars == <<now, conversation, pc, copy, task, enqueued, sends, open, arrived,
          controls, aborts, saw, reviewed, claimed, excused, follow_ups>>

-----------------------------------------------------------------------------
(* Reading and writing the record.                                         *)

HasWindow(c) == c.follow_up_due_at # 0

Unclaimed(c) ==
    [c EXCEPT !.review_claimed_by = Nobody, !.review_claim_expires_at = 0,
              !.review_claim_trigger_key = NoKey]

\* Mutant: a claim covers its trigger, not the conversation.
ClaimOfTrigger(c) ==
    /\ c.review_claimed_by # Nobody /\ c.review_claim_expires_at > now
    /\ \/ c.next_action_type # "review_inbound"
       \/ c.review_claim_trigger_key[2] = c.last_event_id
\* Mutant: a claim never expires.
ClaimForEver(c) == c.review_claimed_by # Nobody
ClaimActive(c) == c.review_claimed_by # Nobody /\ c.review_claim_expires_at > now

\* _build_review_trigger: an inbound review goes before a due follow-up.
Trigger(c) ==
    IF c.status # "active" THEN NoKey
    ELSE IF c.next_action_type = "review_inbound" /\ c.last_event_id # 0
    THEN <<"inbound", c.last_event_id, 0>>
    ELSE IF HasWindow(c) /\ c.follow_up_due_at <= now
    THEN <<"follow_up", c.follow_up_due_at, c.follow_up_attempt_count>>
    ELSE NoKey

\* Mutant: the completed trigger is not compared.
EligibleAgain(c) == Trigger(c) # NoKey
Eligible(c) ==
    Trigger(c) \notin {NoKey, c.last_completed_review_trigger_key}

\* What one process's load and save rule out for the others.
Undisturbed == UpdatesDontOverlap => \A p \in Process : copy[p] = NoCopy

Load(p) == Undisturbed /\ copy[p] = NoCopy /\ copy' = [copy EXCEPT ![p] = conversation]

\* The end of an update: c is written, whatever was written since the load.
Save(p, c) ==
    /\ copy[p] # NoCopy
    /\ conversation' = c
    /\ copy' = [copy EXCEPT ![p] = NoCopy]

GoTo(p, stage) == pc' = [pc EXCEPT ![p] = stage]

-----------------------------------------------------------------------------
(* The inbound listener: ExternalConversationProjector.                    *)

\* A new event arrives and its conversation is looked up ...
Receive ==
    /\ pc["listener"] = "idle" /\ arrived < MaxEvents
    /\ Load("listener")
    /\ GoTo("listener", "project")
    /\ arrived' = arrived + 1
    /\ UNCHANGED <<now, conversation, controls, aborts, review_vars, queue_vars,
                   history_vars>>

\* ... and the record with the event applied to it is saved.
Project ==
    /\ pc["listener"] = "project"
    /\ Save("listener",
            [copy["listener"] EXCEPT !.last_event_id = arrived,
                                     !.next_action_type = "review_inbound",
                                     !.follow_up_due_at = 0,
                                     !.follow_up_attempt_count = 0])
    /\ GoTo("listener", "idle")
    /\ follow_ups' = 0
    /\ UNCHANGED <<now, sends, open, bound_vars, review_vars, history_vars>>

-----------------------------------------------------------------------------
(* A review worker: dispatch_next_review and review_conversation.          *)

\* An expired claim is cleared even when there is nothing to claim.
Claim(r) ==
    /\ pc[r] = "idle" /\ Undisturbed
    /\ ~ClaimActive(conversation)
    /\ LET c == Unclaimed(conversation)
       IN  IF Eligible(c)
           THEN /\ conversation' =
                     [c EXCEPT !.review_claimed_by = r,
                               !.review_claim_expires_at = now + ClaimTTL,
                               !.review_claim_trigger_key = Trigger(c)]
                /\ task' = [task EXCEPT ![r] = Trigger(c)]
                /\ claimed' = claimed \cup {Trigger(c)}
                /\ GoTo(r, "triage")
           ELSE /\ conversation.review_claimed_by # Nobody
                /\ conversation' = c
                /\ UNCHANGED <<task, claimed, pc>>
    /\ excused' = \/ excused
                  \/ /\ conversation.review_claimed_by # Nobody
                     /\ conversation.review_claim_expires_at <= now
    /\ UNCHANGED <<now, copy, enqueued, saw, reviewed, queue_vars, bound_vars>>

\* EngagementBrainContextBuilder.build, before the cheap triage and again before
\* the deep review; a language model is asked after each.
BuildContext(r) ==
    /\ pc[r] \in {"triage", "review"}
    /\ GoTo(r, IF pc[r] = "triage" THEN "triaged" ELSE "propose")
    /\ saw' = [saw EXCEPT ![r] = conversation.last_event_id]
    /\ UNCHANGED <<now, conversation, copy, task, enqueued, queue_vars, bound_vars,
                   history_vars>>

LoadForReview(r) ==
    /\ pc[r] \in {"triaged", "propose", "next_action", "clear_window"}
    /\ Load(r)
    /\ UNCHANGED <<now, conversation, pc, review_vars, queue_vars, bound_vars,
                   history_vars>>

\* What is left to do once nothing was queued for key.
AfterNoSend(key) == IF IsFollowUp(key) THEN "clear_window" ELSE "complete"

\* update_triage_state: promoted_for_deep_review or await_new_inbound.
SaveTriage(r) ==
    /\ pc[r] = "triaged"
    /\ Save(r, [copy[r] EXCEPT !.next_action_type = "other"])
    /\ \E promoted \in BOOLEAN :
          GoTo(r, IF promoted THEN "review" ELSE AfterNoSend(task[r]))
    /\ UNCHANGED <<now, review_vars, queue_vars, bound_vars, history_vars>>

\* The belief, qualification, handoff and pending-review updates of one review
\* change none of the fields modelled here, but write them all back; one update
\* stands for those in a row.
SaveBeliefs(r) ==
    /\ pc[r] = "propose"
    /\ Save(r, copy[r])
    /\ GoTo(r, "decide")
    /\ UNCHANGED <<now, review_vars, queue_vars, bound_vars, history_vars>>

\* The brain sends nothing, or authorization, policy or timing withholds it; or
\* the reply is queued, unless its idempotency key is already there.
Decide(r) ==
    /\ pc[r] = "decide"
    /\ \/ /\ enqueued' = [enqueued EXCEPT ![r] = FALSE]
          /\ UNCHANGED queue_vars
       \/ /\ conversation.status = "active"
          /\ enqueued' = [enqueued EXCEPT ![r] = TRUE]
          /\ \E d \in Draft :
                LET send == <<task[r], d>>
                IN  IF send \in sends THEN UNCHANGED queue_vars
                    ELSE /\ sends' = sends \cup {send}
                         /\ open' = open \cup {send}
                         /\ follow_ups' = IF IsFollowUp(task[r])
                                          THEN follow_ups + 1 ELSE follow_ups
    /\ GoTo(r, "next_action")
    /\ UNCHANGED <<now, conversation, copy, task, saw, bound_vars, history_vars>>

\* brain_wait, autonomous_send_blocked, policy_hold, queued_send_... : whatever
\* the record says by now, review_inbound included, is replaced.
SaveNextAction(r) ==
    /\ pc[r] = "next_action"
    /\ Save(r, [copy[r] EXCEPT !.next_action_type = "other"])
    /\ GoTo(r, IF enqueued[r] THEN "complete" ELSE AfterNoSend(task[r]))
    /\ UNCHANGED <<now, review_vars, queue_vars, bound_vars, history_vars>>

ClearFollowUpWindow(r) ==
    /\ pc[r] = "clear_window"
    /\ Save(r, [copy[r] EXCEPT !.follow_up_due_at = 0])
    /\ GoTo(r, "complete")
    /\ UNCHANGED <<now, review_vars, queue_vars, bound_vars, history_vars>>

Rest(r) ==
    /\ GoTo(r, "idle")
    /\ task' = [task EXCEPT ![r] = NoKey]
    /\ enqueued' = [enqueued EXCEPT ![r] = FALSE]
    /\ saw' = [saw EXCEPT ![r] = 0]

\* complete_review_claim gives up without a word when the conversation is by now
\* claimed for another trigger.
Complete(r) ==
    /\ pc[r] = "complete" /\ Undisturbed
    /\ conversation' =
         IF conversation.review_claim_trigger_key \in {NoKey, task[r]}
         THEN [Unclaimed(conversation) EXCEPT
                 !.last_completed_review_trigger_key = task[r]]
         ELSE conversation
    /\ reviewed' = IF saw[r] > reviewed THEN saw[r] ELSE reviewed
    /\ Rest(r)
    /\ UNCHANGED <<now, copy, claimed, excused, queue_vars, bound_vars>>

\* The worker dies, or an exception ends its tick; its claim stays.
Abort(r) ==
    /\ pc[r] # "idle" /\ aborts < MaxAborts
    /\ aborts' = aborts + 1
    /\ copy' = [copy EXCEPT ![r] = NoCopy]
    /\ Rest(r)
    /\ UNCHANGED <<now, conversation, arrived, controls, queue_vars, history_vars>>

-----------------------------------------------------------------------------
(* The live-execution worker, as far as the conversation is concerned.     *)

\* The policy refuses a paused conversation; the send may also fail.
Execute(send) ==
    /\ pc["executor"] = "idle" /\ send \in open
    /\ open' = open \ {send}
    /\ \/ UNCHANGED pc
       \/ conversation.status = "active" /\ GoTo("executor", "record")
    /\ UNCHANGED <<now, conversation, copy, sends, follow_ups, bound_vars,
                   review_vars, history_vars>>

LoadAfterDelivery ==
    /\ pc["executor"] \in {"record", "consume", "schedule"}
    /\ Load("executor")
    /\ UNCHANGED <<now, conversation, pc, review_vars, queue_vars, bound_vars,
                   history_vars>>

\* record_outbound_delivery; an open window is consumed next.
RecordDelivery ==
    /\ pc["executor"] = "record"
    /\ Save("executor", [copy["executor"] EXCEPT !.next_action_type = "other"])
    /\ GoTo("executor", IF HasWindow(copy["executor"]) THEN "consume" ELSE "schedule")
    /\ UNCHANGED <<now, review_vars, queue_vars, bound_vars, history_vars>>

\* mark_follow_up_sent, which saves nothing if an event has closed the window.
ConsumeWindow ==
    /\ pc["executor"] = "consume" /\ copy["executor"] # NoCopy
    /\ LET c == copy["executor"]
       IN  Save("executor",
                IF HasWindow(c)
                THEN [c EXCEPT !.follow_up_attempt_count = @ + 1,
                               !.follow_up_due_at = 0,
                               !.next_action_type = "other"]
                ELSE conversation)
    /\ GoTo("executor", "schedule")
    /\ UNCHANGED <<now, review_vars, queue_vars, bound_vars, history_vars>>

\* Mutant: one direct message too many.
MayFollowUpOnceMore(c) ==
    /\ ~HasWindow(c)
    /\ Origin = "group_reply" \/ c.follow_up_attempt_count <= DmFollowUpLimit
\* schedule_group_follow_up and schedule_dm_follow_up.
MayFollowUp(c) ==
    /\ ~HasWindow(c)
    /\ Origin = "group_reply" \/ c.follow_up_attempt_count < DmFollowUpLimit

ScheduleFollowUp ==
    /\ pc["executor"] = "schedule" /\ copy["executor"] # NoCopy
    /\ LET c == copy["executor"]
       IN  IF MayFollowUp(c)
           THEN \E d \in FollowUpDelays :
                  Save("executor", [c EXCEPT !.follow_up_due_at = now + d,
                                             !.next_action_type = "other"])
           ELSE Save("executor", conversation)
    /\ GoTo("executor", "idle")
    /\ UNCHANGED <<now, review_vars, queue_vars, bound_vars, history_vars>>

-----------------------------------------------------------------------------
(* The operator: pause_conversation and resume_conversation.               *)

LoadForOperator ==
    /\ pc["operator"] = "idle" /\ conversation.last_event_id # 0
    /\ controls < MaxControls /\ controls' = controls + 1
    /\ Load("operator")
    /\ \E control \in {"pause", "resume"} : GoTo("operator", control)
    /\ UNCHANGED <<now, conversation, arrived, aborts, review_vars, queue_vars,
                   history_vars>>

Pause ==
    /\ pc["operator"] = "pause"
    /\ Save("operator", [copy["operator"] EXCEPT !.status = "paused",
                                                 !.next_action_type = "other"])
    /\ GoTo("operator", "idle")
    /\ UNCHANGED <<now, review_vars, queue_vars, bound_vars, history_vars>>

Resume ==
    /\ pc["operator"] = "resume"
    /\ Save("operator", [copy["operator"] EXCEPT
                           !.status = "active",
                           !.next_action_type = "review_inbound"])
    /\ GoTo("operator", "idle")
    /\ excused' = TRUE
    /\ UNCHANGED <<now, reviewed, claimed, review_vars, queue_vars, bound_vars>>

Tick ==
    /\ now < MaxTime
    /\ now' = now + 1
    /\ UNCHANGED <<conversation, pc, copy, review_vars, queue_vars, bound_vars,
                   history_vars>>

-----------------------------------------------------------------------------
\* The first event opens the conversation: until then nobody finds anything.
Init ==
    /\ now = 0
    /\ conversation =
         [status |-> "active", next_action_type |-> "other", last_event_id |-> 0,
          follow_up_due_at |-> 0, follow_up_attempt_count |-> 0,
          review_claimed_by |-> Nobody, review_claim_expires_at |-> 0,
          review_claim_trigger_key |-> NoKey,
          last_completed_review_trigger_key |-> NoKey]
    /\ pc = [p \in Process |-> "idle"]
    /\ copy = [p \in Process |-> NoCopy]
    /\ task = [r \in Reviewer |-> NoKey]
    /\ enqueued = [r \in Reviewer |-> FALSE]
    /\ sends = {} /\ open = {}
    /\ arrived = 0 /\ controls = 0 /\ aborts = 0
    /\ saw = [r \in Reviewer |-> 0]
    /\ reviewed = 0 /\ claimed = {} /\ excused = FALSE /\ follow_ups = 0

ReviewerStep(r) ==
    \/ Claim(r) \/ BuildContext(r) \/ LoadForReview(r) \/ SaveTriage(r)
    \/ SaveBeliefs(r) \/ Decide(r) \/ SaveNextAction(r) \/ ClearFollowUpWindow(r)
    \/ Complete(r)

ExecutorStep ==
    \/ \E send \in open : Execute(send)
    \/ LoadAfterDelivery \/ RecordDelivery \/ ConsumeWindow \/ ScheduleFollowUp

Next ==
    \/ Receive \/ Project
    \/ \E r \in Reviewer : ReviewerStep(r) \/ Abort(r)
    \/ ExecutorStep
    \/ LoadForOperator \/ Pause \/ Resume
    \/ Tick

Spec == Init /\ [][Next]_vars

\* The workers' polling loops go on, an update that was begun is finished, and
\* time passes; nobody promises events or operators.
FairSpec ==
    /\ Spec
    /\ WF_vars(Tick) /\ WF_vars(Project) /\ WF_vars(Pause \/ Resume)
    /\ WF_vars(ExecutorStep)
    /\ \A r \in Reviewer : WF_vars(ReviewerStep(r))

-----------------------------------------------------------------------------
(* Properties.                                                             *)

\* The claim fields of the record are set and cleared together, and a direct
\* conversation never counts more follow-ups than the limit allows.
RecordOK(c) ==
    /\ c \in ExternalConversationRecord
    /\ c.review_claimed_by = Nobody <=> c.review_claim_trigger_key = NoKey
    /\ Origin = "direct_inbound_dm" => c.follow_up_attempt_count <= DmFollowUpLimit

TypeOK ==
    /\ now \in 0..MaxTime
    /\ RecordOK(conversation)
    /\ pc \in [Process -> Stage]
    /\ copy \in [Process -> ExternalConversationRecord \cup {NoCopy}]
    /\ \A p \in Process : copy[p] = NoCopy \/ RecordOK(copy[p])
    /\ task \in [Reviewer -> Key \cup {NoKey}]
    /\ enqueued \in [Reviewer -> BOOLEAN]
    /\ open \subseteq sends /\ sends \subseteq Key \X Draft
    /\ arrived \in 0..MaxEvents /\ controls \in 0..MaxControls
    /\ aborts \in 0..MaxAborts
    /\ saw \in [Reviewer -> 0..MaxEvents] /\ reviewed \in 0..MaxEvents
    /\ claimed \subseteq Key /\ excused \in BOOLEAN /\ follow_ups \in Nat

\* As long as no claim has run out, two workers never review the conversation at
\* the same time, not even for two different triggers.
ExclusiveReview ==
    ~excused => \A q, r \in Reviewer : pc[q] # "idle" /\ pc[r] # "idle" => q = r

\* As long as no claim has run out and no operator has asked for another review,
\* a trigger key is reviewed once: neither a later inbound event nor a window
\* that stays open until its follow-up is sent brings it back.
ReviewedOnce ==
    [][\A r \in Reviewer :
         ~excused' /\ pc[r] = "idle" /\ pc'[r] # "idle" => task'[r] \notin claimed]_vars

\* An external person who does not answer is sent DmFollowUpLimit follow-ups; one
\* more can be queued by a review that began before the last answer.
FollowUpsBounded ==
    ~excused /\ Origin = "direct_inbound_dm" => follow_ups <= DmFollowUpLimit + 1

\* The claim outlives the bounded clock, so nobody can find it expired.
ClaimedBeyondClock == conversation.review_claim_expires_at > MaxTime

\* A follow-up window that is due is reviewed some day, or it is closed, or the
\* conversation waits for an operator's resume or for the clock: no dead worker
\* and no claim on an earlier trigger leaves it behind.
DueWindowSettles ==
    \A due \in 1..MaxTime :
        conversation.follow_up_due_at = due ~>
            \/ conversation.follow_up_due_at # due
            \/ /\ IsFollowUp(conversation.last_completed_review_trigger_key)
               /\ conversation.last_completed_review_trigger_key[2] = due
            \/ conversation.status = "paused"
            \/ conversation.next_action_type = "review_inbound"
            \/ ClaimedBeyondClock

-----------------------------------------------------------------------------
(* What the repository says of a conversation and the code does not do.    *)

\* "a later inbound event naturally creates a new inbound trigger key and becomes
\* eligible again": some completed review has an event, or a later one, in its
\* context.
InboundEventuallyReviewed ==
    \A e \in 1..MaxEvents : conversation.last_event_id = e ~> reviewed >= e
=============================================================================
