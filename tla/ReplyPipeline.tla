---------------------------- MODULE ReplyPipeline ----------------------------
(***************************************************************************)
(* What the engagement brain makes of what a person writes: cheap triage   *)
(* (engagement_triage), commercial review (engagement_brain), the record   *)
(* of qualification and handoff (qualification), authorization, reply      *)
(* timing (engagement_policy), the queue, and what the delivery of a reply *)
(* does to the handoff (live_execution).                                   *)
(*                                                                         *)
(* ConversationReview says who may review when and how records are         *)
(* overwritten; HeldReplies what the operator does with what is held.      *)
(* Here every read and every save is one step of the reviewing worker, and *)
(* new texts, deliveries and deaths fall between them.                     *)
(***************************************************************************)
EXTENDS Naturals, Sequences, FiniteSets, SequencesExt

CONSTANTS
    TextKinds,          \* the texts people write, out of Kinds
    ModelTriages,       \* the triage states a language model may answer with, out of Triages
    Settings,           \* thread_origin, community type and quiet hours of the campaign
    DaySlots,           \* time slots of a day
    WakeupDelays,       \* slots between the end of the quiet hours and the reply
    FollowUpLimit,      \* max_group_ or max_dm_follow_ups_without_inbound
    MaxTexts,           \* bound: texts of the person
    MaxSlot,            \* bound: the latest slot at which a reply is planned
    MaxReviews,         \* bound: reviews
    MaxReviewDeaths     \* bound: reviews cut off by a death or an exception

\* The texts the keyword tables tell apart; a refusal ("not interested") also
\* contains a word of interest.
Kinds == {"thanks", "chat", "question", "ready", "price", "doubt", "stakes", "stop", "refusal"}

LowSignal == {"thanks"}
Hostile == {"stop", "refusal"}
Objecting == {"doubt"}
Interested == {"ready", "price", "refusal"}     \* _HIGH_INTEREST_KEYWORDS, _CONVERSION_READY_KEYWORDS
Asking == {"question", "stakes"}
HighStakes == {"stakes"}
Hurried == {"ready"}

Origins == {"group_reply", "direct_inbound_dm"}
CommunityTypes == {"founder", "crypto", "hobby"}
Risks == {"low", "high", "restricted"}
Triages == [low_signal : BOOLEAN, hostile : BOOLEAN, objection : BOOLEAN, urgent : BOOLEAN,
            promoted : BOOLEAN]
ASSUME PipelineConstantsOK ==
    /\ TextKinds \subseteq Kinds
    /\ DaySlots \in Nat \ {0}
    /\ ModelTriages \subseteq Triages
    /\ Settings \subseteq [origin : Origins, community : CommunityTypes,
                           quiet : [start : 0..(DaySlots - 1), end : 0..(DaySlots - 1)]]
    /\ WakeupDelays \subseteq Nat
    /\ FollowUpLimit \in Nat /\ MaxTexts \in Nat /\ MaxSlot \in Nat 
    /\ MaxReviews \in Nat /\ MaxReviewDeaths \in Nat

Decisions == {"reply", "ask", "wait", "ignore", "escalate"}
Verdicts == [decision : Decisions, ready : BOOLEAN, risky : BOOLEAN]
Sending == {"reply", "ask"}
HandoffStatus == {"none", "ready", "clarification_required", "delivered", "blocked", "failed"}
ReplyMoments == [kind : {"inbound", "follow_up"}, text : 0..MaxTexts, attempt : Nat]
ReviewStages == {"none", "triage", "review", "record", "authorize", "plan", "enqueue", "complete"}

VARIABLES
    setting,         \* thread_origin, community_type and the quiet hours of the campaign
    inbox,           \* the texts of the person
    thread,          \* the conversation: triage_state, handoff_status, follow_up_attempt_count
    review,          \* the review under way: its moment, its context, its proposal
    answered,        \* moments whose review is complete
    replies,         \* the live actions it queued
    review_deaths,
    severed,         \* history: moments over which a review ended without being completed
    lead             \* history: whether the last complete review proposed a reply

pipeline_vars == <<setting, inbox, thread, review, answered, replies, review_deaths,
                   severed, lead>>

NoTriage == [low_signal |-> FALSE, hostile |-> FALSE, objection |-> FALSE, urgent |-> FALSE,
             promoted |-> FALSE]
NoMoment == [kind |-> "inbound", text |-> 0, attempt |-> 0]
NoReview == [stage |-> "none", moment |-> NoMoment, text |-> 0, by_rules |-> FALSE,
             sends |-> FALSE, ready |-> FALSE, risky |-> FALSE, handoff |-> FALSE,
             planned |-> 0, due |-> 0]

------------------------------------------------------------------------------
(* The rules that stand in for the language model.                         *)

\* _fallback_triage.
FallbackTriage(k) ==
    [low_signal |-> k \in LowSignal, hostile |-> k \in Hostile, objection |-> k \in Objecting,
     urgent |-> k \in Hurried,
     promoted |-> k \in Hostile \cup Objecting \cup Interested \cup Asking \cup Hurried]

\* DeterministicCommercialReasoningReviewer.review: facts says whether the approved facts
\* speak of prices.
FallbackVerdict(k, risk, facts) ==
    LET missing == k = "price" /\ ~facts
        cautious == /\ setting.origin = "group_reply" /\ risk \in {"high", "restricted"}
                    /\ k \in Interested \cup Objecting
    IN [decision |-> CASE k \in LowSignal -> "ignore"
                       [] k \in HighStakes -> "escalate"
                       [] k \notin LowSignal \cup HighStakes /\ (missing \/ cautious) -> "ask"
                       [] OTHER -> "reply",
        ready |-> k \in Interested,
        risky |-> k \in HighStakes]

------------------------------------------------------------------------------
(* Reply timing.                                                           *)

\* _is_inside_quiet_hours.
IsQuiet(at, w) ==
    LET local == at % DaySlots IN
    IF w.start < w.end THEN w.start <= local /\ local < w.end
                       ELSE local >= w.start \/ local < w.end

\* Mutant: the window ends on the day it is asked about, also before midnight.
NextAllowedToday(at, w) == (at \div DaySlots) * DaySlots + w.end
\* _next_allowed_local_time.
NextAllowed(at, w) ==
    LET day == at \div DaySlots IN
    (IF w.start >= w.end /\ at % DaySlots >= w.start THEN day + 1 ELSE day) * DaySlots + w.end

\* apply_quiet_hours, for every delay it may sample.
ShiftedOut(at, w) ==
    IF IsQuiet(at, w) THEN {NextAllowed(at, w) + d : d \in WakeupDelays} ELSE {at}

\* _suppression_reason; only the crypto default tolerates low signal, and the limit
\* counts follow-ups without an answer.
Suppressed(t, moment, ready) ==
    \/ t.low_signal /\ setting.community # "crypto"
    \/ t.hostile
    \/ moment.kind = "follow_up" /\ thread.attempts >= FollowUpLimit

\* _resolve_latency_tier and the window of the tier, in slots.
Delays(t, ready) ==
    IF ready \/ t.urgent \/ setting.community = "crypto" THEN {0}
    ELSE IF setting.community = "hobby" /\ ~t.objection THEN {1} ELSE {0, 1}

------------------------------------------------------------------------------
(* The reviewing worker.                                                   *)

\* What the dispatcher still needs of a review that has come to its end.
Finished == [NoReview EXCEPT !.stage = "complete", !.moment = review.moment, !.sends = review.sends]

Text == Len(inbox)
Kind == inbox[Len(inbox)]

WriteText(k) ==
    /\ Len(inbox) < MaxTexts
    /\ inbox' = Append(inbox, k)
    /\ thread' = [thread EXCEPT !.attempts = 0]
    /\ UNCHANGED <<setting, review, answered, replies, review_deaths, severed, lead>>

\* The newest text, or the silence after a reply to it.
ClaimMoment ==
    /\ review.stage = "none" /\ Text > 0
    /\ Cardinality(answered) + review_deaths < MaxReviews
    /\ \E kind \in {"inbound", "follow_up"} :
         LET m == [kind |-> kind, text |-> Text,
                   attempt |-> IF kind = "inbound" THEN 0 ELSE thread.attempts] IN
         /\ m \notin answered
         /\ kind = "follow_up" =>
              /\ [kind |-> "inbound", text |-> Text, attempt |-> 0] \in answered
              /\ \E i \in DOMAIN replies : replies[i].state = "sent" /\ replies[i].moment.text = Text
         /\ review' = [NoReview EXCEPT !.stage = "triage", !.moment = m]
    /\ UNCHANGED <<setting, inbox, thread, answered, replies, review_deaths, severed, lead>>

\* triage_review: the model's judgement or the rules', saved; what is not promoted is done.
Triage ==
    /\ review.stage = "triage"
    /\ \E t \in ModelTriages \cup {FallbackTriage(Kind)}, by_rules \in BOOLEAN :
         /\ IF by_rules THEN t = FallbackTriage(Kind) ELSE t \in ModelTriages
         /\ thread' = [thread EXCEPT !.triage = t,
                         !.triaged = IF by_rules THEN Text ELSE 0]
         /\ review' = IF t.promoted THEN [review EXCEPT !.stage = "review"] ELSE Finished
    /\ UNCHANGED <<setting, inbox, answered, replies, review_deaths, severed, lead>>

\* review and proposal_from_review: the context is built again, from the newest text and
\* the stored triage.
Review ==
    /\ review.stage = "review"
    /\ \E risk \in Risks, facts \in BOOLEAN, v \in Verdicts :
         /\ \/ v = FallbackVerdict(Kind, risk, facts)
            \/ facts                                   \* the model's verdict: any
         /\ review' = [review EXCEPT !.stage = "record", !.text = Text,
                         !.by_rules = thread.triaged = Text,
                         !.sends = v.decision \in Sending, !.ready = v.ready,
                         !.risky = v.risky \/ risk = "restricted"]
    /\ UNCHANGED <<setting, inbox, thread, answered, replies, review_deaths, severed, lead>>

\* The model escalates without giving a reason: EngagementBrainReview raises, the claim stays.
ReviewRaises ==
    /\ review.stage = "review" /\ review_deaths < MaxReviewDeaths
    /\ review_deaths' = review_deaths + 1
    /\ review' = NoReview /\ lead' = FALSE
    /\ severed' = severed \cup {review.moment}
    /\ UNCHANGED <<setting, inbox, thread, answered, replies>>

\* record_proposal: target says whether a conversion target is set.
RecordProposal ==
    /\ review.stage = "record"
    /\ \E target \in BOOLEAN :
         /\ thread' = [thread EXCEPT !.handoff =
                         IF ~review.ready THEN "none"
                         ELSE IF target THEN "ready" ELSE "clarification_required"]
         /\ review' = IF review.sends
                       THEN [review EXCEPT !.stage = "authorize", !.handoff = review.ready /\ target]
                       ELSE Finished
    /\ UNCHANGED <<setting, inbox, answered, replies, review_deaths, severed, lead>>

\* Mutant: nobody is told that the handoff did not happen.
LeftAsItIs == thread
\* _mark_handoff_blocked_if_needed.
Refused == [thread EXCEPT !.handoff = IF review.handoff THEN "blocked" ELSE @]

\* authorize and evaluate_policy: what is risky is held for the operator, and so is
\* anything when the posture or the live policy says so.
Authorize ==
    /\ review.stage = "authorize"
    /\ \/ /\ thread' = Refused
          /\ review' = Finished
       \/ /\ ~review.risky
          /\ review' = [review EXCEPT !.stage = "plan", !.risky = FALSE]
          /\ UNCHANGED thread
    /\ UNCHANGED <<setting, inbox, answered, replies, review_deaths, severed, lead>>

\* plan_reply, with the triage of the context, at whatever time of the day.
PlanReply ==
    /\ review.stage = "plan"
    /\ \/ /\ Suppressed(thread.triage, review.moment, review.ready)
          /\ thread' = Refused
          /\ review' = Finished
       \/ /\ ~Suppressed(thread.triage, review.moment, review.ready)
          /\ \E now \in 0..MaxSlot, d \in Delays(thread.triage, review.ready) :
               \E due \in ShiftedOut(now + d, setting.quiet) :
                 review' = [review EXCEPT !.stage = "enqueue", !.planned = now, !.due = due]
          /\ UNCHANGED thread
    /\ UNCHANGED <<setting, inbox, answered, replies, review_deaths, severed, lead>>

\* enqueue_action: the idempotency key names the moment and the draft.
EnqueueReply ==
    /\ review.stage = "enqueue"
    /\ \/ replies' = Append(replies, [moment |-> review.moment, text |-> review.text,
                                      by_rules |-> review.by_rules,
                                      handoff |-> review.handoff, state |-> "queued"])
       \/ /\ \E i \in DOMAIN replies : replies[i].moment = review.moment
          /\ UNCHANGED replies
    /\ review' = Finished
    /\ UNCHANGED <<setting, inbox, thread, answered, review_deaths, severed, lead>>

CompleteReview ==
    /\ review.stage = "complete"
    /\ answered' = answered \cup {review.moment}
    /\ lead' = (review.sends /\ review.moment \notin severed)
    /\ review' = NoReview
    /\ UNCHANGED <<setting, inbox, thread, replies, review_deaths, severed>>

ReviewerDies ==
    /\ review.stage # "none" /\ review_deaths < MaxReviewDeaths
    /\ review_deaths' = review_deaths + 1
    /\ review' = NoReview /\ lead' = FALSE
    /\ severed' = severed \cup {review.moment}
    /\ UNCHANGED <<setting, inbox, thread, answered, replies>>

------------------------------------------------------------------------------
(* The live-execution worker.                                              *)

\* A reply is attempted once it is due, sooner or later: LiveExecution has the clock.
IsQueued(r) == r.state = "queued"
Ended(i, state) == [replies EXCEPT ![i].state = state]
\* _record_delivered_handoff and its siblings, for a reply that carries a handoff.
Handed(r, status) == [thread EXCEPT !.handoff = IF r.handoff THEN status ELSE @]

HandOver(i) ==
    /\ IsQueued(replies[i])
    /\ replies' = Ended(i, "sent")
    /\ thread' = [Handed(replies[i], "delivered") EXCEPT
                    !.attempts = IF replies[i].moment.kind = "follow_up" THEN @ + 1 ELSE @]
    /\ UNCHANGED <<setting, inbox, review, answered, review_deaths, severed, lead>>

\* The policy or Telegram refuses it, or it fails for good.
GiveUp(i) ==
    /\ IsQueued(replies[i])
    /\ replies' = Ended(i, "given_up")
    /\ \E status \in {"blocked", "failed"} : thread' = Handed(replies[i], status)
    /\ UNCHANGED <<setting, inbox, review, answered, review_deaths, severed, lead>>

\* A failure that may be retried leaves it in the queue; after the last retry the action
\* fails, and the handoff is not told.
RunOutOfRetries(i) ==
    /\ IsQueued(replies[i])
    /\ replies' = Ended(i, "exhausted")
    /\ UNCHANGED <<setting, inbox, thread, review, answered, review_deaths, severed, lead>>

------------------------------------------------------------------------------
PipelineInit ==
    /\ setting \in Settings
    /\ inbox = <<>>
    /\ thread = [triage |-> NoTriage, triaged |-> 0, handoff |-> "none", attempts |-> 0]
    /\ review = NoReview /\ answered = {} /\ replies = <<>>
    /\ review_deaths = 0 /\ severed = {} /\ lead = FALSE

PipelineNext ==
    \/ \E k \in TextKinds : WriteText(k)
    \/ ClaimMoment \/ Triage \/ Review \/ ReviewRaises \/ RecordProposal
    \/ Authorize \/ PlanReply \/ EnqueueReply \/ CompleteReview \/ ReviewerDies
    \/ \E i \in DOMAIN replies : HandOver(i) \/ GiveUp(i) \/ RunOutOfRetries(i)

PipelineSpec == PipelineInit /\ [][PipelineNext]_pipeline_vars

------------------------------------------------------------------------------
PipelineTypeOK ==
    /\ inbox \in Seq(TextKinds) /\ Len(inbox) <= MaxTexts
    /\ thread.triage \in Triages /\ thread.triaged \in 0..MaxTexts
    /\ thread.handoff \in HandoffStatus /\ thread.attempts \in Nat
    /\ review.stage \in ReviewStages /\ review.moment \in ReplyMoments /\ review.due \in Nat
    /\ answered \subseteq ReplyMoments /\ severed \subseteq ReplyMoments
    /\ \A i \in DOMAIN replies :
         /\ replies[i].moment \in ReplyMoments
         /\ replies[i].state \in {"queued", "sent", "given_up", "exhausted"}
    /\ lead \in BOOLEAN

\* Nobody who was found hostile by the rules is answered by the brain, however interested
\* the text also reads and whatever the later review makes of it: unless a newer text came
\* between the triage and the review (the review then answers the newer text with the older
\* triage) or the language model judged it.
HostileGoesUnanswered ==
    \A i \in DOMAIN replies :
        replies[i].by_rules => inbox[replies[i].text] \notin Hostile

\* A reply is planned for a waking hour and not for the past, on whichever side of midnight
\* the quiet hours begin.
PlannedAwake ==
    review.stage = "enqueue" =>
        review.due >= review.planned /\ ~IsQuiet(review.due, setting.quiet)

\* An automatic reply goes to somebody who may want one, at an hour it may be read.
RepliesAreWelcome == HostileGoesUnanswered /\ PlannedAwake

\* A lead on record as ready, whose last review proposed a reply and was not cut off, has
\* a reply carrying the handoff in the queue, or one that ran out of retries: no refusal on
\* the way leaves it ready with nothing to come.
ReadyLeadIsCarried ==
    review.stage = "none" /\ lead /\ thread.handoff = "ready" =>
        \E i \in DOMAIN replies : replies[i].handoff /\ replies[i].state \in {"queued", "exhausted"}
=============================================================================
