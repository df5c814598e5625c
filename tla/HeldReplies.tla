------------------------------ MODULE HeldReplies ------------------------------
(***************************************************************************)
(* Replies of one conversation between the engagement brain and the        *)
(* operator (telegram_app/autonomous_send, the sending half of             *)
(* engagement_brain/coordinator, live_ops and compiled_intents).           *)
(*                                                                         *)
(* A review worker queues the reply it drafted or holds it for the         *)
(* operator; the bot process carries out the operator's commands, each     *)
(* one kept as a compiled intent.  Reviews, conversation, posture, intents *)
(* and the queue are files of their own: every save is a step, and either  *)
(* process may die between two.                                            *)
(***************************************************************************)
EXTENDS Naturals, FiniteSets

CONSTANTS
    Drafts,          \* what the language model may write
    MaxEvents,       \* bound: inbound events
    MaxCommands,     \* bound: commands of the operator
    MaxHeldDeaths    \* bound: deaths of the worker and of the bot

ASSUME HeldConstantsOK ==
    /\ MaxEvents \in Nat \ {0} /\ MaxCommands \in Nat /\ MaxHeldDeaths \in Nat

Moments == {"inbound", "follow_up"} \X (1..MaxEvents)   \* review triggers
ReviewIds == [moment : Moments, draft : Drafts]         \* a context fingerprint
NoHeldReview == [moment |-> <<"inbound", 0>>, draft |-> 0]
Families == {"dm_reply", "group_outreach"}
Modes == {"manual_only", "autonomous_allowed"}
ReviewStatus == {"absent", "pending", "materialized", "dismissed", "superseded"}
IntentStatus == {"proposed", "accepted", "applied"}

VARIABLES
    last_event,      \* the conversation's last_event_id
    pending_link,    \* its pending_autonomous_review_id
    posture,         \* posture.json: the mode of each family of sends
    held,            \* reviews.json: the status of each review
    sends,           \* live actions queued: who queued which draft for which moment
    reviewed,        \* triggers whose review is complete
    worker,          \* the review under way
    command,         \* the operator's message in work, redelivered until it is marked processed
    bot,             \* how far the bot is with it: stage and intent status
    commands, held_deaths,
    said_dismissed,  \* history: reviews the operator was told are dismissed
    cut_moments,     \* history: moments somebody died over
    crossed,         \* history: reviews resolved while the worker was about to link them
    unasked          \* history: automatic sends since the operator forbade them

held_vars == <<last_event, pending_link, posture, held, sends, reviewed, worker, command, bot,
               commands, held_deaths, said_dismissed, cut_moments, crossed, unasked>>
world_vars == <<last_event, reviewed>>
worker_history == <<commands, held_deaths, said_dismissed, cut_moments, crossed>>

NoWork == [stage |-> "none", moment |-> <<"inbound", 0>>, draft |-> 0]
NoCommand == [kind |-> "none", review |-> NoHeldReview, mode |-> "manual_only"]
BotIdle == [stage |-> "none", intent |-> "proposed"]
\* Mutant: what is already resolved gives way like what is pending.
AllHeld == {r \in ReviewIds : held[r] # "absent"}
Pending == {r \in ReviewIds : held[r] = "pending"}
Draft(w) == [moment |-> w.moment, draft |-> w.draft]

------------------------------------------------------------------------------
(* The conversation and its reviews.                                       *)

ReceiveEvent ==
    /\ last_event < MaxEvents
    /\ last_event' = last_event + 1
    /\ UNCHANGED <<pending_link, posture, held, sends, reviewed, worker, command, bot, unasked>>
    /\ UNCHANGED worker_history

\* The claimed trigger, the context and the model's answer: nothing to send, or a draft.
ReviewConversation ==
    /\ worker.stage = "none"
    /\ \E kind \in {"inbound", "follow_up"} :
         LET m == <<kind, last_event>> IN
         /\ m \notin reviewed
         /\ kind = "follow_up" => <<"inbound", last_event>> \in reviewed
         /\ \/ worker' = [NoWork EXCEPT !.stage = "unlink", !.moment = m]
            \/ \E d \in Drafts : worker' = [stage |-> "authorize", moment |-> m, draft |-> d]
    /\ UNCHANGED <<pending_link, posture, held, sends, command, bot, unasked>>
    /\ UNCHANGED world_vars /\ UNCHANGED worker_history

\* Mutant: the mode of group outreach is used for every family.
OutreachMode == posture["group_outreach"]
\* mode_for_action, for the replies of this conversation.
Mode == posture["dm_reply"]

\* authorize: a forbidden or risky reply is held; a review saved before under the same
\* fingerprint is pending again.
Hold ==
    /\ worker.stage = "authorize"
    /\ \/ Mode = "manual_only"
       \/ Mode = "autonomous_allowed"        \* restricted community or high risk
    /\ held' = [held EXCEPT ![Draft(worker)] = "pending"]
    /\ worker' = [worker EXCEPT !.stage = "link"]
    /\ said_dismissed' = said_dismissed \ {Draft(worker)}
    /\ UNCHANGED <<pending_link, posture, sends, command, bot, unasked, commands, held_deaths,
                   cut_moments, crossed>>
    /\ UNCHANGED world_vars

\* authorize: what is held for this conversation gives way to an automatic reply.
Supersede ==
    /\ worker.stage = "authorize" /\ Mode = "autonomous_allowed"
    /\ held' = [r \in ReviewIds |-> IF r \in Pending THEN "superseded" ELSE held[r]]
    /\ worker' = [worker EXCEPT !.stage = "send"]
    /\ UNCHANGED <<pending_link, posture, sends, command, bot, unasked>>
    /\ UNCHANGED world_vars /\ UNCHANGED worker_history

LinkReview ==
    /\ worker.stage = "link"
    /\ pending_link' = Draft(worker)
    /\ worker' = NoWork
    /\ reviewed' = reviewed \cup {worker.moment}
    /\ UNCHANGED <<last_event, posture, held, sends, command, bot, unasked>>
    /\ UNCHANGED worker_history

\* The live policy or the reply timing may still refuse it; the idempotency key names
\* trigger and draft.
SendOrHoldBack ==
    /\ worker.stage = "send"
    /\ worker' = [worker EXCEPT !.stage = "unlink"]
    /\ \/ UNCHANGED <<sends, unasked>>
       \/ /\ sends' = sends \cup {[by |-> "brain", reply |-> Draft(worker)]}
          /\ unasked' = IF posture["dm_reply"] = "manual_only" THEN unasked + 1 ELSE unasked
    /\ UNCHANGED <<pending_link, posture, held, command, bot>>
    /\ UNCHANGED world_vars /\ UNCHANGED worker_history

\* clear_pending_autonomous_review and the end of the review.
ClearLink ==
    /\ worker.stage = "unlink"
    /\ pending_link' = NoHeldReview
    /\ worker' = NoWork
    /\ reviewed' = reviewed \cup {worker.moment}
    /\ UNCHANGED <<last_event, posture, held, sends, command, bot, unasked>>
    /\ UNCHANGED worker_history

WorkerDies ==
    /\ worker.stage # "none" /\ held_deaths < MaxHeldDeaths
    /\ worker' = NoWork
    /\ held_deaths' = held_deaths + 1
    /\ cut_moments' = cut_moments \cup {worker.moment}
                       \cup {r.moment : r \in {pending_link}
                               \cap {x \in ReviewIds : worker.stage \in {"send", "unlink"}}}
    /\ UNCHANGED <<pending_link, posture, held, sends, command, bot, unasked, commands,
                   said_dismissed, crossed>>
    /\ UNCHANGED world_vars

------------------------------------------------------------------------------
(* The operator's commands.                                                *)

bot_frame == <<last_event, reviewed, worker, held_deaths, cut_moments>>

\* "approve it" or "dismiss it" means the only pending review, if there is one only.
Says ==
    /\ command = NoCommand /\ commands < MaxCommands
    /\ commands' = commands + 1
    /\ \/ \E kind \in {"approve", "dismiss"}, r \in {r \in ReviewIds : held[r] # "absent"} \cup {NoHeldReview} :
            command' = [NoCommand EXCEPT !.kind = kind, !.review = r]
       \/ \E mode \in Modes : command' = [NoCommand EXCEPT !.kind = "posture", !.mode = mode]
    /\ bot' = [stage |-> "propose", intent |-> "proposed"]
    /\ UNCHANGED <<pending_link, posture, held, sends, said_dismissed, crossed, unasked>>
    /\ UNCHANGED bot_frame

Named == IF command.kind # "posture" /\ command.review = NoHeldReview /\ Cardinality(Pending) = 1
         THEN CHOOSE r \in Pending : TRUE ELSE command.review

\* The intent is saved as proposed, validated (these always pass) and saved as accepted.
Validate ==
    /\ bot.stage = "propose"
    /\ command' = [command EXCEPT !.review = Named]
    /\ bot' = IF command.kind # "posture" /\ Named = NoHeldReview
              THEN [stage |-> "reply", intent |-> "applied"]
              ELSE [stage |-> command.kind, intent |-> "accepted"]
    /\ UNCHANGED <<pending_link, posture, held, sends, commands, said_dismissed, crossed, unasked>>
    /\ UNCHANGED bot_frame

IsHeld(r) == held[r] = "pending"
\* _build_review_fingerprint: the conversation has not moved since the draft.
Unmoved(r) == r.moment[2] = last_event

\* materialize_review, as far as its checks; a refusal is the text of an applied intent.
CheckApproval ==
    /\ bot.stage = "approve"
    /\ bot' = IF IsHeld(command.review) /\ Unmoved(command.review)
              THEN [bot EXCEPT !.stage = "enqueue"]
              ELSE [stage |-> "reply", intent |-> "applied"]
    /\ UNCHANGED <<pending_link, posture, held, sends, command, commands, said_dismissed, crossed,
                   unasked>>
    /\ UNCHANGED bot_frame

EnqueueApproved ==
    /\ bot.stage = "enqueue"
    /\ sends' = sends \cup {[by |-> "operator", reply |-> command.review]}
    /\ bot' = [bot EXCEPT !.stage = "materialize"]
    /\ UNCHANGED <<pending_link, posture, held, command, commands, said_dismissed, crossed,
                   unasked>>
    /\ UNCHANGED bot_frame

Crossed == crossed \cup {r \in {command.review} : worker.stage = "link" /\ Draft(worker) = r}

\* save_review writes the record as it was read, resolved.
Materialize ==
    /\ bot.stage = "materialize"
    /\ held' = [held EXCEPT ![command.review] = "materialized"]
    /\ crossed' = Crossed
    /\ bot' = [bot EXCEPT !.stage = "clear"]
    /\ UNCHANGED <<pending_link, posture, sends, command, commands, said_dismissed, unasked>>
    /\ UNCHANGED bot_frame

\* dismiss_review.
Dismiss ==
    /\ bot.stage = "dismiss" /\ IsHeld(command.review)
    /\ held' = [held EXCEPT ![command.review] = "dismissed"]
    /\ crossed' = Crossed
    /\ bot' = [bot EXCEPT !.stage = "clear"]
    /\ UNCHANGED <<pending_link, posture, sends, command, commands, said_dismissed, unasked>>
    /\ UNCHANGED bot_frame

DismissNothing ==
    /\ bot.stage = "dismiss" /\ ~IsHeld(command.review)
    /\ bot' = [stage |-> "reply", intent |-> "applied"]
    /\ UNCHANGED <<pending_link, posture, held, sends, command, commands, said_dismissed, crossed,
                   unasked>>
    /\ UNCHANGED bot_frame

\* The conversation's link is cleared, whichever review it names.
ClearLinkForOperator ==
    /\ bot.stage = "clear"
    /\ pending_link' = NoHeldReview
    /\ said_dismissed' = IF command.kind = "dismiss" THEN said_dismissed \cup {command.review}
                         ELSE said_dismissed
    /\ bot' = [stage |-> "reply", intent |-> "applied"]
    /\ UNCHANGED <<posture, held, sends, command, commands, crossed, unasked>>
    /\ UNCHANGED bot_frame

SetPosture ==
    /\ bot.stage = "posture"
    /\ posture' = [posture EXCEPT !["dm_reply"] = command.mode]
    /\ unasked' = IF posture' = posture THEN unasked ELSE 0
    /\ bot' = [stage |-> "reply", intent |-> "applied"]
    /\ UNCHANGED <<pending_link, held, sends, command, commands, said_dismissed, crossed>>
    /\ UNCHANGED bot_frame

\* The intent is saved, the reply sent, the message marked as processed.
Reply ==
    /\ bot.stage = "reply"
    /\ bot' = BotIdle /\ command' = NoCommand
    /\ UNCHANGED <<pending_link, posture, held, sends, commands, said_dismissed, crossed, unasked>>
    /\ UNCHANGED bot_frame

\* The message is delivered again and compiled into a new intent.
HeldBotDies ==
    /\ bot.stage # "none" /\ held_deaths < MaxHeldDeaths
    /\ held_deaths' = held_deaths + 1
    /\ cut_moments' = IF command.review = NoHeldReview THEN cut_moments
                      ELSE cut_moments \cup {command.review.moment}
    /\ bot' = [stage |-> "propose", intent |-> "proposed"]
    /\ UNCHANGED <<last_event, pending_link, posture, held, sends, reviewed, worker, command,
                   commands, said_dismissed, crossed, unasked>>

------------------------------------------------------------------------------
HeldInit ==
    /\ last_event = 1 /\ pending_link = NoHeldReview
    /\ posture = [f \in Families |-> "autonomous_allowed"]
    /\ held = [r \in ReviewIds |-> "absent"] /\ sends = {} /\ reviewed = {}
    /\ worker = NoWork /\ command = NoCommand /\ bot = BotIdle
    /\ commands = 0 /\ held_deaths = 0
    /\ said_dismissed = {} /\ cut_moments = {} /\ crossed = {} /\ unasked = 0

HeldNext ==
    \/ ReceiveEvent \/ ReviewConversation \/ Hold \/ Supersede \/ LinkReview
    \/ SendOrHoldBack \/ ClearLink \/ WorkerDies
    \/ Says \/ Validate \/ CheckApproval \/ EnqueueApproved \/ Materialize
    \/ Dismiss \/ DismissNothing \/ ClearLinkForOperator \/ SetPosture \/ Reply \/ HeldBotDies

HeldSpec == HeldInit /\ [][HeldNext]_held_vars

------------------------------------------------------------------------------
HeldTypeOK ==
    /\ last_event \in 1..MaxEvents /\ pending_link \in ReviewIds \cup {NoHeldReview}
    /\ posture \in [Families -> Modes] /\ held \in [ReviewIds -> ReviewStatus]
    /\ sends \subseteq [by : {"brain", "operator"}, reply : ReviewIds]
    /\ reviewed \subseteq Moments
    /\ worker.stage \in {"none", "authorize", "link", "send", "unlink"}
    /\ command.kind \in {"none", "approve", "dismiss", "posture"}
    /\ bot.stage \in {"none", "propose", "approve", "enqueue", "materialize", "dismiss", "clear",
                      "posture", "reply"}
    /\ bot.intent \in IntentStatus
    /\ commands \in 0..MaxCommands /\ held_deaths \in 0..MaxHeldDeaths
    /\ said_dismissed \subseteq ReviewIds /\ unasked \in Nat

\* "Dismissed": the operator who was told so finds the draft in the queue only when the
\* bot died over its approval, or a review was repeated that the operator had approved.
DismissedStaysOut ==
    \A r \in said_dismissed :
      [by |-> "operator", reply |-> r] \in sends => r.moment \in cut_moments

\* Once replies to direct messages are manual, the review under way may still queue its
\* reply; no other one does, whoever dies.
PostureLeaksOneReply == unasked <= 1

\* What the conversation recommends for approval is pending, unless the operator resolved
\* it in the instant before the worker linked it, or somebody died over it.
LinkNamesPending ==
    pending_link # NoHeldReview =>
      \/ held[pending_link] = "pending"
      \/ pending_link \in crossed \/ pending_link.moment \in cut_moments
      \/ bot.stage = "clear" \/ worker.stage \in {"send", "unlink"}

\* What the operator has decided about a draft stands while the worker goes on with newer
\* moments, holds other drafts and lets held ones give way: a review that was dismissed or
\* approved does not come up again, unless somebody died over its moment.
DecisionsStand ==
    [][\A r \in ReviewIds :
         held[r] \in {"dismissed", "materialized"} /\ r.moment \notin cut_moments
           => held'[r] = held[r]]_held_vars

\* What the operator decided holds: a mode, a dismissal, and what is left to decide.
OperatorIsObeyed == PostureLeaksOneReply /\ DismissedStaysOut /\ LinkNamesPending
=============================================================================
