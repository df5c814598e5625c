----------------------------- MODULE OperatorAlerts -----------------------------
(***************************************************************************)
(* The state of a campaign's loop and the alerts it raises                 *)
(* (telegram_app/continuous_ops, operator_notifications and what           *)
(* app_service appends to its answers).                                    *)
(*                                                                         *)
(* The bot and a background process both recompute the state and reconcile *)
(* the alerts with it; the bot lists, marks and sends them.  The alerts    *)
(* are one file, read and written whole under a lock of one process only.  *)
(***************************************************************************)
EXTENDS Naturals, FiniteSets, Sequences

CONSTANTS
    MaxShown,         \* alerts one answer carries at most (3 in the code)
    MaxChanges,       \* bound: changes of what the state is derived from
    MaxRefreshes,     \* bound: recomputations
    MaxAnswers,       \* bound: answers to the operator
    MaxAlertDeaths    \* bound: deaths of the bot

ASSUME AlertConstantsOK ==
    /\ MaxShown \in Nat \ {0} /\ MaxChanges \in Nat /\ MaxRefreshes \in Nat
    /\ MaxAnswers \in Nat /\ MaxAlertDeaths \in Nat

Refreshers == {"bot", "background"}
Keys == {"operator-review-required", "auto-paused-schedule", "execution-capacity-risk",
         "campaign-loop-blocked"}
Bodies == {"none", "review 1", "review 2", "misses", "capacity", "escalated", "undriven"}
Situation == [paused : BOOLEAN, review : {"none", "review 1", "review 2"},
              schedule : {"active", "paused", "auto-paused"}, escalated : BOOLEAN, capacity : BOOLEAN]
LoopStatus == {"paused", "blocked", "running", "idle"}
AlertStatus == {"absent", "open", "acknowledged", "resolved"}
Alert == [status : AlertStatus, body : Bodies, changed : Nat, delivered : Nat]

VARIABLES
    situation,     \* campaign, latest observation review, schedule, work items, signals
    ops,           \* continuous_ops state file
    alerts,        \* interventions.json
    alert_clock,   \* the wall clock: it goes on whenever somebody looks
    refresher,     \* what each process is doing for a refresh
    answer,        \* the answer the bot is preparing
    changes, refreshes, answers, alert_deaths,
    seen,          \* history: the body of each alert the operator saw last
    slipped,       \* history: alerts that changed, or whose answer was cut, after listing
    overlapped     \* history: the last refresh ran into another one or into an answer's save

alert_vars == <<situation, ops, alerts, alert_clock, refresher, answer, changes, refreshes, answers,
                alert_deaths, seen, slipped, overlapped>>

NoAlerts == [k \in Keys |-> [status |-> "absent", body |-> "none", changed |-> 0, delivered |-> 0]]
NoDrafts == [k \in Keys |-> "none"]
Resting == [stage |-> "none", ops |-> [status |-> "idle", summary |-> "none", attention |-> FALSE],
            drafts |-> NoDrafts, now |-> 0, copy |-> NoAlerts]
NoAnswer == [stage |-> "none", listed |-> {}, now |-> 0, copy |-> NoAlerts, texts |-> NoDrafts]

------------------------------------------------------------------------------
(* ContinuousOpsManager._determine_status, with continuous autonomy.       *)

\* blocked_reasons, in their order; an open work item, an active schedule or a signal to
\* review drives the loop.
Reasons(s) ==
    (IF s.review # "none" THEN <<s.review>> ELSE <<>>)
      \o (IF s.escalated THEN <<"escalated">> ELSE <<>>)
      \o (IF s.schedule = "auto-paused" THEN <<"misses">> ELSE <<>>)
      \o (IF s.schedule # "active" /\ ~s.capacity THEN <<"undriven">> ELSE <<>>)

OpsState(s) ==
    IF s.paused THEN [status |-> "paused", summary |-> "none", attention |-> FALSE]
    ELSE IF Reasons(s) # <<>>
    THEN [status |-> "blocked", summary |-> Reasons(s)[1], attention |-> s.review # "none"]
    ELSE [status |-> IF s.schedule = "active" \/ s.capacity THEN "running" ELSE "idle",
          summary |-> "none", attention |-> FALSE]

\* Mutant: an escalated campaign counts on the schedule's own alert.
LoopBlockedUnlessPaused(o, s) == o.status = "blocked" /\ ~o.attention /\ s.schedule = "active"
\* _needs_loop_blocked_intervention.
LoopBlocked(o, s) == o.status = "blocked" /\ ~o.attention /\ s.schedule # "auto-paused"

\* _build_drafts: from a computed state, and from schedules and signals as they are now.
DraftsFor(o, s) == [k \in Keys |->
    CASE k = "operator-review-required" /\ o.attention -> o.summary
      [] k = "auto-paused-schedule" /\ s.schedule = "auto-paused" -> "misses"
      [] k = "execution-capacity-risk" /\ s.capacity -> "capacity"
      [] k = "campaign-loop-blocked" /\ LoopBlocked(o, s) -> o.summary
      [] OTHER -> "none"]

------------------------------------------------------------------------------
(* What the state is derived from changes.                                 *)

Change ==
    /\ changes < MaxChanges /\ changes' = changes + 1
    /\ \E s \in Situation :
         /\ Cardinality({f \in DOMAIN s : s[f] # situation[f]}) = 1
         /\ situation' = s
    /\ UNCHANGED <<ops, alerts, alert_clock, refresher, answer, refreshes, answers, alert_deaths,
                   seen, slipped, overlapped>>

------------------------------------------------------------------------------
(* refresh_for_campaign, of either process.                                *)

Recompute(p) ==
    /\ refresher[p].stage = "none" /\ refreshes < MaxRefreshes
    /\ p = "bot" => answer.stage = "none"
    /\ refreshes' = refreshes + 1
    /\ overlapped' = (\E q \in Refreshers : refresher[q].stage # "none")
    /\ ops' = OpsState(situation)
    /\ refresher' = [refresher EXCEPT ![p].stage = "draft", ![p].ops = OpsState(situation)]
    /\ UNCHANGED <<situation, alerts, alert_clock, answer, changes, answers, alert_deaths, seen,
                   slipped>>

DraftAlerts(p) ==
    /\ refresher[p].stage = "draft"
    /\ alert_clock' = alert_clock + 1
    /\ refresher' = [refresher EXCEPT ![p].stage = "load", ![p].now = alert_clock + 1,
                                      ![p].drafts = DraftsFor(refresher[p].ops, situation)]
    /\ UNCHANGED <<situation, ops, alerts, answer, changes, refreshes, answers, alert_deaths, seen,
                   slipped, overlapped>>

LoadAlerts(p) ==
    /\ refresher[p].stage = "load"
    /\ refresher' = [refresher EXCEPT ![p].stage = "save", ![p].copy = alerts]
    /\ UNCHANGED <<situation, ops, alerts, alert_clock, answer, changes, refreshes, answers,
                   alert_deaths, seen, slipped, overlapped>>

\* A draft makes a record, updates it, opens it again when it changed or had been
\* resolved; a record without a draft is resolved.
Reconciled(a, body, now) ==
    IF body = "none" THEN (IF a.status = "absent" THEN a ELSE [a EXCEPT !.status = "resolved"])
    ELSE IF a.status = "absent"
    THEN [status |-> "open", body |-> body, changed |-> now, delivered |-> 0]
    ELSE IF a.body = body /\ a.status # "resolved" THEN a
    ELSE [a EXCEPT !.status = "open", !.body = body, !.changed = now]

SaveAlerts(p) ==
    /\ refresher[p].stage = "save"
    /\ LET r == refresher[p] IN
         alerts' = [k \in Keys |-> Reconciled(r.copy[k], r.drafts[k], r.now)]
    /\ slipped' = slipped \cup {k \in Keys :
                      /\ alerts'[k] # alerts[k]
                      /\ \/ answer.stage # "none" \/ refresher[p].copy # alerts
                         \/ alerts[k].delivered > refresher[p].now}
    /\ refresher' = [refresher EXCEPT ![p] = Resting]
    /\ UNCHANGED <<situation, ops, alert_clock, answer, changes, refreshes, answers, alert_deaths,
                   seen, overlapped>>

------------------------------------------------------------------------------
(* The bot's answers.                                                      *)

Unresolved(k) == alerts[k].status = "open"
\* list_deliverable_for_campaign.
Deliverable(k) ==
    Unresolved(k) /\ (alerts[k].delivered = 0 \/ alerts[k].changed > alerts[k].delivered)

BotFree == answer.stage = "none" /\ refresher["bot"].stage = "none" /\ answers < MaxAnswers

List(keys) ==
    /\ answers' = answers + 1
    /\ answer' = [NoAnswer EXCEPT !.stage = "mark", !.listed = keys,
                                  !.texts = [k \in Keys |-> IF k \in keys THEN alerts[k].body ELSE "none"]]
    /\ UNCHANGED <<situation, ops, alerts, alert_clock, refresher, changes, refreshes, alert_deaths,
                   seen, slipped, overlapped>>

\* Any answer carries the first MaxShown deliverable alerts.
AppendAlerts ==
    /\ BotFree
    /\ \E keys \in SUBSET {k \in Keys : Deliverable(k)} :
         /\ keys # {}
         /\ \/ Cardinality(keys) = MaxShown
            \/ Cardinality(keys) < MaxShown /\ (\A k \in Keys : Deliverable(k) => k \in keys)
         /\ List(keys)

\* "show alerts", acknowledged ones too.
ShowAlerts ==
    /\ BotFree
    /\ LET keys == {k \in Keys : alerts[k].status \in {"open", "acknowledged"}} IN keys # {} /\ List(keys)

\* "ack alerts".
AcknowledgeAll ==
    /\ BotFree
    /\ answers' = answers + 1
    /\ answer' = [NoAnswer EXCEPT !.stage = "acknowledge", !.copy = alerts]
    /\ UNCHANGED <<situation, ops, alerts, alert_clock, refresher, changes, refreshes, alert_deaths,
                   seen, slipped, overlapped>>

SaveAcknowledged ==
    /\ answer.stage = "acknowledge"
    /\ alerts' = [k \in Keys |-> IF answer.copy[k].status = "open"
                                 THEN [answer.copy[k] EXCEPT !.status = "acknowledged"] ELSE answer.copy[k]]
    /\ slipped' = slipped \cup {k \in Keys : answer.copy[k] # alerts[k]}
    /\ overlapped' = (overlapped \/ answer.copy # alerts)
    /\ answer' = NoAnswer
    /\ UNCHANGED <<situation, ops, alert_clock, refresher, changes, refreshes, answers,
                   alert_deaths, seen>>

\* mark_delivered stamps what was listed, as it is by now.
MarkDelivered ==
    /\ answer.stage = "mark"
    /\ alert_clock' = alert_clock + 1
    /\ answer' = [answer EXCEPT !.stage = "save", !.now = alert_clock + 1, !.copy = alerts]
    /\ UNCHANGED <<situation, ops, alerts, refresher, changes, refreshes, answers, alert_deaths,
                   seen, slipped, overlapped>>

SaveDelivered ==
    /\ answer.stage = "save"
    /\ alerts' = [k \in Keys |-> IF k \in answer.listed
                                 THEN [answer.copy[k] EXCEPT !.delivered = answer.now] ELSE answer.copy[k]]
    /\ slipped' = slipped \cup {k \in Keys : answer.copy[k] # alerts[k]}
    /\ overlapped' = (overlapped \/ answer.copy # alerts)
    /\ answer' = [answer EXCEPT !.stage = "send", !.copy = NoAlerts]
    /\ UNCHANGED <<situation, ops, alert_clock, refresher, changes, refreshes, answers,
                   alert_deaths, seen>>

SendAnswer ==
    /\ answer.stage = "send"
    /\ seen' = [k \in Keys |-> IF k \in answer.listed THEN answer.texts[k] ELSE seen[k]]
    /\ answer' = NoAnswer
    /\ UNCHANGED <<situation, ops, alerts, alert_clock, refresher, changes, refreshes, answers,
                   alert_deaths, slipped, overlapped>>

\* The operator's message is delivered again, the alerts marked by then are not.
BotDiesAnswering ==
    /\ answer.stage # "none" /\ alert_deaths < MaxAlertDeaths
    /\ alert_deaths' = alert_deaths + 1
    /\ slipped' = slipped \cup answer.listed
    /\ answer' = NoAnswer
    /\ UNCHANGED <<situation, ops, alerts, alert_clock, refresher, changes, refreshes, answers,
                   seen, overlapped>>

------------------------------------------------------------------------------
AlertInit ==
    /\ situation = [paused |-> FALSE, review |-> "none", schedule |-> "active",
                    escalated |-> FALSE, capacity |-> FALSE]
    /\ ops = OpsState(situation) /\ alerts = NoAlerts /\ alert_clock = 0
    /\ refresher = [p \in Refreshers |-> Resting] /\ answer = NoAnswer
    /\ changes = 0 /\ refreshes = 0 /\ answers = 0 /\ alert_deaths = 0
    /\ seen = NoDrafts /\ slipped = {} /\ overlapped = FALSE

AlertNext ==
    \/ Change
    \/ \E p \in Refreshers : Recompute(p) \/ DraftAlerts(p) \/ LoadAlerts(p) \/ SaveAlerts(p)
    \/ AppendAlerts \/ ShowAlerts \/ AcknowledgeAll \/ SaveAcknowledged
    \/ MarkDelivered \/ SaveDelivered \/ SendAnswer \/ BotDiesAnswering

AlertSpec == AlertInit /\ [][AlertNext]_alert_vars

------------------------------------------------------------------------------
AlertTypeOK ==
    /\ situation \in Situation
    /\ ops \in [status : LoopStatus, summary : Bodies, attention : BOOLEAN]
    /\ alerts \in [Keys -> [status : AlertStatus, body : Bodies, changed : 0..alert_clock,
                            delivered : 0..alert_clock]]
    /\ \A p \in Refreshers : refresher[p].stage \in {"none", "draft", "load", "save"}
    /\ answer.stage \in {"none", "mark", "save", "send", "acknowledge"}
    /\ seen \in [Keys -> Bodies] /\ slipped \subseteq Keys /\ overlapped \in BOOLEAN
    /\ changes \in 0..MaxChanges /\ refreshes \in 0..MaxRefreshes
    /\ answers \in 0..MaxAnswers /\ alert_deaths \in 0..MaxAlertDeaths

\* "Not yet delivered in their current form": an open alert that is no longer deliverable
\* is one the operator has seen with its present text, unless it changed while the answer
\* was prepared, the file was written by two at a time, or the bot died on the way.
CurrentFormWasSeen ==
    \A k \in Keys :
      Unresolved(k) /\ ~Deliverable(k) /\ k \notin answer.listed /\ k \notin slipped
        => seen[k] = alerts[k].body

\* A campaign whose loop is stored as blocked has an unresolved alert, as soon as nobody
\* is refreshing and no two refreshes overlapped.
BlockedIsAnnounced ==
    ops.status = "blocked" /\ ~overlapped /\ (\A p \in Refreshers : refresher[p].stage = "none")
      => \E k \in Keys : alerts[k].status \in {"open", "acknowledged"}

\* The operator hears of every blocked loop, and of every alert in its present form.
OperatorIsTold == BlockedIsAnnounced /\ CurrentFormWasSeen
=============================================================================
