--------------------------- MODULE CampaignPlanning ---------------------------
(***************************************************************************)
(* Planning work of a campaign: shortlist, strategy, account plan          *)
(* (handle_turn of telegram_app/orchestrator, work_items, the artifacts of *)
(* sessions and campaign_memory).                                          *)
(*                                                                         *)
(* The bot takes the operator's messages one at a time.  A message is      *)
(* routed to a work item: one in review is approved or reopened, any other *)
(* is worked on by its agent, which takes a while, saves an artifact in    *)
(* the session and asks for review.  Approval leads on to the next kind of *)
(* work.  Meanwhile the scheduler's process runs the same agents on the    *)
(* artifacts in the campaign's files, which the bot overwrites with those  *)
(* of the session before and after every message.                          *)
(*                                                                         *)
(* Updates of work-items.json are atomic here; Scheduler models what       *)
(* happens to a file two processes rewrite.                                *)
(***************************************************************************)
EXTENDS Naturals, Sequences, FiniteSets

CONSTANTS
    Schedule, NoSchedule,  \* recurring planning work, and work that is not
    ScheduledKind,         \* [Schedule -> Kind]
    Advice,                \* Advice[k]: what k's agent may recommend to do next, other
                           \* than the usual: kinds, or Hold
    Hold,
    MaxTurns, MaxRuns,     \* bounds: messages, scheduled runs
    MaxFailures            \* bound: turns and runs that raise or die

Kind == {"discovery", "strategy", "account_planning"}
Status == {"in_progress", "review_pending", "escalated", "completed"}

ASSUME PlanningConstantsOK ==
    /\ NoSchedule \notin Schedule /\ ScheduledKind \in [Schedule -> Kind]
    /\ Hold \notin Kind /\ Advice \in [Kind -> SUBSET (Kind \cup {Hold})]
    /\ MaxTurns \in Nat /\ MaxRuns \in Nat /\ MaxFailures \in Nat

VARIABLES
    clock,         \* updated_at: every write of an item or artifact is later
    session,       \* the session's artifact of a kind: when it was saved, or 0
    files,         \* the same in the campaign's files
    items,         \* work-items.json
    stage,         \* the workflow snapshot: kind, and "approved in chat"
    turn,          \* the agent the bot is waiting for
    run,           \* the agent the scheduler is waiting for
    batch,         \* the account plan of the active prepared batch, or 0
    turns, runs_made, failures,
    approved_at    \* history: when a draft of a kind was last approved

planning_vars == <<clock, session, files, items, stage, turn, run, batch, turns,
                   runs_made, failures, approved_at>>

NoAgent == [kind |-> "none", item |-> 0]
Item(kind, schedule, status, t) ==
    [kind |-> kind, schedule |-> schedule, status |-> status, updated |-> t, draft |-> 0]

IsOpen(item) == item.status # "completed"
Open(all) == {i \in DOMAIN all : IsOpen(all[i])}
InReview(all) == {i \in DOMAIN all : all[i].status = "review_pending"}
OfKind(all, k) == {i \in DOMAIN all : all[i].kind = k}
Newest(all, ids) == CHOOSE i \in ids : \A j \in ids : all[j].updated <= all[i].updated

------------------------------------------------------------------------------
(* work_items.                                                             *)

\* ensure_work_item: the open item of the slot is touched and keeps its status.
Slot(all, k, s) == {i \in Open(all) : all[i].kind = k /\ all[i].schedule = s}
Ensured(all, k, s, status, t) ==
    IF Slot(all, k, s) = {} THEN Append(all, Item(k, s, status, t))
    ELSE [all EXCEPT ![Newest(all, Slot(all, k, s))].updated = t]

\* find_latest, whatever its status and whether or not it has a schedule.
Latest(all, k) == Newest(all, OfKind(all, k))

WithStatus(all, i, status, t) == [all EXCEPT ![i].status = status, ![i].updated = t]

\* work.refresh: ensure_work_item, then update_status if the status differs.
Refreshed(all, k, t) ==
    LET ensured == Ensured(all, k, NoSchedule, "in_progress", t)
        i == Newest(ensured, Slot(ensured, k, NoSchedule))
    IN  IF ensured[i].status = "in_progress" THEN ensured
        ELSE WithStatus(ensured, i, "in_progress", t)

------------------------------------------------------------------------------
(* Routing.                                                                *)

\* Items opened in chat have priority HIGH, those of schedules a lower one.
Priority(item) == IF item.schedule = NoSchedule THEN 3 ELSE 2
StatusRank(item) == CASE item.status = "review_pending" -> 3
                      [] item.status = "in_progress" -> 2
                      [] OTHER -> 0
Outranks(a, b) ==
    \/ Priority(a) > Priority(b)
    \/ /\ Priority(a) = Priority(b)
       /\ \/ StatusRank(a) > StatusRank(b)
          \/ StatusRank(a) = StatusRank(b) /\ a.updated >= b.updated
Foremost(all, ids) == CHOOSE i \in ids : \A j \in ids : Outranks(all[i], all[j])

\* Without open work the item of the stage is opened again, for review if there is
\* anything to review.
Backfilled ==
    IF Open(items) # {} THEN items
    ELSE Append(items, Item(stage.kind, NoSchedule,
                            IF session[stage.kind] # 0 THEN "review_pending" ELSE "in_progress",
                            clock + 1))
Route == IF InReview(Backfilled) # {} THEN Foremost(Backfilled, InReview(Backfilled))
         ELSE Foremost(Backfilled, Open(Backfilled))
RoutedKind == Backfilled[Route].kind
RoutedToReview == Backfilled[Route].status = "review_pending"

------------------------------------------------------------------------------
(* The bot: one message after the other.                                   *)

\* The session is synced to the files before the message is handled.
Message ==
    /\ turn = NoAgent /\ turns < MaxTurns
    /\ turns' = turns + 1 /\ files' = session
    /\ clock' = clock + 3

\* Mutant: only a missing artifact is a reason.
NeedsRefreshIfMissing(all, k, n) == OfKind(all, n) = {} \/ session[n] = 0
\* _follow_on_work_needs_refresh.
NeedsRefresh(all, k, n) ==
    \/ OfKind(all, n) = {}
    \/ all[Latest(all, n)].status \in {"in_progress", "escalated"}
    \/ session[k] = 0 \/ session[n] = 0 \/ session[n] < session[k]

\* A recommendation replaces the usual follow-on, discovery - strategy - account_planning.
FollowOn(k) == CASE k = "discovery" -> "strategy"
                 [] k = "strategy" -> "account_planning"
                 [] OTHER -> Hold
Recommended(k) == {FollowOn(k)} \cup Advice[k]

\* _continue_planning_after_review_approval, once the item is completed.
Continue(done, k, n) ==
    IF n = Hold
    THEN items' = done /\ stage' = stage /\ turn' = NoAgent
    ELSE /\ stage' = [kind |-> n, approved |-> FALSE]
         /\ IF NeedsRefresh(done, k, n)
            THEN LET next == Refreshed(done, n, clock + 3)
                 IN  /\ items' = next
                     /\ turn' = IF n = "discovery" THEN NoAgent
                                ELSE [kind |-> n, item |-> Latest(next, n)]
            ELSE items' = done /\ turn' = NoAgent

\* _complete_stage_work_item completes the latest item of the kind, which need not be
\* the one in review.
StageCompleted(all, k) == WithStatus(all, Latest(all, k), "completed", clock + 2)

Approve ==
    /\ Message /\ RoutedToReview
    /\ LET k == RoutedKind
           done == StageCompleted(Backfilled, k)
       IN  /\ approved_at' = [approved_at EXCEPT ![k] = clock]
           /\ IF k = "account_planning"
              THEN /\ items' = done /\ turn' = NoAgent
                   /\ stage' = [kind |-> k, approved |-> TRUE]
              ELSE \E n \in Recommended(k) : Continue(done, k, n)
    /\ UNCHANGED <<session, run, batch, runs_made, failures>>

\* _reopen_stage_work_item loses the schedule: work is taken up, or opened, without one.
Revise ==
    /\ Message /\ RoutedToReview
    /\ items' = Refreshed(Backfilled, RoutedKind, clock + 2)
    /\ turn' = [kind |-> RoutedKind, item |-> Newest(items', Slot(items', RoutedKind, NoSchedule))]
    /\ UNCHANGED <<session, stage, run, batch, runs_made, failures, approved_at>>

\* An answer that is neither is asked again.
AskAgain ==
    /\ Message /\ RoutedToReview
    /\ items' = Backfilled
    /\ UNCHANGED <<session, stage, turn, run, batch, runs_made, failures, approved_at>>

Work ==
    /\ Message /\ ~RoutedToReview
    /\ items' = Backfilled
    /\ turn' = [kind |-> RoutedKind, item |-> Route]
    /\ UNCHANGED <<session, stage, run, batch, runs_made, failures, approved_at>>

\* Mutant: any approval counts.
ApprovedOnce(plan) == \E i \in OfKind(items, "account_planning") : items[i].status = "completed"
\* _latest_plan_is_approved.
IsApproved(plan) ==
    LET done == {i \in OfKind(items, "account_planning") : items[i].status = "completed"}
    IN  IF done = {} THEN stage.approved ELSE items[Newest(items, done)].updated >= plan

\* Messages that ask for activation are not routed.
Activate ==
    /\ Message
    /\ LET plan == session["account_planning"]
       IN  IF plan # 0 /\ IsApproved(plan)
           THEN /\ batch' = plan
                /\ stage' = [kind |-> "account_planning", approved |-> FALSE]
           ELSE UNCHANGED <<batch, stage>>
    /\ UNCHANGED <<session, items, turn, run, runs_made, failures, approved_at>>

\* The agent of a turn: its artifact is saved in the session, a plan that is no longer
\* the latest loses its batch, and the item goes into review.
SaveDraft ==
    session' = [session EXCEPT ![turn.kind] = clock + 1]

\* Mutant: a draft counts as accepted.
MarkAccepted(i) ==
    [items EXCEPT ![i] = [@ EXCEPT !.status = "completed", !.updated = clock + 2,
                                   !.draft = session'[turn.kind]]]
MarkReviewPending(i) ==
    [items EXCEPT ![i] = [@ EXCEPT !.status = "review_pending", !.updated = clock + 2,
                                   !.draft = session'[turn.kind]]]

\* Mutant: a revised plan leaves the batch alone.
BatchStays(k) == batch
\* _invalidate_prepared_execution_for_latest_plan.
BatchAfter(k) == IF k = "account_planning" THEN 0 ELSE batch

AgentSaves ==
    /\ turn # NoAgent
    /\ SaveDraft /\ files' = session'
    /\ items' = MarkReviewPending(turn.item)
    /\ stage' = [kind |-> turn.kind, approved |-> FALSE]
    /\ batch' = BatchAfter(turn.kind)
    /\ turn' = NoAgent /\ clock' = clock + 3
    /\ UNCHANGED <<run, turns, runs_made, failures, approved_at>>

\* An answer that yields no artifact; discovery asks for review all the same.
AgentSavesNothing ==
    /\ turn # NoAgent /\ files' = session
    /\ items' = IF turn.kind = "discovery"
                THEN WithStatus(items, turn.item, "review_pending", clock + 2) ELSE items
    /\ turn' = NoAgent /\ clock' = clock + 3
    /\ UNCHANGED <<session, stage, run, batch, turns, runs_made, failures, approved_at>>

\* The agent raises, or the bot dies, before or after the artifact is saved.
TurnFails ==
    /\ turn # NoAgent /\ failures < MaxFailures
    /\ SaveDraft \/ UNCHANGED session
    /\ turn' = NoAgent /\ failures' = failures + 1 /\ clock' = clock + 3
    /\ UNCHANGED <<files, items, stage, run, batch, turns, runs_made, approved_at>>

------------------------------------------------------------------------------
(* The scheduler's process: handle_scheduled_work.                         *)

RunBegins(s) ==
    /\ run = NoAgent /\ runs_made < MaxRuns
    /\ runs_made' = runs_made + 1
    /\ items' = Ensured(items, ScheduledKind[s], s, "in_progress", clock + 1)
    /\ run' = [kind |-> ScheduledKind[s],
               item |-> Newest(items', Slot(items', ScheduledKind[s], s))]
    /\ clock' = clock + 3
    /\ UNCHANGED <<session, files, stage, turn, batch, turns, failures, approved_at>>

\* persist_generated_artifact: the files as they are now, with the new artifact.
RunSaves ==
    /\ run # NoAgent
    /\ files' = [files EXCEPT ![run.kind] = clock + 1]
    /\ items' = [items EXCEPT ![run.item] = [@ EXCEPT !.status = "review_pending",
                                                      !.updated = clock + 2, !.draft = clock + 1]]
    /\ run' = NoAgent /\ clock' = clock + 3
    /\ UNCHANGED <<session, stage, turn, batch, turns, runs_made, failures, approved_at>>

\* The agent saves nothing, or raises.
RunEscalates ==
    /\ run # NoAgent
    /\ items' = WithStatus(items, run.item, "escalated", clock + 2)
    /\ run' = NoAgent /\ clock' = clock + 3
    /\ UNCHANGED <<session, files, stage, turn, batch, turns, runs_made, failures,
                   approved_at>>

RunDies ==
    /\ run # NoAgent /\ failures < MaxFailures
    /\ run' = NoAgent /\ failures' = failures + 1
    /\ UNCHANGED <<clock, session, files, items, stage, turn, batch, turns, runs_made,
                   approved_at>>

------------------------------------------------------------------------------
\* Intake is over: the brief is in the session, and discovery is the first stage.
PlanningInit ==
    /\ clock = 0 /\ session = [k \in Kind |-> 0] /\ files = session /\ items = <<>>
    /\ stage = [kind |-> "discovery", approved |-> FALSE]
    /\ turn = NoAgent /\ run = NoAgent /\ batch = 0
    /\ turns = 0 /\ runs_made = 0 /\ failures = 0
    /\ approved_at = [k \in Kind |-> 0]

PlanningNext ==
    \/ Approve \/ Revise \/ AskAgain \/ Work \/ Activate
    \/ AgentSaves \/ AgentSavesNothing \/ TurnFails
    \/ \E s \in Schedule : RunBegins(s)
    \/ RunSaves \/ RunEscalates \/ RunDies

PlanningSpec == PlanningInit /\ [][PlanningNext]_planning_vars

------------------------------------------------------------------------------
PlanningTypeOK ==
    /\ clock \in Nat /\ session \in [Kind -> Nat] /\ files \in [Kind -> Nat]
    /\ items \in Seq([kind : Kind, schedule : Schedule \cup {NoSchedule}, status : Status,
                      updated : Nat, draft : Nat])
    /\ stage \in [kind : Kind, approved : BOOLEAN]
    /\ \A agent \in {turn, run} :
         agent = NoAgent \/ (agent.kind \in Kind /\ agent.item \in DOMAIN items)
    /\ batch \in Nat /\ turns \in 0..MaxTurns /\ runs_made \in 0..MaxRuns
    /\ failures \in 0..MaxFailures

\* However messages, revisions and scheduled runs interleave, a plan is activated only
\* if the operator has approved since it was saved.  A failure makes an exception: a
\* turn cut off after it had saved a plan leaves "approved in chat" in the snapshot,
\* which counts when no account planning is completed.
ActivatedWasApproved ==
    [][failures = 0 /\ batch' \notin {0, batch}
         => approved_at["account_planning"] > session["account_planning"]]_planning_vars

\* The active batch is that of the session's plan, unless a turn was cut off after it
\* had saved a new one.
BatchIsCurrent == batch # 0 /\ failures = 0 => batch = session["account_planning"]

\* A draft nobody has approved has an open item that will bring it up again, also
\* after a turn that failed.
NoDraftForgotten ==
    \A k \in Kind :
      session[k] > approved_at[k] => \E i \in Open(items) : items[i].kind = k

\* No closed work is left whose follow-on work is neither newer nor open nor approved
\* since, unless the agents advise to go on elsewhere.  (That approval may have been
\* given to the outcome of a schedule: completing the latest item closes follow-on
\* work nobody has done.)
ChainKept ==
    turn = NoAgent =>
      \A k \in {"discovery", "strategy"} :
        Advice[k] = {} /\ session[k] # 0 /\ OfKind(items, k) \cap Open(items) = {}
          => \/ session[FollowOn(k)] > session[k] \/ approved_at[FollowOn(k)] > session[k]
             \/ \E i \in Open(items) : items[i].kind = FollowOn(k)
=============================================================================
