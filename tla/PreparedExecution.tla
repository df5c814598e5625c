--------------------------- MODULE PreparedExecution ---------------------------
(***************************************************************************)
(* Activation of an approved account plan (telegram_app/prepared_execution *)
(* and the compiled intent that invalidates prepared state).               *)
(*                                                                         *)
(* Activation puts the posts that are due into the live execution queue,   *)
(* then saves the batch, then its items.  A newer plan supersedes the      *)
(* batches of older ones and cancels what no worker has claimed.  Each     *)
(* save is a step, and the bot may die between any two.                    *)
(***************************************************************************)
EXTENDS Naturals, Sequences, FiniteSets

CONSTANTS
    Due, Later,     \* posts of a plan: with day_offset 0 and with a later one
    Unplaced,       \* posts without account, chat or text
    MaxPlans,       \* bound: revisions of the plan
    MaxActivations, \* bound: activations
    MaxReturns,     \* bound: claims that end in a wait for a retry
    MaxDeaths       \* bound: deaths of the bot

Post == Due \cup Later \cup Unplaced

ASSUME PreparedConstantsOK ==
    /\ Due \cap Later = {} /\ (Due \cup Later) \cap Unplaced = {}
    /\ MaxPlans \in Nat \ {0} /\ MaxReturns \in Nat /\ MaxActivations \in Nat /\ MaxDeaths \in Nat

VARIABLES
    plan,        \* the latest plan: a number that stands for its fingerprint
    plan_ok,     \* whether it is approved
    batches,     \* batches.json: batches[b] has a plan and is active or not
    prepared,    \* items.json: [batch, post, status, action]
    queue,       \* live actions of the campaign, by batches and orphans alike
    job,         \* what the bot is doing for an activation or a revision
    activations, returns, deaths,
    late,        \* history: actions a cancellation found claimed
    cut_plans    \* history: plans a job was working on when the bot died

prepared_vars == <<plan, plan_ok, batches, prepared, queue, job, activations, returns, deaths, late,
                   cut_plans>>

NoJob == [stage |-> "none", activate |-> FALSE, left |-> {}, made |-> {}, batch |-> 0]
Plans == 1..MaxPlans
ActionStatus == {"pending", "claimed", "done", "cancelled"}
PreparedStatus == {"queued", "prepared", "blocked", "superseded", "cancelled"}

ActiveBatches == {b \in DOMAIN batches : batches[b].active}
StaleBatches == {b \in ActiveBatches : batches[b].plan # plan}
ItemsOf(b) == {x \in prepared : x.batch = b}

------------------------------------------------------------------------------
(* The operator and the account planner.                                   *)

\* A revision is saved; the same data has the same fingerprint.
RevisePlan ==
    /\ job = NoJob
    /\ \/ plan' = plan
       \/ plan < MaxPlans /\ plan' = plan + 1
    /\ plan_ok' = FALSE
    /\ job' = [NoJob EXCEPT !.stage = "invalidate"]
    /\ UNCHANGED <<batches, prepared, queue, activations, returns, deaths, late, cut_plans>>

ApprovePlan ==
    /\ job = NoJob /\ ~plan_ok
    /\ plan_ok' = TRUE
    /\ UNCHANGED <<plan, batches, prepared, queue, job, activations, returns, deaths, late,
                   cut_plans>>

\* activate_latest_plan, as far as the checks.
ActivatePlan ==
    /\ job = NoJob /\ plan_ok /\ activations < MaxActivations
    /\ activations' = activations + 1
    /\ job' = [NoJob EXCEPT !.stage = "invalidate", !.activate = TRUE]
    /\ UNCHANGED <<plan, plan_ok, batches, prepared, queue, returns, deaths, late, cut_plans>>

------------------------------------------------------------------------------
(* invalidate_stale_prepared_state.                                        *)

Stale == StaleBatches

\* A batch is superseded before its items are looked at.
Supersede ==
    /\ job.stage = "invalidate"
    /\ \E b \in Stale :
         /\ batches' = [batches EXCEPT ![b].active = FALSE]
         /\ job' = [job EXCEPT !.stage = "cancel", !.left = ItemsOf(b), !.batch = b]
    /\ UNCHANGED <<plan, plan_ok, prepared, queue, activations, returns, deaths, late, cut_plans>>

\* Mutant: what a worker has claimed is cancelled too.
CancellableUnlessDone(a) == queue[a].status \in {"pending", "claimed"}
\* cancel_action_if_pending.
Cancellable(a) == queue[a].status = "pending"

\* The item whose action has been cancelled, until it is saved.
Unsaved == {x \in job.left : x.status = "cancelled"}

\* Mutant: the answer of cancel_action_if_pending is not looked at.
CancelUnchecked(x) ==
    /\ job.stage = "cancel" /\ Unsaved = {} /\ x.status = "queued"
    /\ queue' = IF Cancellable(x.action) THEN [queue EXCEPT ![x.action].status = "cancelled"] ELSE queue
    /\ job' = [job EXCEPT !.left = (@ \ {x}) \cup {[x EXCEPT !.status = "cancelled"]}]
    /\ UNCHANGED <<plan, plan_ok, batches, prepared, activations, returns, deaths, late, cut_plans>>

\* The queue and the item are two files.
CancelAction(x) ==
    /\ job.stage = "cancel" /\ Unsaved = {} /\ x.status = "queued"
    /\ IF Cancellable(x.action)
       THEN /\ queue' = [queue EXCEPT ![x.action].status = "cancelled"]
            /\ job' = [job EXCEPT !.left = (@ \ {x}) \cup {[x EXCEPT !.status = "cancelled"]}]
            /\ UNCHANGED late
       ELSE /\ job' = [job EXCEPT !.left = @ \ {x}]
            /\ late' = late \cup {x.action}
            /\ UNCHANGED queue
    /\ UNCHANGED <<plan, plan_ok, batches, prepared, activations, returns, deaths, cut_plans>>

StatusAfter(x) == IF x.status = "prepared" THEN "superseded" ELSE x.status

\* save_item, for what is prepared or has been cancelled; a blocked item is passed over.
SaveSuperseded(x) ==
    /\ job.stage = "cancel" /\ Unsaved \subseteq {x} /\ x.status # "queued"
    /\ prepared' = {y \in prepared : <<y.batch, y.post>> # <<x.batch, x.post>>}
                     \cup {[x EXCEPT !.status = StatusAfter(x)]}
    /\ job' = [job EXCEPT !.left = @ \ {x}]
    /\ UNCHANGED <<plan, plan_ok, batches, queue, activations, returns, deaths, late, cut_plans>>

BatchInvalidated ==
    /\ job.stage = "cancel" /\ job.left = {}
    /\ job' = [job EXCEPT !.stage = "invalidate", !.batch = 0]
    /\ UNCHANGED <<plan, plan_ok, batches, prepared, queue, activations, returns, deaths, late,
                   cut_plans>>

------------------------------------------------------------------------------
(* The rest of activate_latest_plan.                                       *)

\* Mutant: an active batch is not looked for.
NeverExisting == FALSE
\* _find_existing_current_batch.
Existing == \E b \in ActiveBatches : batches[b].plan = plan

Invalidated ==
    /\ job.stage = "invalidate" /\ Stale = {}
    /\ job' = IF job.activate /\ ~Existing
              THEN [job EXCEPT !.stage = "enqueue", !.left = Post] ELSE NoJob
    /\ UNCHANGED <<plan, plan_ok, batches, prepared, queue, activations, returns, deaths, late,
                   cut_plans>>

\* _materialize_items.  The idempotency key names an item made a moment ago: it never
\* repeats.
NewBatch == Len(batches) + 1
InitialStatus(post) ==
    CASE post \in Unplaced -> "blocked" [] post \in Later -> "prepared" [] post \in Due -> "queued"

Materialize ==
    /\ job.stage = "enqueue"
    /\ \E post \in job.left :
         /\ queue' = IF post \in Due
                     THEN Append(queue, [plan |-> plan, post |-> post, status |-> "pending"])
                     ELSE queue
         /\ job' = [job EXCEPT
              !.left = @ \ {post},
              !.made = @ \cup {[batch |-> NewBatch, post |-> post, status |-> InitialStatus(post),
                                action |-> IF post \in Due THEN Len(queue) + 1 ELSE 0]}]
    /\ UNCHANGED <<plan, plan_ok, batches, prepared, activations, returns, deaths, late, cut_plans>>

SaveBatch ==
    /\ job.stage = "enqueue" /\ job.left = {}
    /\ batches' = Append(batches, [plan |-> plan, active |-> TRUE])
    /\ job' = [job EXCEPT !.stage = "items"]
    /\ UNCHANGED <<plan, plan_ok, prepared, queue, activations, returns, deaths, late, cut_plans>>

SaveItems ==
    /\ job.stage = "items"
    /\ prepared' = prepared \cup job.made
    /\ job' = NoJob
    /\ UNCHANGED <<plan, plan_ok, batches, queue, activations, returns, deaths, late, cut_plans>>

Dies ==
    /\ job # NoJob /\ deaths < MaxDeaths
    /\ deaths' = deaths + 1 /\ job' = NoJob
    /\ cut_plans' = cut_plans \cup {IF job.batch = 0 THEN plan ELSE batches[job.batch].plan}
                             \cup {batches[b].plan : b \in StaleBatches}
    /\ UNCHANGED <<plan, plan_ok, batches, prepared, queue, activations, returns, late>>

------------------------------------------------------------------------------
(* The execution workers: LiveExecution, seen from here.                   *)

ClaimAction ==
    \E a \in DOMAIN queue :
      /\ queue[a].status = "pending"
      /\ queue' = [queue EXCEPT ![a].status = "claimed"]
      /\ UNCHANGED <<plan, plan_ok, batches, prepared, job, activations, returns, deaths, late,
                     cut_plans>>

ExecuteAction ==
    \E a \in DOMAIN queue :
      /\ queue[a].status = "claimed"
      /\ queue' = [queue EXCEPT ![a].status = "done"]
      /\ UNCHANGED <<plan, plan_ok, batches, prepared, job, activations, returns, deaths, late,
                     cut_plans>>

\* A rate limit, a refusal or an expired claim puts it back.
ReturnAction ==
    /\ returns < MaxReturns
    /\ \E a \in DOMAIN queue :
         /\ queue[a].status = "claimed"
         /\ queue' = [queue EXCEPT ![a].status = "pending"]
         /\ returns' = returns + 1
         /\ UNCHANGED <<plan, plan_ok, batches, prepared, job, activations, deaths, late,
                        cut_plans>>

------------------------------------------------------------------------------
PreparedInit ==
    /\ plan = 1 /\ plan_ok = FALSE /\ batches = <<>> /\ prepared = {} /\ queue = <<>>
    /\ job = NoJob /\ activations = 0 /\ returns = 0 /\ deaths = 0 /\ late = {} /\ cut_plans = {}

PreparedNext ==
    \/ RevisePlan \/ ApprovePlan \/ ActivatePlan
    \/ Supersede \/ (\E x \in job.left : CancelAction(x) \/ SaveSuperseded(x)) \/ BatchInvalidated
    \/ Invalidated \/ Materialize \/ SaveBatch \/ SaveItems \/ Dies
    \/ ClaimAction \/ ExecuteAction \/ ReturnAction

PreparedSpec == PreparedInit /\ [][PreparedNext]_prepared_vars

------------------------------------------------------------------------------
PreparedTypeOK ==
    /\ plan \in Plans /\ plan_ok \in BOOLEAN
    /\ batches \in Seq([plan : Plans, active : BOOLEAN])
    /\ \A x \in prepared :
         /\ x.batch \in DOMAIN batches /\ x.post \in Post /\ x.status \in PreparedStatus
         /\ x.action # 0 <=> x.post \in Due
         /\ x.status = "queued" => x.action \in DOMAIN queue
    /\ queue \in Seq([plan : Plans, post : Due, status : ActionStatus])
    /\ job.stage \in {"none", "invalidate", "cancel", "enqueue", "items"}
    /\ activations \in 0..MaxActivations /\ returns \in 0..MaxReturns
    /\ deaths \in 0..MaxDeaths /\ late \subseteq DOMAIN queue /\ cut_plans \subseteq Plans

\* One activation after the other, a revision in between or a job half done: at most
\* one batch is active, and while nothing is under way none is for an older plan, unless
\* the bot died over that plan.
OneActiveBatch ==
    /\ Cardinality(ActiveBatches) <= 1
    /\ job = NoJob => \A b \in ActiveBatches : batches[b].plan = plan \/ batches[b].plan \in cut_plans

\* No post of a plan is queued twice, unless the bot died while it worked on that plan.
QueuedOnce ==
    \A a, b \in DOMAIN queue :
      a # b /\ queue[a].plan = queue[b].plan /\ queue[a].post = queue[b].post
        => queue[a].plan \in cut_plans

\* What is still pending when a revision has been dealt with is of the latest plan,
\* unless the bot died while it superseded or prepared that older plan, or a worker had
\* claimed the action just then and gave it back: nobody looks at a superseded batch again.
NothingStalePending ==
    job = NoJob =>
      \A a \in DOMAIN queue :
        queue[a].status = "pending" /\ queue[a].plan # plan
          => queue[a].plan \in cut_plans \/ a \in late

\* A cancelled item is one whose action will not be sent, and a queued item of a batch
\* that was superseded without an accident is one whose action was claimed in time.
ItemsTellTheTruth ==
    \A x \in prepared :
      /\ x.status = "cancelled" => queue[x.action].status = "cancelled"
      /\ x.status = "queued" /\ ~batches[x.batch].active /\ job = NoJob
           => x.action \in late \/ batches[x.batch].plan \in cut_plans
      /\ x.status = "queued" => queue[x.action].status # "cancelled" \/ deaths > 0 \/ job # NoJob

Entries == [a \in DOMAIN queue |-> queue[a].status]
Queue == INSTANCE QueueContract WITH entries <- Entries

\* Activations, revisions and the workers as seen from here use the queue as LiveExecution
\* offers it: a revision cancels what waits and never what a worker has in hand, and what
\* was sent or cancelled is not queued again under its number.
UsesContract == Queue!Spec

\* A revision of the plan takes effect: the batches of older plans are out of use, their
\* actions are not sent any more, and their items say what has become of them.
RevisionTakesEffect == OneActiveBatch /\ NothingStalePending /\ ItemsTellTheTruth
=============================================================================
