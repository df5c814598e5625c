------------------------ MODULE PreparedExecutionProofs ------------------------
(***************************************************************************)
(* What holds of prepared execution for any posts, revisions, activations, *)
(* deaths and workers: the shape of the files, no post queued twice, and   *)
(* revisions that take effect.                                             *)
(*                                                                         *)
(* The thread of the argument: a batch is made only when none is active,   *)
(* plan numbers only grow, and an action that may still be sent is named   *)
(* by a queued item of the active batch of its plan, by one that is being  *)
(* made or by one that is about to be cancelled, unless its plan was cut   *)
(* by a death or a worker was faster.                                      *)
(***************************************************************************)
EXTENDS PreparedExecution, FiniteSetTheorems, TLAPS

------------------------------------------------------------------------------
(* The inductive invariant.                                                *)

Stage == {"none", "invalidate", "cancel", "enqueue", "items"}
PostItem == [batch : Nat, post : Post, status : PreparedStatus, action : Nat]
BatchRecord == [plan : Plans, active : BOOLEAN]
Action == [plan : Plans, post : Due, status : ActionStatus]
Job == [stage : Stage, activate : BOOLEAN, left : SUBSET (PostItem \cup Post), made : SUBSET PostItem,
        batch : Nat]

Shape ==
    /\ plan \in Plans /\ plan_ok \in BOOLEAN
    /\ batches \in Seq(BatchRecord)
    /\ prepared \subseteq PostItem /\ queue \in Seq(Action) /\ job \in Job
    /\ activations \in 0..MaxActivations /\ returns \in 0..MaxReturns
    /\ deaths \in 0..MaxDeaths /\ late \subseteq DOMAIN queue /\ cut_plans \subseteq Plans

\* An item has an action if it is due, and one that is queued or cancelled has.
Fits(x) ==
    /\ x.action \in 0..Len(queue) /\ (x.action # 0 <=> x.post \in Due)
    /\ x.status \in {"queued", "cancelled"} => x.action # 0

ItemsFit ==
    /\ \A x \in prepared \cup job.made : Fits(x)
    /\ \A x \in prepared : x.batch \in DOMAIN batches

\* No two items share an action, or a post of the same batch.
OwnActions ==
    \A x, y \in prepared \cup job.made : x.action = y.action /\ x.action # 0 => x = y
OnePerPost ==
    \A x, y \in prepared \cup job.made : x.batch = y.batch /\ x.post = y.post => x = y

\* What a job holds at each of its stages.
JobMakes ==
    /\ job.stage \in {"none", "invalidate", "cancel"} => job.made = {}
    /\ job.stage = "enqueue" => /\ ActiveBatches = {} /\ job.left \subseteq Post
                                /\ \A x \in job.made : x.batch = NewBatch /\ x.post \notin job.left
    /\ job.stage = "items" => /\ Len(batches) \in ActiveBatches /\ batches[Len(batches)].plan = plan
                              /\ \A x \in job.made : x.batch = Len(batches)

JobCancels ==
    /\ job.stage # "cancel" => job.batch = 0
    /\ job.stage = "cancel" => /\ job.batch \in DOMAIN batches /\ ~batches[job.batch].active
                               /\ \A x \in job.left : x.batch = job.batch
                               /\ \A x, y \in job.left : x.post = y.post => x = y

\* What is left to cancel are items as they are on file, and one that has been
\* cancelled in the queue already.
Crossed(x) == [x EXCEPT !.status = "cancelled"]
LeftOnFile ==
    job.stage = "cancel" =>
      \A x \in job.left :
        \/ x \in prepared
        \/ /\ x.status = "cancelled" /\ queue[x.action].status = "cancelled"
           /\ \E y \in prepared : y.status = "queued" /\ x = Crossed(y)

MadeIsWanted ==
    \A x \in job.made :
      x.status # "cancelled" /\ (x.action # 0 => queue[x.action].status # "cancelled")

OldPlans ==
    /\ \A b \in DOMAIN batches : batches[b].plan <= plan
    /\ \A a \in DOMAIN queue : queue[a].plan <= plan

OneActive == \A b, c \in ActiveBatches : b = c

\* Batches of older plans wait to be superseded.
StaleNoted ==
    job.stage \notin {"invalidate", "cancel"} =>
      \A b \in ActiveBatches : batches[b].plan = plan \/ batches[b].plan \in cut_plans

\* Actions of the latest plan have an active batch, or their batch is being made; and a
\* post that is left has none yet.
QueuedByPlan ==
    \A a \in DOMAIN queue :
      queue[a].plan = plan
        => \/ plan \in cut_plans \/ Existing
           \/ job.stage = "enqueue" /\ queue[a].post \notin job.left

\* An action that may be sent has an item that will get it cancelled.
Covered(a) ==
    \E x \in prepared : /\ x.action = a /\ x.status = "queued"
                        /\ batches[x.batch].active /\ batches[x.batch].plan = queue[a].plan
InMaking(a) ==
    /\ job.stage \in {"enqueue", "items"} /\ queue[a].plan = plan
    /\ \E x \in job.made : x.action = a /\ x.status = "queued"
BeingCancelled(a) ==
    /\ job.stage = "cancel" /\ batches[job.batch].plan = queue[a].plan
    /\ \E x \in job.left : x.action = a /\ x.status = "queued"
LiveCovered ==
    \A a \in DOMAIN queue :
      queue[a].status \in {"pending", "claimed"}
        => \/ queue[a].plan \in cut_plans \/ a \in late
           \/ Covered(a) \/ InMaking(a) \/ BeingCancelled(a)

\* What the items say of the actions.
CancelledIs == \A x \in prepared : x.status = "cancelled" => queue[x.action].status = "cancelled"
QueuedWas ==
    \A x \in prepared :
      x.status = "queued" /\ ~batches[x.batch].active
        => \/ x.action \in late \/ batches[x.batch].plan \in cut_plans
           \/ /\ job.stage = "cancel" /\ x.batch = job.batch
              /\ x \in job.left \/ Crossed(x) \in job.left
QueuedIs ==
    \A x \in prepared :
      x.status = "queued" /\ queue[x.action].status = "cancelled"
        => deaths > 0 \/ (job.stage = "cancel" /\ Crossed(x) \in job.left)

Bookkeeping == JobMakes /\ JobCancels /\ OldPlans /\ OneActive /\ StaleNoted
ItemsTell == LeftOnFile /\ MadeIsWanted /\ CancelledIs /\ QueuedWas /\ QueuedIs

PreparedInv ==
    /\ Shape /\ ItemsFit /\ OwnActions /\ OnePerPost /\ Bookkeeping
    /\ QueuedByPlan /\ LiveCovered /\ ItemsTell /\ QueuedOnce

------------------------------------------------------------------------------
(* The steps.                                                              *)

\* A queue whose actions change their status only.
SameActions ==
    /\ queue' \in Seq(Action) /\ Len(queue') = Len(queue)
    /\ \A a \in DOMAIN queue :
         queue'[a].plan = queue[a].plan /\ queue'[a].post = queue[a].post

\* A sequence with one element replaced.
LEMMA ElementReplaced ==
    ASSUME NEW S, NEW s \in Seq(S), NEW i \in DOMAIN s, NEW e \in S
    PROVE  /\ [s EXCEPT ![i] = e] \in Seq(S)
           /\ Len([s EXCEPT ![i] = e]) = Len(s)
           /\ DOMAIN [s EXCEPT ![i] = e] = DOMAIN s
           /\ [s EXCEPT ![i] = e][i] = e
           /\ \A j \in DOMAIN s \ {i} : [s EXCEPT ![i] = e][j] = s[j]
OBVIOUS

\* A new status for an action.
LEMMA StatusChanges ==
    ASSUME Shape, NEW a \in DOMAIN queue, NEW s \in ActionStatus,
           queue' = [queue EXCEPT ![a].status = s]
    PROVE  /\ SameActions /\ queue'[a].status = s
           /\ \A b \in DOMAIN queue \ {a} : queue'[b] = queue[b]
<1>1. queue \in Seq(Action) /\ queue[a] \in Action
  BY DEF Shape
<1> DEFINE q == [queue[a] EXCEPT !.status = s]
<1>2. q \in Action /\ q.plan = queue[a].plan /\ q.post = queue[a].post /\ q.status = s
  BY <1>1 DEF Action
<1>3. queue' = [queue EXCEPT ![a] = q]
  OBVIOUS
<1> HIDE DEF q
<1>4. queue' \in Seq(Action) /\ Len(queue') = Len(queue) /\ queue'[a] = q
      /\ \A b \in DOMAIN queue \ {a} : queue'[b] = queue[b]
  BY <1>1, <1>2, <1>3
<1> QED BY <1>2, <1>4 DEF SameActions

\* What is on file is well formed.
LEMMA ElementsFit ==
    ASSUME Shape
    PROVE  /\ \A b \in DOMAIN batches : batches[b] \in BatchRecord /\ batches[b].plan \in Plans
           /\ \A a \in DOMAIN queue : queue[a] \in Action /\ queue[a].plan \in Plans
<1>1. batches \in Seq(BatchRecord) /\ queue \in Seq(Action)
  BY DEF Shape
<1>2. /\ \A b \in DOMAIN batches : batches[b] \in BatchRecord
      /\ \A a \in DOMAIN queue : queue[a] \in Action
  BY <1>1
<1> QED BY <1>2 DEF BatchRecord, Action

\* At first there is nothing.
LEMMA InitHolds == PreparedInit => PreparedInv
<1> SUFFICES ASSUME PreparedInit PROVE PreparedInv
  OBVIOUS
<1> USE PreparedConstantsOK DEF PreparedInit
<1>1. job \in Job
  BY DEF Job, NoJob, Stage
<1>2. batches \in Seq(BatchRecord) /\ queue \in Seq(Action)
  OBVIOUS
<1>3. plan \in Plans
  BY DEF Plans
<1>4. activations \in 0..MaxActivations /\ returns \in 0..MaxReturns /\ deaths \in 0..MaxDeaths
  OBVIOUS
<1>5. prepared \subseteq PostItem /\ late \subseteq DOMAIN queue /\ cut_plans \subseteq Plans
       /\ plan_ok \in BOOLEAN
  OBVIOUS
<1>6. Shape
  BY <1>1, <1>2, <1>3, <1>4, <1>5 DEF Shape
<1>7. ItemsFit /\ OwnActions /\ OnePerPost
  BY DEF ItemsFit, OwnActions, OnePerPost, NoJob
<1>8. ActiveBatches = {}
  BY DEF ActiveBatches
<1>9. Bookkeeping
  BY <1>8 DEF Bookkeeping, JobMakes, JobCancels, OldPlans, OneActive, StaleNoted, NoJob
<1>10. QueuedByPlan /\ LiveCovered /\ QueuedOnce
  BY DEF QueuedByPlan, LiveCovered, QueuedOnce
<1>11. ItemsTell
  BY DEF ItemsTell, LeftOnFile, MadeIsWanted, CancelledIs, QueuedWas, QueuedIs, NoJob
<1> QED BY <1>6, <1>7, <1>9, <1>10, <1>11 DEF PreparedInv

\* The workers: an action somebody wants changes hands.
Works(a, s) ==
    /\ queue[a].status \in {"pending", "claimed"} /\ s \in {"pending", "claimed", "done"}
    /\ queue' = [queue EXCEPT ![a].status = s] /\ returns' \in 0..MaxReturns
    /\ UNCHANGED <<plan, plan_ok, batches, prepared, job, activations, deaths, late, cut_plans>>

\* A worker that changes the status of a queued action keeps the invariant.
LEMMA WorkersKeep ==
    ASSUME PreparedInv, NEW a \in DOMAIN queue, NEW s, Works(a, s)
    PROVE  PreparedInv'
<1>0. Shape /\ s \in ActionStatus /\ queue' = [queue EXCEPT ![a].status = s]
  BY DEF Works, ActionStatus, PreparedInv
<1>1. /\ SameActions /\ queue'[a].status = s
      /\ \A b \in DOMAIN queue \ {a} : queue'[b] = queue[b]
  BY <1>0, StatusChanges
<1>2. /\ DOMAIN queue' = DOMAIN queue /\ Len(queue') = Len(queue) /\ queue' \in Seq(Action)
      /\ \A b \in DOMAIN queue :
           /\ queue'[b].plan = queue[b].plan /\ queue'[b].post = queue[b].post
           /\ queue'[b].status = "cancelled" <=> queue[b].status = "cancelled"
           /\ queue'[b].status \in {"pending", "claimed"}
                => queue[b].status \in {"pending", "claimed"}
  BY <1>0, <1>1 DEF SameActions, Works, Shape
<1>3. /\ plan' = plan /\ plan_ok' = plan_ok /\ batches' = batches /\ prepared' = prepared
      /\ job' = job /\ activations' = activations /\ deaths' = deaths /\ late' = late
      /\ cut_plans' = cut_plans /\ returns' \in 0..MaxReturns
      /\ ActiveBatches' = ActiveBatches /\ (Existing <=> Existing') /\ NewBatch' = NewBatch
  BY DEF Works, ActiveBatches, Existing, NewBatch
<1>4. Shape'
  BY <1>0, <1>2, <1>3 DEF Shape
<1>5. ItemsFit' /\ OwnActions' /\ OnePerPost'
  BY <1>2, <1>3 DEF PreparedInv, ItemsFit, Fits, OwnActions, OnePerPost
<1>6. Bookkeeping'
  BY <1>2, <1>3 DEF PreparedInv, Bookkeeping, JobMakes, JobCancels, OldPlans, OneActive, StaleNoted
<1>7. QueuedByPlan' /\ QueuedOnce'
  BY <1>2, <1>3 DEF PreparedInv, QueuedByPlan, QueuedOnce
<1>8. LiveCovered'
  BY <1>2, <1>3 DEF PreparedInv, LiveCovered, Covered, InMaking, BeingCancelled
<1>9. \A x \in prepared \cup job.made : x.action # 0 => x.action \in DOMAIN queue
  BY <1>0 DEF PreparedInv, ItemsFit, Fits, Shape
<1>10. \A x \in prepared : x.status \in {"queued", "cancelled"} => x.action \in DOMAIN queue
  BY <1>0, <1>9 DEF PreparedInv, ItemsFit, Fits
<1>11. MadeIsWanted' /\ CancelledIs' /\ QueuedIs' /\ QueuedWas'
  BY <1>2, <1>3, <1>9, <1>10 DEF PreparedInv, ItemsTell, MadeIsWanted, CancelledIs, QueuedIs, QueuedWas
<1>12. LeftOnFile'
  <2> SUFFICES ASSUME job.stage = "cancel", NEW x \in job.left,
                      x \notin prepared, x.status = "cancelled",
                      queue[x.action].status = "cancelled",
                      NEW y \in prepared, y.status = "queued", x = Crossed(y)
               PROVE  queue'[x.action].status = "cancelled"
    BY <1>3 DEF PreparedInv, ItemsTell, LeftOnFile
  <2>1. x.action = y.action
    BY <1>0 DEF Crossed, Shape, PostItem
  <2>2. x.action \in DOMAIN queue
    BY <1>10, <2>1
  <2> QED BY <1>2, <2>2
<1> QED BY <1>4, <1>5, <1>6, <1>7, <1>8, <1>11, <1>12 DEF PreparedInv, ItemsTell


\* The operator begins something while the bot is idle.
LEMMA OperatorKeeps ==
    ASSUME PreparedInv, RevisePlan \/ ApprovePlan \/ ActivatePlan
    PROVE  PreparedInv'
<1>1. /\ job = NoJob /\ plan' \in Plans /\ plan <= plan' /\ plan_ok' \in BOOLEAN
      /\ (plan' # plan => job'.stage = "invalidate") /\ job'.stage \in {"none", "invalidate"}
      /\ job' \in Job /\ job'.made = {} /\ job'.batch = 0 /\ job'.left = {}
      /\ activations' \in 0..MaxActivations
  <2>1. NoJob = [stage |-> "none", activate |-> FALSE, left |-> {}, made |-> {}, batch |-> 0]
    BY DEF NoJob
  <2>2. /\ NoJob \in Job /\ [NoJob EXCEPT !.stage = "invalidate"] \in Job
        /\ [NoJob EXCEPT !.stage = "invalidate", !.activate = TRUE] \in Job
    BY <2>1 DEF Job, Stage
  <2>3. CASE RevisePlan
    <3>1. plan \in Plans /\ plan' \in Plans /\ plan <= plan'
      BY <2>3, PreparedConstantsOK DEF RevisePlan, PreparedInv, Shape, Plans
    <3>2. /\ job = NoJob /\ plan_ok' = FALSE /\ job' = [NoJob EXCEPT !.stage = "invalidate"]
          /\ activations' = activations /\ activations \in 0..MaxActivations
      BY <2>3 DEF RevisePlan, PreparedInv, Shape
    <3> QED BY <2>1, <2>2, <3>1, <3>2
  <2>4. CASE ApprovePlan
    BY <2>1, <2>2, <2>4, PreparedConstantsOK DEF ApprovePlan, PreparedInv, Shape, Plans
  <2>5. CASE ActivatePlan
    BY <2>1, <2>2, <2>5, PreparedConstantsOK DEF ActivatePlan, PreparedInv, Shape, Plans
  <2> QED BY <2>3, <2>4, <2>5
<1>2. /\ batches' = batches /\ prepared' = prepared /\ queue' = queue /\ deaths' = deaths
      /\ returns' = returns /\ late' = late /\ cut_plans' = cut_plans
      /\ ActiveBatches' = ActiveBatches /\ job.stage = "none" /\ job.made = {}
  BY <1>1 DEF RevisePlan, ApprovePlan, ActivatePlan, ActiveBatches, NoJob
<1>3. Shape'
  BY <1>1, <1>2 DEF PreparedInv, Shape
<1>4. ItemsFit' /\ OwnActions' /\ OnePerPost'
  BY <1>1, <1>2 DEF PreparedInv, ItemsFit, Fits, OwnActions, OnePerPost
<1>5. Bookkeeping'
  <2>1. OldPlans'
    <3>1. /\ \A b \in DOMAIN batches : batches[b].plan \in Plans /\ batches[b].plan <= plan
          /\ \A a \in DOMAIN queue : queue[a].plan \in Plans /\ queue[a].plan <= plan
      BY ElementsFit DEF PreparedInv, Bookkeeping, OldPlans
    <3>2. Plans \subseteq Int /\ plan \in Plans /\ plan' \in Plans
      BY <1>1 DEF Plans, PreparedInv, Shape
    <3>3. \A p \in Plans : p <= plan => p <= plan'
      BY <1>1, <3>2
    <3> QED BY <1>2, <3>1, <3>3 DEF OldPlans
  <2>2. StaleNoted'
    BY <1>1, <1>2 DEF PreparedInv, Bookkeeping, StaleNoted
  <2>3. JobMakes' /\ JobCancels' /\ OneActive'
    BY <1>1, <1>2 DEF PreparedInv, Bookkeeping, JobMakes, JobCancels, OneActive
  <2> QED BY <2>1, <2>2, <2>3 DEF Bookkeeping
<1>6. QueuedByPlan'
  <2>1. CASE plan' = plan
    BY <1>1, <1>2, <2>1 DEF PreparedInv, QueuedByPlan, Existing
  <2>2. CASE plan' # plan
    <3>1. \A a \in DOMAIN queue : queue[a].plan \in Int /\ queue[a].plan <= plan
      BY ElementsFit DEF PreparedInv, Bookkeeping, OldPlans, Plans
    <3>2. plan \in Int /\ plan' \in Int /\ plan < plan'
      BY <1>1, <2>2, PreparedConstantsOK DEF PreparedInv, Shape, Plans
    <3> QED BY <1>2, <3>1, <3>2 DEF QueuedByPlan
  <2> QED BY <2>1, <2>2
<1>7. LiveCovered' /\ QueuedOnce'
  BY <1>1, <1>2 DEF PreparedInv, LiveCovered, Covered, InMaking, BeingCancelled, QueuedOnce
<1>8. ItemsTell'
  BY <1>1, <1>2 DEF PreparedInv, ItemsTell, LeftOnFile, MadeIsWanted, CancelledIs, QueuedWas, QueuedIs
<1> QED BY <1>3, <1>4, <1>5, <1>6, <1>7, <1>8 DEF PreparedInv

\* A batch of an older plan is superseded, and its items are to be looked at.
LEMMA SupersedeKeeps ==
    ASSUME PreparedInv, NEW b \in Stale, job.stage = "invalidate",
           batches' = [batches EXCEPT ![b].active = FALSE],
           job' = [job EXCEPT !.stage = "cancel", !.left = ItemsOf(b), !.batch = b],
           UNCHANGED <<plan, plan_ok, prepared, queue, activations, returns, deaths, late, cut_plans>>
    PROVE  PreparedInv'
<1>1. /\ plan' = plan /\ plan_ok' = plan_ok /\ prepared' = prepared /\ queue' = queue
      /\ activations' = activations /\ returns' = returns /\ deaths' = deaths /\ late' = late
      /\ cut_plans' = cut_plans
  OBVIOUS
<1>2. b \in DOMAIN batches /\ b \in Nat /\ batches[b].active /\ batches[b].plan # plan
  BY DEF Stale, StaleBatches, ActiveBatches, PreparedInv, Shape
<1>3. /\ job'.stage = "cancel" /\ job'.left = ItemsOf(b) /\ job'.batch = b /\ job.made = {}
      /\ job'.made = {} /\ job' \in Job
  BY <1>2 DEF PreparedInv, Shape, Job, Stage, ItemsOf, Bookkeeping, JobMakes
<1>4. /\ DOMAIN batches' = DOMAIN batches /\ Len(batches') = Len(batches)
      /\ batches' \in Seq(BatchRecord)
      /\ ~batches'[b].active /\ batches'[b].plan = batches[b].plan
      /\ \A c \in DOMAIN batches \ {b} : batches'[c] = batches[c]
  <2> DEFINE r == [batches[b] EXCEPT !.active = FALSE]
  <2>1. batches \in Seq(BatchRecord) /\ batches[b] \in BatchRecord
    BY <1>2 DEF PreparedInv, Shape
  <2>2. r \in BatchRecord /\ ~r.active /\ r.plan = batches[b].plan
    BY <2>1 DEF BatchRecord
  <2>3. batches' = [batches EXCEPT ![b] = r]
    OBVIOUS
  <2> HIDE DEF r
  <2>4. /\ DOMAIN batches' = DOMAIN batches /\ Len(batches') = Len(batches)
        /\ batches' \in Seq(BatchRecord) /\ batches'[b] = r
        /\ \A c \in DOMAIN batches \ {b} : batches'[c] = batches[c]
    <3>1. /\ [batches EXCEPT ![b] = r] \in Seq(BatchRecord)
          /\ Len([batches EXCEPT ![b] = r]) = Len(batches)
          /\ DOMAIN [batches EXCEPT ![b] = r] = DOMAIN batches
          /\ [batches EXCEPT ![b] = r][b] = r
          /\ \A j \in DOMAIN batches \ {b} : [batches EXCEPT ![b] = r][j] = batches[j]
      BY <1>2, <2>1, <2>2, ElementReplaced, Zenon
    <3> QED BY <2>3, <3>1, Zenon
  <2> QED BY <2>2, <2>4
<1>5. ActiveBatches' = ActiveBatches \ {b}
  BY <1>4 DEF ActiveBatches
<1>6. \A c \in DOMAIN batches : batches'[c].plan = batches[c].plan
  BY <1>4
<1>7. Shape'
  BY <1>1, <1>3, <1>4 DEF PreparedInv, Shape
<1>8. ItemsFit' /\ OwnActions' /\ OnePerPost'
  BY <1>1, <1>3, <1>4 DEF PreparedInv, ItemsFit, Fits, OwnActions, OnePerPost
<1>9. Bookkeeping'
  <2>1. JobCancels'
    BY <1>2, <1>3, <1>4 DEF PreparedInv, OnePerPost, JobCancels, ItemsOf
  <2>2. JobMakes' /\ OldPlans' /\ OneActive' /\ StaleNoted'
    BY <1>1, <1>2, <1>3, <1>4, <1>5, <1>6
       DEF PreparedInv, Bookkeeping, JobMakes, OldPlans, OneActive, StaleNoted
  <2> QED BY <2>1, <2>2 DEF Bookkeeping
<1>10. Existing' <=> Existing
  BY <1>1, <1>2, <1>4, <1>5, <1>6 DEF Existing, ActiveBatches
<1>11. QueuedByPlan' /\ QueuedOnce'
  BY <1>1, <1>3, <1>10 DEF PreparedInv, QueuedByPlan, QueuedOnce
<1>12. LiveCovered'
  <2> SUFFICES ASSUME NEW a \in DOMAIN queue, queue[a].status \in {"pending", "claimed"},
                      queue[a].plan \notin cut_plans, a \notin late
               PROVE  Covered(a)' \/ BeingCancelled(a)'
    BY <1>1 DEF LiveCovered
  <2>1. ~InMaking(a) /\ ~BeingCancelled(a)
    BY DEF InMaking, BeingCancelled
  <2>2. PICK x \in prepared : /\ x.action = a /\ x.status = "queued"
                              /\ batches[x.batch].active /\ batches[x.batch].plan = queue[a].plan
    BY <2>1 DEF PreparedInv, LiveCovered, Covered
  <2>3. x.batch \in DOMAIN batches
    BY DEF PreparedInv, ItemsFit
  <2>4. CASE x.batch = b
    BY <1>1, <1>3, <1>4, <2>2, <2>4 DEF BeingCancelled, ItemsOf
  <2>5. CASE x.batch # b
    BY <1>1, <1>4, <2>2, <2>3, <2>5 DEF Covered
  <2> QED BY <2>4, <2>5
<1>13. LeftOnFile' /\ MadeIsWanted' /\ CancelledIs' /\ QueuedIs'
  BY <1>1, <1>3 DEF PreparedInv, ItemsTell, LeftOnFile, MadeIsWanted, CancelledIs, QueuedIs, ItemsOf
<1>14. QueuedWas'
  <2> SUFFICES ASSUME NEW x \in prepared, x.status = "queued", ~batches'[x.batch].active
               PROVE  \/ x.action \in late \/ batches'[x.batch].plan \in cut_plans
                      \/ x.batch = b /\ x \in job'.left
    BY <1>1, <1>3 DEF QueuedWas
  <2>1. x.batch \in DOMAIN batches
    BY DEF PreparedInv, ItemsFit
  <2>2. CASE x.batch = b
    BY <1>3, <2>2 DEF ItemsOf
  <2>3. CASE x.batch # b
    BY <1>4, <2>1, <2>3 DEF PreparedInv, ItemsTell, QueuedWas
  <2> QED BY <2>2, <2>3
<1> QED BY <1>7, <1>8, <1>9, <1>11, <1>12, <1>13, <1>14 DEF PreparedInv, ItemsTell


\* The worker is faster: the action is not cancelled, and the job goes on without it.
LEMMA LateKeeps ==
    ASSUME PreparedInv, job.stage = "cancel", NEW x \in job.left, x.status = "queued",
           job' = [job EXCEPT !.left = @ \ {x}], late' = late \cup {x.action},
           UNCHANGED <<plan, plan_ok, batches, prepared, queue, activations, returns, deaths,
                       cut_plans>>
    PROVE  PreparedInv'
<1>1. /\ plan' = plan /\ plan_ok' = plan_ok /\ batches' = batches /\ prepared' = prepared
      /\ queue' = queue /\ activations' = activations /\ returns' = returns /\ deaths' = deaths
      /\ cut_plans' = cut_plans /\ (Existing' <=> Existing)
      /\ ActiveBatches' = ActiveBatches /\ NewBatch' = NewBatch
  BY DEF ActiveBatches, Existing, NewBatch
<1>2. /\ job' \in Job /\ job'.stage = "cancel" /\ job'.left = job.left \ {x}
      /\ job'.made = job.made /\ job'.batch = job.batch
  BY DEF PreparedInv, Shape, Job
<1>3. x \in prepared
  BY DEF PreparedInv, ItemsTell, LeftOnFile
<1>4. x.action \in DOMAIN queue
  BY <1>3 DEF PreparedInv, ItemsFit, Fits, Shape
<1>5. Shape'
  BY <1>1, <1>2, <1>4 DEF PreparedInv, Shape
<1>6. ItemsFit' /\ OwnActions' /\ OnePerPost' /\ Bookkeeping' /\ QueuedByPlan' /\ QueuedOnce'
  BY <1>1, <1>2 DEF PreparedInv, ItemsFit, Fits, OwnActions, OnePerPost, Bookkeeping, JobMakes, JobCancels,
                    OldPlans, OneActive, StaleNoted, QueuedByPlan, QueuedOnce
<1>7. LiveCovered'
  BY <1>1, <1>2 DEF PreparedInv, LiveCovered, Covered, InMaking, BeingCancelled
<1>8. LeftOnFile' /\ MadeIsWanted' /\ CancelledIs'
  BY <1>1, <1>2 DEF PreparedInv, ItemsTell, LeftOnFile, MadeIsWanted, CancelledIs
<1>9. \A y \in prepared : Crossed(y) # x
  BY DEF Crossed, PreparedInv, Shape, PostItem
<1>10. QueuedWas'
  BY <1>1, <1>2, <1>9 DEF PreparedInv, ItemsTell, QueuedWas
<1>11. QueuedIs'
  BY <1>1, <1>2, <1>9 DEF PreparedInv, ItemsTell, QueuedIs
<1> QED BY <1>5, <1>6, <1>7, <1>8, <1>10, <1>11 DEF PreparedInv, ItemsTell

\* The action is cancelled, and its item has still to be saved.
LEMMA CancelKeeps ==
    ASSUME PreparedInv, job.stage = "cancel", Unsaved = {}, NEW x \in job.left,
           x.status = "queued", queue' = [queue EXCEPT ![x.action].status = "cancelled"],
           job' = [job EXCEPT !.left = (@ \ {x}) \cup {Crossed(x)}],
           UNCHANGED <<plan, plan_ok, batches, prepared, activations, returns, deaths, late,
                       cut_plans>>
    PROVE  PreparedInv'
<1>1. /\ plan' = plan /\ plan_ok' = plan_ok /\ batches' = batches /\ prepared' = prepared
      /\ activations' = activations /\ returns' = returns /\ deaths' = deaths /\ late' = late
      /\ cut_plans' = cut_plans /\ (Existing' <=> Existing)
      /\ ActiveBatches' = ActiveBatches /\ NewBatch' = NewBatch
  BY DEF ActiveBatches, Existing, NewBatch
<1>2. x \in prepared /\ x \in PostItem
  BY DEF PreparedInv, ItemsTell, LeftOnFile, Shape
<1>3. x.action \in DOMAIN queue /\ x.action # 0
  BY <1>2 DEF PreparedInv, ItemsFit, Fits, Shape
<1>4. /\ SameActions /\ queue'[x.action].status = "cancelled"
      /\ \A b \in DOMAIN queue \ {x.action} : queue'[b] = queue[b]
  BY <1>3, StatusChanges DEF PreparedInv, ActionStatus
<1>5. /\ DOMAIN queue' = DOMAIN queue /\ Len(queue') = Len(queue) /\ queue' \in Seq(Action)
      /\ \A b \in DOMAIN queue :
           /\ queue'[b].plan = queue[b].plan /\ queue'[b].post = queue[b].post
           /\ queue'[b].status = "cancelled" <=> queue[b].status = "cancelled" \/ b = x.action
           /\ b # x.action => queue'[b].status = queue[b].status
  BY <1>4 DEF SameActions, PreparedInv, Shape
<1>6. /\ Crossed(x) \in PostItem /\ Crossed(x).status = "cancelled" /\ Crossed(x).action = x.action
      /\ Crossed(x).batch = x.batch /\ Crossed(x).post = x.post
  BY <1>2 DEF Crossed, PostItem, PreparedStatus
<1>7. /\ job' \in Job /\ job'.stage = "cancel"
      /\ job'.left = (job.left \ {x}) \cup {Crossed(x)}
      /\ job'.made = job.made /\ job'.batch = job.batch /\ job.made = {}
  BY <1>6 DEF PreparedInv, Shape, Job, Bookkeeping, JobMakes
<1>8. Shape'
  BY <1>1, <1>5, <1>7 DEF PreparedInv, Shape
<1>9. ItemsFit' /\ OwnActions' /\ OnePerPost'
  BY <1>1, <1>5, <1>7 DEF PreparedInv, ItemsFit, Fits, OwnActions, OnePerPost
<1>10. Bookkeeping'
  BY <1>1, <1>5, <1>6, <1>7
     DEF PreparedInv, Bookkeeping, JobMakes, JobCancels, OldPlans, OneActive, StaleNoted
<1>11. QueuedByPlan' /\ QueuedOnce'
  BY <1>1, <1>5, <1>7 DEF PreparedInv, QueuedByPlan, QueuedOnce
<1>12. \A y \in prepared : y.action = x.action => y = x
  BY <1>2, <1>3 DEF PreparedInv, OwnActions
<1>13. \A y \in prepared \cup job.left : y.status = "queued" => y \in prepared
  BY DEF PreparedInv, ItemsTell, LeftOnFile
<1>14. LiveCovered'
  <2> SUFFICES ASSUME NEW a \in DOMAIN queue, queue'[a].status \in {"pending", "claimed"},
                      queue[a].plan \notin cut_plans, a \notin late
               PROVE  Covered(a)' \/ BeingCancelled(a)'
    BY <1>1, <1>5 DEF LiveCovered
  <2>1. a # x.action /\ queue[a].status \in {"pending", "claimed"}
    BY <1>5
  <2>2. Covered(a) \/ BeingCancelled(a)
    BY <1>7, <2>1 DEF PreparedInv, LiveCovered, InMaking
  <2>3. CASE Covered(a)
    BY <1>1, <1>5, <2>3 DEF Covered
  <2>4. CASE BeingCancelled(a)
    BY <1>1, <1>5, <1>7, <2>1, <2>4 DEF BeingCancelled
  <2> QED BY <2>2, <2>3, <2>4
<1>15. \A y \in prepared : y.status \in {"queued", "cancelled"} => y.action \in DOMAIN queue
  BY DEF PreparedInv, ItemsFit, Fits, Shape
<1>16. \A y \in prepared : Crossed(y).status = "cancelled" /\ Crossed(y) \notin job.left
  BY DEF Crossed, PreparedInv, Shape, PostItem, Unsaved
<1>17. CancelledIs'
  BY <1>1, <1>5, <1>15 DEF PreparedInv, ItemsTell, CancelledIs
<1>18. QueuedIs'
  BY <1>1, <1>5, <1>7, <1>12, <1>15, <1>16 DEF PreparedInv, ItemsTell, QueuedIs
<1>19. QueuedWas'
  BY <1>1, <1>7, <1>16 DEF PreparedInv, ItemsTell, QueuedWas
<1>20. LeftOnFile' /\ MadeIsWanted'
  <2>1. \A y \in job.left : y \in prepared
    BY <1>16 DEF PreparedInv, ItemsTell, LeftOnFile
  <2> QED BY <1>1, <1>2, <1>4, <1>6, <1>7, <2>1 DEF LeftOnFile, MadeIsWanted
<1> QED BY <1>8, <1>9, <1>10, <1>11, <1>14, <1>17, <1>18, <1>19, <1>20 DEF PreparedInv, ItemsTell


\* An item is saved with the status it has come to.
LEMMA SaveSupersededKeeps ==
    ASSUME PreparedInv, NEW x \in job.left, SaveSuperseded(x)
    PROVE  PreparedInv'
<1> DEFINE new == [x EXCEPT !.status = StatusAfter(x)]
           gone == {y \in prepared : <<y.batch, y.post>> = <<x.batch, x.post>>}
<1>1. /\ plan' = plan /\ plan_ok' = plan_ok /\ batches' = batches /\ queue' = queue
      /\ activations' = activations /\ returns' = returns /\ deaths' = deaths /\ late' = late
      /\ cut_plans' = cut_plans /\ (Existing' <=> Existing)
      /\ ActiveBatches' = ActiveBatches /\ NewBatch' = NewBatch
  BY DEF SaveSuperseded, ActiveBatches, Existing, NewBatch
<1>2. job.stage = "cancel" /\ x.status # "queued" /\ x \in PostItem /\ x.batch = job.batch
  <2>1. job.stage = "cancel" /\ x.status # "queued"
    BY DEF SaveSuperseded
  <2>2. x \in prepared \/ \E y \in prepared : x = Crossed(y)
    BY <2>1 DEF PreparedInv, ItemsTell, LeftOnFile
  <2>3. \A y \in PostItem : Crossed(y) \in PostItem
    BY DEF Crossed, PostItem, PreparedStatus
  <2> QED BY <2>1, <2>2, <2>3 DEF PreparedInv, Bookkeeping, JobCancels, Shape
<1>3. /\ job' \in Job /\ job'.stage = "cancel" /\ job'.left = job.left \ {x}
      /\ job'.made = {} /\ job.made = {} /\ job'.batch = job.batch
  BY <1>2 DEF SaveSuperseded, PreparedInv, Shape, Job, Bookkeeping, JobMakes
<1>4. /\ new \in PostItem /\ new.batch = x.batch /\ new.post = x.post /\ new.action = x.action
      /\ new.status # "queued" /\ (new.status = "cancelled" => x.status = "cancelled")
  BY <1>2 DEF StatusAfter, PostItem, PreparedStatus
<1>5. prepared' = (prepared \ gone) \cup {new}
  BY DEF SaveSuperseded
<1>6. PICK z \in prepared : /\ z.batch = x.batch /\ z.post = x.post /\ z.action = x.action
                            /\ x.status = "cancelled" => queue[x.action].status = "cancelled"
  <2>1. CASE x \in prepared
    BY <2>1 DEF PreparedInv, ItemsTell, CancelledIs
  <2>2. CASE x \notin prepared
    <3>1. PICK y \in prepared : x = Crossed(y) /\ queue[x.action].status = "cancelled"
      BY <1>2, <2>2 DEF PreparedInv, ItemsTell, LeftOnFile
    <3>2. y \in PostItem
      BY DEF PreparedInv, Shape
    <3>3. x.batch = y.batch /\ x.post = y.post /\ x.action = y.action
      BY <3>1, <3>2 DEF Crossed, PostItem
    <3> QED BY <3>1, <3>3
  <2> QED BY <2>1, <2>2
<1>7. /\ z \in gone
      /\ \A y \in gone : y.batch = job.batch /\ y.batch = x.batch /\ y.post = x.post
  BY <1>2, <1>6
<1>8. /\ \A y \in prepared' : y.status = "queued" => y \in prepared /\ y \notin gone
      /\ \A y \in prepared \ gone : y # x /\ Crossed(y) # x
  <2>1. \A y \in prepared \ gone : <<y.batch, y.post>> # <<x.batch, x.post>> /\ y \in PostItem
    BY DEF PreparedInv, Shape
  <2>2. \A y \in PostItem : Crossed(y).batch = y.batch /\ Crossed(y).post = y.post
    BY DEF Crossed, PostItem
  <2>3. \A y \in prepared \ gone : y # x /\ Crossed(y) # x
    BY <2>1, <2>2
  <2> QED BY <1>4, <1>5, <2>3
<1> HIDE DEF new
<1>9. Shape'
  <2>1. prepared' \subseteq PostItem
    BY <1>4, <1>5 DEF PreparedInv, Shape
  <2> QED BY <1>1, <1>3, <2>1 DEF PreparedInv, Shape
<1>10. ItemsFit'
  <2>1. Fits(z) /\ z.batch \in DOMAIN batches
    BY DEF PreparedInv, ItemsFit
  <2>2. Fits(new)
    <3>1. new.status = "cancelled" => z.action # 0
      <4> SUFFICES ASSUME new.status = "cancelled" PROVE x.action # 0
        BY <1>6
      <4>1. x.status = "cancelled"
        BY <1>4
      <4>2. CASE x \in prepared
        BY <4>1, <4>2 DEF PreparedInv, ItemsFit, Fits
      <4>3. CASE x \notin prepared
        <5>1. PICK y \in prepared : x = Crossed(y) /\ y.status = "queued"
          BY <1>2, <4>3 DEF PreparedInv, ItemsTell, LeftOnFile
        <5>2. y \in PostItem /\ y.action # 0
          BY <5>1 DEF PreparedInv, ItemsFit, Fits, Shape
        <5> QED BY <5>1, <5>2 DEF Crossed, PostItem
      <4> QED BY <4>2, <4>3
    <3> QED BY <1>4, <1>6, <2>1, <3>1 DEF Fits
  <2>3. \A y \in prepared' \cup job'.made : Fits(y)
    BY <1>3, <1>5, <2>2 DEF PreparedInv, ItemsFit
  <2>4. \A y \in prepared' : y.batch \in DOMAIN batches'
    BY <1>1, <1>4, <1>5, <1>6, <2>1 DEF PreparedInv, ItemsFit
  <2> QED BY <1>1, <2>3, <2>4 DEF ItemsFit, Fits
<1>11. OwnActions' /\ OnePerPost'
  <2>1. \A y \in prepared \ gone : y.action = new.action /\ y.action # 0 => FALSE
    BY <1>4, <1>6, <1>7 DEF PreparedInv, OwnActions
  <2>2. \A y \in prepared \ gone : ~(y.batch = new.batch /\ y.post = new.post)
    BY <1>4
  <2> QED BY <1>3, <1>5, <2>1, <2>2 DEF PreparedInv, OwnActions, OnePerPost
<1>12. Bookkeeping'
  <2>1. JobMakes' /\ OldPlans' /\ OneActive' /\ StaleNoted'
    BY <1>1, <1>3 DEF PreparedInv, Bookkeeping, JobMakes, OldPlans, OneActive, StaleNoted
  <2>2. JobCancels'
    BY <1>1, <1>2, <1>3 DEF PreparedInv, Bookkeeping, JobCancels
  <2> QED BY <2>1, <2>2 DEF Bookkeeping
<1>13. QueuedByPlan' /\ QueuedOnce'
  BY <1>1, <1>2, <1>3 DEF PreparedInv, QueuedByPlan, QueuedOnce
<1>14. LiveCovered'
  <2> SUFFICES ASSUME NEW a \in DOMAIN queue, queue[a].status \in {"pending", "claimed"},
                      queue[a].plan \notin cut_plans, a \notin late
               PROVE  Covered(a)' \/ BeingCancelled(a)'
    BY <1>1 DEF LiveCovered
  <2>1. Covered(a) \/ BeingCancelled(a)
    BY <1>3 DEF PreparedInv, LiveCovered, InMaking
  <2>2. CASE Covered(a)
    <3>1. ~batches[job.batch].active
      BY <1>2 DEF PreparedInv, Bookkeeping, JobCancels
    <3>2. PICK y \in prepared : /\ y.action = a /\ y.status = "queued"
                                /\ batches[y.batch].active
                                /\ batches[y.batch].plan = queue[a].plan
      BY <2>2 DEF Covered
    <3>3. y \notin gone
      BY <1>7, <3>1, <3>2
    <3>4. y \in prepared'
      BY <1>5, <3>3
    <3> QED BY <1>1, <3>2, <3>4 DEF Covered
  <2>3. CASE BeingCancelled(a)
    BY <1>1, <1>2, <1>3, <2>3 DEF BeingCancelled
  <2> QED BY <2>1, <2>2, <2>3
<1>15. CancelledIs' /\ MadeIsWanted'
  BY <1>1, <1>3, <1>4, <1>5, <1>6 DEF PreparedInv, ItemsTell, CancelledIs, MadeIsWanted
<1>16. QueuedWas'
  BY <1>1, <1>3, <1>8 DEF PreparedInv, ItemsTell, QueuedWas
<1>17. QueuedIs'
  BY <1>1, <1>3, <1>8 DEF PreparedInv, ItemsTell, QueuedIs
<1>18. LeftOnFile'
  <2> SUFFICES ASSUME NEW y \in job.left, y # x
               PROVE  \/ y \in prepared'
                      \/ /\ y.status = "cancelled" /\ queue[y.action].status = "cancelled"
                         /\ \E w \in prepared' : w.status = "queued" /\ y = Crossed(w)
    BY <1>1, <1>3 DEF LeftOnFile
  <2>1. y.post # x.post /\ y.batch = x.batch
    BY <1>2 DEF PreparedInv, Bookkeeping, JobCancels
  <2>2. y.status # "cancelled"
    BY DEF SaveSuperseded, Unsaved
  <2>3. y \in prepared
    BY <1>2, <2>2 DEF PreparedInv, ItemsTell, LeftOnFile
  <2> QED BY <1>5, <1>7, <2>1, <2>3
<1> QED BY <1>9, <1>10, <1>11, <1>12, <1>13, <1>14, <1>15, <1>16, <1>17, <1>18
        DEF PreparedInv, ItemsTell


\* A batch is dealt with.
LEMMA InvalidatedKeeps ==
    ASSUME PreparedInv, BatchInvalidated \/ Invalidated
    PROVE  PreparedInv'
<1>1. /\ plan' = plan /\ plan_ok' = plan_ok /\ batches' = batches /\ prepared' = prepared
      /\ queue' = queue /\ activations' = activations /\ returns' = returns /\ deaths' = deaths
      /\ late' = late /\ cut_plans' = cut_plans /\ (Existing' <=> Existing)
      /\ ActiveBatches' = ActiveBatches /\ NewBatch' = NewBatch
  BY DEF BatchInvalidated, Invalidated, ActiveBatches, Existing, NewBatch
<1>2. /\ job' \in Job /\ job'.made = {} /\ job.made = {} /\ job'.batch = 0
      /\ job'.stage \in {"invalidate", "enqueue", "none"}
      /\ job.stage \in {"invalidate", "cancel"}
      /\ job.stage = "cancel" => job.left = {}
      /\ job'.stage # "invalidate" => Stale = {}
      /\ job'.stage = "enqueue" => ~Existing /\ job'.left = Post
  <2>1. CASE BatchInvalidated
    BY <2>1 DEF BatchInvalidated, PreparedInv, Shape, Job, Bookkeeping, JobMakes, Stage
  <2>2. CASE Invalidated
    <3>1. NoJob \in Job /\ NoJob.stage = "none" /\ NoJob.made = {} /\ NoJob.batch = 0
      BY DEF NoJob, Job, Stage
    <3>2. job.stage = "invalidate" /\ Stale = {} /\ job.made = {} /\ job.batch = 0 /\ job \in Job
      BY <2>2 DEF Invalidated, PreparedInv, Shape, Bookkeeping, JobMakes, JobCancels
    <3>3. CASE job' = NoJob
      BY <3>1, <3>2, <3>3
    <3>4. CASE ~Existing /\ job' = [job EXCEPT !.stage = "enqueue", !.left = Post]
      BY <3>2, <3>4 DEF Job, Stage
    <3> QED BY <2>2, <3>3, <3>4 DEF Invalidated
  <2> QED BY <2>1, <2>2
<1>3. Shape'
  BY <1>1, <1>2 DEF PreparedInv, Shape
<1>4. ItemsFit' /\ OwnActions' /\ OnePerPost'
  BY <1>1, <1>2 DEF PreparedInv, ItemsFit, Fits, OwnActions, OnePerPost
<1>5. job'.stage # "invalidate" => \A b \in ActiveBatches : batches[b].plan = plan
  BY <1>2 DEF Stale, StaleBatches
<1>6. job'.stage = "enqueue" => ActiveBatches = {}
  BY <1>2, <1>5 DEF Existing
<1>7. Bookkeeping'
  BY <1>1, <1>2, <1>5, <1>6
     DEF PreparedInv, Bookkeeping, JobMakes, JobCancels, OldPlans, OneActive, StaleNoted
<1>8. QueuedByPlan' /\ QueuedOnce'
  BY <1>1, <1>2 DEF PreparedInv, QueuedByPlan, QueuedOnce
<1>9. LiveCovered'
  BY <1>1, <1>2 DEF PreparedInv, LiveCovered, Covered, InMaking, BeingCancelled
<1>10. LeftOnFile' /\ MadeIsWanted' /\ CancelledIs'
  BY <1>1, <1>2 DEF PreparedInv, ItemsTell, LeftOnFile, MadeIsWanted, CancelledIs
<1>11. QueuedWas' /\ QueuedIs'
  BY <1>1, <1>2 DEF PreparedInv, ItemsTell, QueuedWas, QueuedIs
<1> QED BY <1>3, <1>4, <1>7, <1>8, <1>9, <1>10, <1>11 DEF PreparedInv, ItemsTell

\* The bot dies: what it was working on is noted as cut.
LEMMA DeathKeeps ==
    ASSUME PreparedInv, Dies
    PROVE  PreparedInv'
<1> DEFINE cut == IF job.batch = 0 THEN plan ELSE batches[job.batch].plan
<1>1. /\ plan' = plan /\ plan_ok' = plan_ok /\ batches' = batches /\ prepared' = prepared
      /\ queue' = queue /\ activations' = activations /\ returns' = returns /\ late' = late
      /\ (Existing' <=> Existing) /\ ActiveBatches' = ActiveBatches /\ job' = NoJob
      /\ deaths' = deaths + 1 /\ deaths < MaxDeaths
  BY DEF Dies, ActiveBatches, Existing
<1>2. NoJob \in Job /\ NoJob.stage = "none" /\ NoJob.made = {} /\ NoJob.batch = 0
  BY DEF NoJob, Job, Stage
<1>3. /\ cut_plans \subseteq cut_plans' /\ cut \in cut_plans'
      /\ \A b \in ActiveBatches : batches[b].plan = plan \/ batches[b].plan \in cut_plans'
      /\ cut_plans' = cut_plans \cup {cut} \cup {batches[b].plan : b \in StaleBatches}
  BY DEF Dies, StaleBatches
<1>4. deaths \in Nat /\ deaths' \in 0..MaxDeaths /\ deaths' > 0
  BY <1>1, PreparedConstantsOK DEF PreparedInv, Shape
<1>5. /\ job.stage = "cancel" => /\ job.batch # 0 /\ cut = batches[job.batch].plan
                                 /\ job.batch \in DOMAIN batches
      /\ job.stage # "cancel" => cut = plan
  BY DEF PreparedInv, Bookkeeping, JobCancels, Shape
<1> HIDE DEF cut
<1>6. cut_plans' \subseteq Plans
  <2>1. cut \in Plans
    BY <1>5, ElementsFit DEF PreparedInv, Shape
  <2>2. \A b \in StaleBatches : batches[b].plan \in Plans
    BY ElementsFit DEF PreparedInv, StaleBatches, ActiveBatches
  <2> QED BY <1>3, <2>1, <2>2 DEF PreparedInv, Shape
<1>7. Shape'
  BY <1>1, <1>2, <1>4, <1>6 DEF PreparedInv, Shape
<1>8. ItemsFit' /\ OwnActions' /\ OnePerPost'
  BY <1>1, <1>2 DEF PreparedInv, ItemsFit, Fits, OwnActions, OnePerPost
<1>9. Bookkeeping'
  BY <1>1, <1>2, <1>3
     DEF PreparedInv, Bookkeeping, JobMakes, JobCancels, OldPlans, OneActive, StaleNoted
<1>10. QueuedByPlan' /\ QueuedOnce'
  BY <1>1, <1>2, <1>3, <1>5 DEF PreparedInv, QueuedByPlan, QueuedOnce
<1>11. LiveCovered'
  BY <1>1, <1>2, <1>3, <1>5 DEF PreparedInv, LiveCovered, Covered, InMaking, BeingCancelled
<1>12. LeftOnFile' /\ MadeIsWanted' /\ CancelledIs' /\ QueuedIs'
  BY <1>1, <1>2, <1>4 DEF PreparedInv, ItemsTell, LeftOnFile, MadeIsWanted, CancelledIs, QueuedIs
<1>13. QueuedWas'
  BY <1>1, <1>2, <1>3, <1>5 DEF PreparedInv, ItemsTell, QueuedWas
<1> QED BY <1>7, <1>8, <1>9, <1>10, <1>11, <1>12, <1>13 DEF PreparedInv, ItemsTell

\* The batch is saved, and is the active one.
LEMMA BatchKeeps ==
    ASSUME PreparedInv, SaveBatch
    PROVE  PreparedInv'
<1> DEFINE new == [plan |-> plan, active |-> TRUE]
<1>1. /\ plan' = plan /\ plan_ok' = plan_ok /\ prepared' = prepared /\ queue' = queue
      /\ activations' = activations /\ returns' = returns /\ deaths' = deaths /\ late' = late
      /\ cut_plans' = cut_plans /\ batches' = Append(batches, new)
      /\ job.stage = "enqueue" /\ job.left = {} /\ job' = [job EXCEPT !.stage = "items"]
  BY DEF SaveBatch
<1>2. /\ job' \in Job /\ job'.stage = "items" /\ job'.left = {} /\ job'.made = job.made
      /\ job'.batch = job.batch
  BY <1>1 DEF PreparedInv, Shape, Job, Stage
<1>3. new \in BatchRecord /\ new.plan = plan /\ new.active
  BY DEF BatchRecord, PreparedInv, Shape
<1> HIDE DEF new
<1>4. /\ batches' \in Seq(BatchRecord) /\ Len(batches') = Len(batches) + 1
      /\ DOMAIN batches' = DOMAIN batches \cup {Len(batches) + 1}
      /\ Len(batches) + 1 \notin DOMAIN batches
      /\ batches'[Len(batches) + 1] = new
      /\ \A b \in DOMAIN batches : batches'[b] = batches[b]
  BY <1>1, <1>3 DEF PreparedInv, Shape
<1>5. ActiveBatches = {} /\ ActiveBatches' = {Len(batches) + 1}
  <2>1. ActiveBatches = {}
    BY <1>1 DEF PreparedInv, Bookkeeping, JobMakes
  <2> QED BY <1>3, <1>4, <2>1 DEF ActiveBatches
<1>6. Shape'
  BY <1>1, <1>2, <1>4 DEF PreparedInv, Shape
<1>7. ItemsFit' /\ OwnActions' /\ OnePerPost'
  BY <1>1, <1>2, <1>4 DEF PreparedInv, ItemsFit, Fits, OwnActions, OnePerPost
<1>8. Bookkeeping'
  <2>1. JobMakes' /\ JobCancels'
    BY <1>1, <1>2, <1>3, <1>4, <1>5 DEF PreparedInv, Bookkeeping, JobMakes, JobCancels, NewBatch
  <2>2. OldPlans'
    BY <1>1, <1>3, <1>4 DEF PreparedInv, Bookkeeping, OldPlans, Shape, Plans
  <2>3. OneActive' /\ StaleNoted'
    BY <1>1, <1>3, <1>4, <1>5 DEF OneActive, StaleNoted
  <2> QED BY <2>1, <2>2, <2>3 DEF Bookkeeping
<1>9. QueuedByPlan' /\ QueuedOnce'
  <2>1. Existing'
    BY <1>1, <1>3, <1>4, <1>5 DEF Existing
  <2> QED BY <1>1, <2>1 DEF PreparedInv, QueuedByPlan, QueuedOnce
<1>10. \A x \in prepared : batches'[x.batch] = batches[x.batch]
  BY <1>4 DEF PreparedInv, ItemsFit
<1>11. LiveCovered'
  <2> SUFFICES ASSUME NEW a \in DOMAIN queue, queue[a].status \in {"pending", "claimed"},
                      queue[a].plan \notin cut_plans, a \notin late
               PROVE  Covered(a)' \/ InMaking(a)'
    BY <1>1 DEF LiveCovered
  <2>1. Covered(a) \/ InMaking(a)
    BY <1>1 DEF PreparedInv, LiveCovered, BeingCancelled
  <2>2. CASE Covered(a)
    <3>1. PICK x \in prepared : /\ x.action = a /\ x.status = "queued"
                                /\ batches[x.batch].active
                                /\ batches[x.batch].plan = queue[a].plan
      BY <2>2 DEF Covered
    <3>2. batches'[x.batch].active /\ batches'[x.batch].plan = queue'[a].plan
      BY <1>1, <1>10, <3>1
    <3> QED BY <1>1, <3>1, <3>2 DEF Covered
  <2>3. CASE InMaking(a)
    BY <1>1, <1>2, <2>3 DEF InMaking
  <2> QED BY <2>1, <2>2, <2>3
<1>12. LeftOnFile' /\ MadeIsWanted' /\ CancelledIs' /\ QueuedIs'
  BY <1>1, <1>2 DEF PreparedInv, ItemsTell, LeftOnFile, MadeIsWanted, CancelledIs, QueuedIs
<1>13. QueuedWas'
  BY <1>1, <1>2, <1>10 DEF PreparedInv, ItemsTell, QueuedWas
<1> QED BY <1>6, <1>7, <1>8, <1>9, <1>11, <1>12, <1>13 DEF PreparedInv, ItemsTell

\* The items of the batch are saved.
LEMMA ItemsKeep ==
    ASSUME PreparedInv, SaveItems
    PROVE  PreparedInv'
<1>1. /\ plan' = plan /\ plan_ok' = plan_ok /\ batches' = batches /\ queue' = queue
      /\ activations' = activations /\ returns' = returns /\ deaths' = deaths /\ late' = late
      /\ cut_plans' = cut_plans /\ (Existing' <=> Existing) /\ ActiveBatches' = ActiveBatches
      /\ job.stage = "items" /\ job' = NoJob /\ prepared' = prepared \cup job.made
  BY DEF SaveItems, ActiveBatches, Existing
<1>2. NoJob \in Job /\ NoJob.stage = "none" /\ NoJob.made = {} /\ NoJob.batch = 0
  BY DEF NoJob, Job, Stage
<1>3. /\ \A x \in job.made : /\ x.batch \in DOMAIN batches /\ batches[x.batch].active
                             /\ batches[x.batch].plan = plan
      /\ \A x \in job.made : x.status # "cancelled" /\ x \in PostItem
  BY <1>1 DEF PreparedInv, Bookkeeping, JobMakes, ActiveBatches, ItemsTell, MadeIsWanted, Shape, Job
<1>4. Shape'
  BY <1>1, <1>2, <1>3 DEF PreparedInv, Shape
<1>5. ItemsFit' /\ OwnActions' /\ OnePerPost'
  BY <1>1, <1>2, <1>3 DEF PreparedInv, ItemsFit, Fits, OwnActions, OnePerPost
<1>6. Bookkeeping'
  BY <1>1, <1>2 DEF PreparedInv, Bookkeeping, JobMakes, JobCancels, OldPlans, OneActive, StaleNoted
<1>7. QueuedByPlan' /\ QueuedOnce'
  BY <1>1, <1>2 DEF PreparedInv, QueuedByPlan, QueuedOnce
<1>8. LiveCovered'
  BY <1>1, <1>2, <1>3 DEF PreparedInv, LiveCovered, Covered, InMaking, BeingCancelled
<1>9. LeftOnFile' /\ MadeIsWanted' /\ CancelledIs'
  BY <1>1, <1>2, <1>3 DEF PreparedInv, ItemsTell, LeftOnFile, MadeIsWanted, CancelledIs
<1>10. QueuedWas'
  BY <1>1, <1>2, <1>3 DEF PreparedInv, ItemsTell, QueuedWas
<1>11. QueuedIs'
  <2>1. \A x \in job.made : x.status = "queued" => queue[x.action].status # "cancelled"
    BY DEF PreparedInv, ItemsTell, MadeIsWanted, ItemsFit, Fits
  <2> QED BY <1>1, <1>2, <2>1 DEF PreparedInv, ItemsTell, QueuedIs
<1> QED BY <1>4, <1>5, <1>6, <1>7, <1>8, <1>9, <1>10, <1>11 DEF PreparedInv, ItemsTell

\* A post becomes an item, and an action if it is due.
LEMMA MaterializeKeeps ==
    ASSUME PreparedInv, Materialize
    PROVE  PreparedInv'
<1>1. PICK post \in job.left :
         /\ queue' = IF post \in Due
                     THEN Append(queue, [plan |-> plan, post |-> post, status |-> "pending"])
                     ELSE queue
         /\ job' = [job EXCEPT
              !.left = @ \ {post},
              !.made = @ \cup {[batch |-> NewBatch, post |-> post, status |-> InitialStatus(post),
                                action |-> IF post \in Due THEN Len(queue) + 1 ELSE 0]}]
  BY DEF Materialize
<1>2. /\ plan' = plan /\ plan_ok' = plan_ok /\ batches' = batches /\ prepared' = prepared
      /\ activations' = activations /\ returns' = returns /\ deaths' = deaths /\ late' = late
      /\ cut_plans' = cut_plans /\ (Existing' <=> Existing) /\ NewBatch' = NewBatch
      /\ ActiveBatches' = ActiveBatches /\ job.stage = "enqueue"
  BY DEF Materialize, ActiveBatches, Existing, NewBatch
<1>3. post \in Post /\ ActiveBatches = {} /\ \A x \in job.made : x.batch = NewBatch /\ x.post # post
  BY <1>2 DEF PreparedInv, Bookkeeping, JobMakes
<1> DEFINE new == [batch |-> NewBatch, post |-> post, status |-> InitialStatus(post),
                   action |-> IF post \in Due THEN Len(queue) + 1 ELSE 0]
           todo == [plan |-> plan, post |-> post, status |-> "pending"]
<1>4. /\ new \in PostItem /\ new.batch = NewBatch /\ new.post = post
      /\ new.status # "cancelled" /\ (new.status = "queued" <=> post \in Due)
      /\ new.action = IF post \in Due THEN Len(queue) + 1 ELSE 0
  <2>1. /\ InitialStatus(post) \in PreparedStatus /\ InitialStatus(post) # "cancelled"
        /\ InitialStatus(post) = "queued" <=> post \in Due
    BY <1>3, PreparedConstantsOK DEF InitialStatus, Post, PreparedStatus
  <2>2. Len(queue) \in Nat /\ NewBatch \in Nat
    BY DEF PreparedInv, Shape, NewBatch
  <2> HIDE DEF InitialStatus
  <2> QED BY <1>3, <2>1, <2>2 DEF PostItem
<1>5. post \in Due => todo \in Action /\ todo.plan = plan /\ todo.post = post /\ todo.status = "pending"
  BY DEF Action, ActionStatus, PreparedInv, Shape
<1>6. /\ job' \in Job /\ job'.stage = "enqueue" /\ job'.left = job.left \ {post}
      /\ job'.made = job.made \cup {new} /\ job'.batch = job.batch
  BY <1>1, <1>2, <1>4 DEF PreparedInv, Shape, Job
<1>7. post \in Due => queue' = Append(queue, todo)
  BY <1>1
<1>8. post \notin Due => queue' = queue
  BY <1>1
<1> HIDE DEF new, todo
<1>9. /\ queue' \in Seq(Action) /\ DOMAIN queue \subseteq DOMAIN queue' /\ Len(queue) <= Len(queue')
      /\ Len(queue) \in Nat /\ DOMAIN queue = 1..Len(queue) /\ Len(queue') \in Nat
      /\ \A a \in DOMAIN queue : queue'[a] = queue[a]
      /\ post \in Due => /\ DOMAIN queue' = DOMAIN queue \cup {Len(queue) + 1}
                         /\ queue'[Len(queue) + 1] = todo /\ Len(queue') = Len(queue) + 1
      /\ post \notin Due => queue' = queue
  <2>1. queue \in Seq(Action)
    BY DEF PreparedInv, Shape
  <2>2. CASE post \in Due
    BY <1>5, <1>7, <2>1, <2>2
  <2>3. CASE post \notin Due
    BY <1>8, <2>1, <2>3
  <2> QED BY <2>2, <2>3
<1>10. Shape'
  BY <1>2, <1>6, <1>9 DEF PreparedInv, Shape
<1>11. ItemsFit'
  <2>1. new.action \in 0..Len(queue') /\ (new.action # 0 <=> new.post \in Due)
        /\ (new.status \in {"queued", "cancelled"} => new.action # 0)
    BY <1>4, <1>9
  <2>2. \A x \in prepared \cup job.made : x.action \in 0..Len(queue')
    BY <1>9 DEF PreparedInv, ItemsFit, Fits
  <2> QED BY <1>2, <1>6, <2>1, <2>2 DEF PreparedInv, ItemsFit, Fits
<1>12. OwnActions'
  <2>1. \A x \in prepared \cup job.made : x.action = new.action => new.action = 0
    BY <1>4, <1>9 DEF PreparedInv, ItemsFit, Fits
  <2> QED BY <1>2, <1>6, <2>1 DEF PreparedInv, OwnActions
<1>13. OnePerPost'
  <2>1. \A x \in prepared : x.batch # NewBatch
    BY DEF PreparedInv, ItemsFit, Shape, NewBatch
  <2>2. \A x \in prepared \cup job.made : ~(x.batch = new.batch /\ x.post = new.post)
    BY <1>3, <1>4, <2>1
  <2> QED BY <1>2, <1>6, <2>2 DEF PreparedInv, OnePerPost
<1>14. Bookkeeping'
  <2>1. JobMakes' /\ JobCancels' /\ OneActive' /\ StaleNoted'
    BY <1>2, <1>3, <1>4, <1>6
       DEF PreparedInv, Bookkeeping, JobMakes, JobCancels, OneActive, StaleNoted
  <2>2. plan \in Int
    BY DEF PreparedInv, Shape, Plans
  <2>3. OldPlans'
    BY <1>2, <1>5, <1>9, <2>2 DEF PreparedInv, Bookkeeping, OldPlans
  <2> QED BY <2>1, <2>3 DEF Bookkeeping
<1>15. \A a \in DOMAIN queue :
         queue[a].plan = plan => plan \in cut_plans \/ queue[a].post \notin job.left
  BY <1>2, <1>3 DEF PreparedInv, QueuedByPlan, Existing
<1>16. QueuedByPlan' /\ QueuedOnce'
  <2>1. QueuedByPlan'
    BY <1>2, <1>5, <1>6, <1>9, <1>15 DEF QueuedByPlan
  <2>2. \A a \in DOMAIN queue :
          post \in Due /\ queue[a].plan = todo.plan /\ queue[a].post = todo.post
            => queue[a].plan \in cut_plans
    BY <1>5, <1>15
  <2>3. ASSUME NEW a \in DOMAIN queue', NEW b \in DOMAIN queue', a # b,
               queue'[a].plan = queue'[b].plan, queue'[a].post = queue'[b].post
        PROVE  queue'[a].plan \in cut_plans
    <3>1. \A c \in DOMAIN queue' \ DOMAIN queue :
            post \in Due /\ c = Len(queue) + 1 /\ queue'[c] = todo
      BY <1>9
    <3>2. \A c \in DOMAIN queue : queue'[c] = queue[c]
      BY <1>9
    <3>3. CASE a \in DOMAIN queue /\ b \in DOMAIN queue
      BY <2>3, <3>2, <3>3 DEF PreparedInv, QueuedOnce
    <3>4. CASE a \notin DOMAIN queue \/ b \notin DOMAIN queue
      BY <2>2, <2>3, <3>1, <3>2, <3>4
    <3> QED BY <3>3, <3>4
  <2>4. QueuedOnce'
    BY <1>2, <2>3 DEF QueuedOnce
  <2> QED BY <2>1, <2>4
<1>17. LiveCovered'
  <2> SUFFICES ASSUME NEW a \in DOMAIN queue', queue'[a].status \in {"pending", "claimed"},
                      queue'[a].plan \notin cut_plans, a \notin late
               PROVE  Covered(a)' \/ InMaking(a)'
    BY <1>2 DEF LiveCovered
  <2>1. CASE a \in DOMAIN queue
    <3>1. Covered(a) \/ InMaking(a)
      BY <1>2, <1>9, <2>1 DEF PreparedInv, LiveCovered, BeingCancelled
    <3> QED BY <1>2, <1>6, <1>9, <2>1, <3>1 DEF Covered, InMaking
  <2>2. CASE a \notin DOMAIN queue
    <3>1. post \in Due /\ a = Len(queue) + 1 /\ queue'[a] = todo
      BY <1>9, <2>2
    <3> QED BY <1>2, <1>4, <1>5, <1>6, <3>1 DEF InMaking
  <2> QED BY <2>1, <2>2
<1>18. \A x \in prepared \cup job.made : x.action # 0 => x.action \in DOMAIN queue
  BY <1>9 DEF PreparedInv, ItemsFit, Fits
<1>19. \A x \in prepared : x.status \in {"queued", "cancelled"} => x.action \in DOMAIN queue
  BY <1>18 DEF PreparedInv, ItemsFit, Fits
<1>20. LeftOnFile' /\ CancelledIs' /\ QueuedIs' /\ QueuedWas'
  BY <1>2, <1>6, <1>9, <1>19
     DEF PreparedInv, ItemsTell, LeftOnFile, CancelledIs, QueuedIs, QueuedWas
<1>21. MadeIsWanted'
  BY <1>2, <1>4, <1>5, <1>6, <1>9, <1>18 DEF PreparedInv, ItemsTell, MadeIsWanted
<1> QED BY <1>10, <1>11, <1>12, <1>13, <1>14, <1>16, <1>17, <1>20, <1>21 DEF PreparedInv, ItemsTell


------------------------------------------------------------------------------
(* The theorems.                                                           *)

\* The invariant is inductive.
LEMMA PreparedInductive == PreparedSpec => []PreparedInv
<1>1. PreparedInit => PreparedInv
  BY InitHolds
<1>2. PreparedInv /\ [PreparedNext]_prepared_vars => PreparedInv'
  <2> SUFFICES ASSUME PreparedInv, [PreparedNext]_prepared_vars PROVE PreparedInv'
    OBVIOUS
  <2>1. CASE UNCHANGED prepared_vars
    BY <2>1 DEF prepared_vars, PreparedInv, Shape, ItemsFit, Fits, OwnActions, OnePerPost,
                Bookkeeping, JobMakes, JobCancels, OldPlans, OneActive, StaleNoted, QueuedByPlan,
                LiveCovered, Covered, InMaking, BeingCancelled, ItemsTell, LeftOnFile,
                MadeIsWanted, CancelledIs, QueuedWas, QueuedIs, QueuedOnce, ActiveBatches,
                Existing, NewBatch
  <2>2. CASE RevisePlan \/ ApprovePlan \/ ActivatePlan
    BY <2>2, OperatorKeeps
  <2>3. CASE Supersede
    BY <2>3, SupersedeKeeps DEF Supersede
  <2>4. ASSUME NEW x \in job.left, CancelAction(x) PROVE PreparedInv'
    <3>1. CASE Cancellable(x.action)
      BY <2>4, <3>1, CancelKeeps DEF CancelAction, Crossed
    <3>2. CASE ~Cancellable(x.action)
      BY <2>4, <3>2, LateKeeps DEF CancelAction
    <3> QED BY <3>1, <3>2
  <2>5. ASSUME NEW x \in job.left, SaveSuperseded(x) PROVE PreparedInv'
    BY <2>5, SaveSupersededKeeps
  <2>6. CASE BatchInvalidated \/ Invalidated
    BY <2>6, InvalidatedKeeps
  <2>7. CASE Materialize
    BY <2>7, MaterializeKeeps
  <2>8. CASE SaveBatch
    BY <2>8, BatchKeeps
  <2>9. CASE SaveItems
    BY <2>9, ItemsKeep
  <2>10. CASE Dies
    BY <2>10, DeathKeeps
  <2>11. CASE ClaimAction \/ ExecuteAction \/ ReturnAction
    <3>1. returns \in 0..MaxReturns /\ (returns < MaxReturns => returns + 1 \in 0..MaxReturns)
      BY PreparedConstantsOK DEF PreparedInv, Shape
    <3>2. \E a \in DOMAIN queue, s \in {"pending", "claimed", "done"} : Works(a, s)
      BY <2>11, <3>1 DEF ClaimAction, ExecuteAction, ReturnAction, Works
    <3> QED BY <3>2, WorkersKeep
  <2> QED BY <2>1, <2>2, <2>3, <2>4, <2>5, <2>6, <2>7, <2>8, <2>9, <2>10, <2>11 DEF PreparedNext
<1> QED BY <1>1, <1>2, PTL DEF PreparedSpec

\* The files and the queue of prepared execution keep their types, whatever the revisions,
\* activations, deaths and workers.
THEOREM PreparedTypes == PreparedSpec => []PreparedTypeOK
<1>1. PreparedInv => PreparedTypeOK
  <2> SUFFICES ASSUME PreparedInv PROVE PreparedTypeOK
    OBVIOUS
  <2>1. /\ Shape /\ job.stage \in Stage
        /\ batches \in Seq([plan : Plans, active : BOOLEAN])
        /\ queue \in Seq([plan : Plans, post : Due, status : ActionStatus])
    BY DEF PreparedInv, Shape, Job, BatchRecord, Action
  <2>2. ASSUME NEW x \in prepared
        PROVE  /\ x.batch \in DOMAIN batches /\ x.post \in Post /\ x.status \in PreparedStatus
               /\ x.action # 0 <=> x.post \in Due
               /\ x.status = "queued" => x.action \in DOMAIN queue
    <3>1. x \in PostItem /\ Fits(x) /\ x.batch \in DOMAIN batches /\ DOMAIN queue = 1..Len(queue)
      BY DEF PreparedInv, Shape, ItemsFit
    <3> QED BY <3>1 DEF PostItem, Fits
  <2> QED BY <2>1, <2>2 DEF PreparedTypeOK, Shape, Stage
<1> QED BY <1>1, PreparedInductive, PTL

\* activate_latest_plan queues no post of a plan twice, however often it is called, unless
\* the bot died while it worked on that plan.
THEOREM PostsQueuedOnce == PreparedSpec => []QueuedOnce
<1>1. PreparedInv => QueuedOnce
  BY DEF PreparedInv
<1> QED BY <1>1, PreparedInductive, PTL

\* invalidate_stale_prepared_state: at most one batch is active, what is still pending of
\* an older plan was in a worker's hands or cut off by a death, and the items say so.
THEOREM RevisionsTakeEffect == PreparedSpec => []RevisionTakesEffect
<1>1. PreparedInv => RevisionTakesEffect
  <2> SUFFICES ASSUME PreparedInv PROVE RevisionTakesEffect
    OBVIOUS
  <2>1. NoJob.stage = "none"
    BY DEF NoJob
  <2>2. Cardinality(ActiveBatches) <= 1
    <3>1. CASE ActiveBatches = {}
      BY <3>1, FS_EmptySet
    <3>2. ASSUME NEW b \in ActiveBatches PROVE Cardinality(ActiveBatches) <= 1
      <4>1. ActiveBatches = {b}
        BY DEF PreparedInv, Bookkeeping, OneActive
      <4>2. Cardinality({b}) = 1
        BY FS_Singleton
      <4> QED BY <4>1, <4>2
    <3> QED BY <3>1, <3>2
  <2>3. OneActiveBatch
    BY <2>1, <2>2 DEF OneActiveBatch, PreparedInv, Bookkeeping, StaleNoted
  <2>4. NothingStalePending
    <3> SUFFICES ASSUME job = NoJob, NEW a \in DOMAIN queue, queue[a].status = "pending",
                        queue[a].plan # plan, queue[a].plan \notin cut_plans, a \notin late
                 PROVE  FALSE
      BY DEF NothingStalePending
    <3>1. PICK x \in prepared : batches[x.batch].active /\ batches[x.batch].plan = queue[a].plan
      BY <2>1 DEF PreparedInv, LiveCovered, Covered, InMaking, BeingCancelled
    <3>2. x.batch \in ActiveBatches
      BY <3>1 DEF PreparedInv, ItemsFit, ActiveBatches
    <3> QED BY <2>1, <3>1, <3>2 DEF PreparedInv, Bookkeeping, StaleNoted
  <2>5. ItemsTellTheTruth
    <3>1. deaths \in Nat
      BY DEF PreparedInv, Shape
    <3>2. \A x \in prepared : x.status = "cancelled" => queue[x.action].status = "cancelled"
      BY DEF PreparedInv, ItemsTell, CancelledIs
    <3>3. \A x \in prepared : x.status = "queued" /\ ~batches[x.batch].active /\ job = NoJob
                                => x.action \in late \/ batches[x.batch].plan \in cut_plans
      BY <2>1 DEF PreparedInv, ItemsTell, QueuedWas
    <3>4. \A x \in prepared : x.status = "queued" =>
                                queue[x.action].status # "cancelled" \/ deaths > 0 \/ job # NoJob
      BY <2>1, <3>1 DEF PreparedInv, ItemsTell, QueuedIs
    <3> QED BY <3>2, <3>3, <3>4 DEF ItemsTellTheTruth
  <2> QED BY <2>3, <2>4, <2>5 DEF RevisionTakesEffect
<1> QED BY <1>1, PreparedInductive, PTL

------------------------------------------------------------------------------
(* The queue is used by its contract.                                      *)

\* What the entries of the contract are.
LEMMA EntriesOfQueue ==
    ASSUME Shape, Shape'
    PROVE  /\ DOMAIN Entries = 1..Len(queue) /\ DOMAIN Entries' = 1..Len(queue')
           /\ Len(queue) \in Nat /\ Len(queue') \in Nat
           /\ \A a \in DOMAIN queue : Entries[a] = queue[a].status
           /\ \A a \in DOMAIN queue' : Entries'[a] = queue'[a].status
BY DEF Entries, Shape

\* A new status for an action is a new status for its entry and no other.
LEMMA EntryChanges ==
    ASSUME Shape, Shape', NEW a \in DOMAIN queue, NEW s \in ActionStatus,
           queue' = [queue EXCEPT ![a].status = s]
    PROVE  /\ a \in DOMAIN Entries' /\ a \in DOMAIN Entries /\ Entries[a] = queue[a].status
           /\ Entries' = [Entries EXCEPT ![a] = s]
<1>1. /\ Len(queue') = Len(queue) /\ queue'[a].status = s
      /\ \A b \in DOMAIN queue \ {a} : queue'[b] = queue[b]
  BY StatusChanges DEF SameActions
<1>2. DOMAIN queue' = DOMAIN queue /\ DOMAIN queue = 1..Len(queue)
  BY <1>1 DEF Shape
<1>3. Entries' = [b \in DOMAIN queue |-> IF b = a THEN s ELSE queue[b].status]
  BY <1>1, <1>2 DEF Entries
<1>4. Entries = [b \in DOMAIN queue |-> queue[b].status]
  BY DEF Entries
<1> QED BY <1>2, <1>3, <1>4

\* Each step that touches the queue is one of the contract's.
LEMMA QueueStep ==
    ASSUME PreparedInv, PreparedInv', [PreparedNext]_prepared_vars
    PROVE  Queue!Next \/ Entries' = Entries
<1>0. Shape /\ Shape' /\ {"pending", "claimed", "done", "cancelled"} = ActionStatus
  BY DEF PreparedInv, ActionStatus
<1>1. queue' = queue => Entries' = Entries
  BY DEF Entries
<1>2. CASE Materialize
  <2>1. CASE queue' = queue
    BY <1>1, <2>1
  <2>2. CASE queue' # queue
    <3>1. PICK post \in Due :
            queue' = Append(queue, [plan |-> plan, post |-> post, status |-> "pending"])
      BY <1>2, <2>2 DEF Materialize
    <3> DEFINE r == [plan |-> plan, post |-> post, status |-> "pending"]
               n == Len(queue) + 1
    <3>2. queue \in Seq(Action) /\ r \in Action /\ r.status = "pending"
      BY <1>0 DEF Shape, Action
    <3> HIDE DEF r
    <3>3. /\ Len(queue') = n /\ queue'[n] = r
          /\ \A b \in 1..Len(queue) : queue'[b] = queue[b]
      BY <3>1, <3>2 DEF r
    <3>4. /\ n \in DOMAIN Entries' /\ n \notin DOMAIN Entries
          /\ DOMAIN queue' = DOMAIN Entries \cup {n} /\ DOMAIN queue = DOMAIN Entries
      BY <1>0, <3>3, EntriesOfQueue DEF Shape
    <3>5. Entries' = [b \in DOMAIN Entries \cup {n} |-> IF b = n THEN "pending" ELSE Entries[b]]
      <4>1. Entries' = [b \in DOMAIN Entries \cup {n} |-> queue'[b].status]
        BY <3>4 DEF Entries
      <4>2. \A b \in DOMAIN Entries \cup {n} :
               queue'[b].status = IF b = n THEN "pending" ELSE Entries[b]
        BY <1>0, <3>2, <3>3, <3>4, EntriesOfQueue
      <4> QED BY <4>1, <4>2
    <3>6. Queue!Put(n)
      BY <3>4, <3>5 DEF Queue!Put
    <3> QED BY <3>4, <3>6 DEF Queue!Next
  <2> QED BY <2>1, <2>2
<1>3. ASSUME NEW x \in job.left, CancelAction(x) PROVE Queue!Next \/ Entries' = Entries
  <2>1. CASE queue' = queue
    BY <1>1, <2>1
  <2>2. CASE queue' # queue
    <3>1. /\ queue[x.action].status = "pending"
          /\ queue' = [queue EXCEPT ![x.action].status = "cancelled"]
      BY <1>3, <2>2 DEF CancelAction, Cancellable
    <3>2. x.action \in DOMAIN queue
      <4>1. x \in prepared /\ x.action # 0
        BY <1>3 DEF CancelAction, PreparedInv, ItemsTell, LeftOnFile, ItemsFit, Fits
      <4> QED BY <1>0, <4>1 DEF PreparedInv, ItemsFit, Fits, Shape
    <3>3. /\ x.action \in DOMAIN Entries' /\ x.action \in DOMAIN Entries
          /\ Entries[x.action] = "pending"
          /\ Entries' = [Entries EXCEPT ![x.action] = "cancelled"]
      BY <1>0, <3>1, <3>2, EntryChanges
    <3> QED BY <3>3 DEF Queue!Next, Queue!Cancel
  <2> QED BY <2>1, <2>2
<1>4. CASE ClaimAction
  <2>1. PICK a \in DOMAIN queue : /\ queue[a].status = "pending"
                                  /\ queue' = [queue EXCEPT ![a].status = "claimed"]
    BY <1>4 DEF ClaimAction
  <2>2. /\ a \in DOMAIN Entries' /\ a \in DOMAIN Entries /\ Entries[a] = "pending"
        /\ Entries' = [Entries EXCEPT ![a] = "claimed"]
    BY <1>0, <2>1, EntryChanges
  <2>3. Entries' = [j \in DOMAIN Entries |-> IF j = a THEN "claimed"
                                             ELSE IF j \in {} THEN "pending" ELSE Entries[j]]
    BY <2>2 DEF Entries
  <2>4. Queue!Take(a, {})
    BY <2>2, <2>3 DEF Queue!Take
  <2> QED BY <2>2, <2>4 DEF Queue!Next
<1>5. CASE ExecuteAction
  <2>1. PICK a \in DOMAIN queue : /\ queue[a].status = "claimed"
                                  /\ queue' = [queue EXCEPT ![a].status = "done"]
    BY <1>5 DEF ExecuteAction
  <2>2. /\ a \in DOMAIN Entries' /\ a \in DOMAIN Entries /\ Entries[a] = "claimed"
        /\ Entries' = [Entries EXCEPT ![a] = "done"]
    BY <1>0, <2>1, EntryChanges
  <2> QED BY <2>2 DEF Queue!Next, Queue!Finish
<1>6. CASE ReturnAction
  <2>1. PICK a \in DOMAIN queue : /\ queue[a].status = "claimed"
                                  /\ queue' = [queue EXCEPT ![a].status = "pending"]
    BY <1>6 DEF ReturnAction
  <2>2. /\ a \in DOMAIN Entries' /\ a \in DOMAIN Entries /\ Entries[a] = "claimed"
        /\ Entries' = [Entries EXCEPT ![a] = "pending"]
    BY <1>0, <2>1, EntryChanges
  <2> QED BY <2>2 DEF Queue!Next, Queue!PutBack
<1>7. ASSUME \/ RevisePlan \/ ApprovePlan \/ ActivatePlan \/ Supersede
             \/ \E x \in job.left : SaveSuperseded(x)
             \/ BatchInvalidated \/ Invalidated \/ SaveBatch \/ SaveItems \/ Dies
             \/ UNCHANGED prepared_vars
      PROVE  Entries' = Entries
  BY <1>1, <1>7 DEF RevisePlan, ApprovePlan, ActivatePlan, Supersede, SaveSuperseded, BatchInvalidated,
                    Invalidated, SaveBatch, SaveItems, Dies, prepared_vars
<1> QED BY <1>2, <1>3, <1>4, <1>5, <1>6, <1>7 DEF PreparedNext

\* Activations, revisions and the workers as they are seen from here ask no more of the
\* queue than LiveExecution gives: enqueue_action makes a new record,
\* cancel_action_if_pending never touches what a worker has in hand, and what was sent or
\* cancelled is not queued again under its number.
THEOREM QueueUsedByContract == PreparedSpec => UsesContract
<1>1. PreparedInit => Queue!Init
  BY DEF PreparedInit, Queue!Init, Entries
<1>2. PreparedInv /\ PreparedInv' /\ [PreparedNext]_prepared_vars => [Queue!Next]_Entries
  BY QueueStep
<1> QED BY <1>1, <1>2, PreparedInductive, PTL DEF PreparedSpec, UsesContract, Queue!Spec
=============================================================================
