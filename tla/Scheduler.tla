------------------------------- MODULE Scheduler -------------------------------
(***************************************************************************)
(* Recurring work (telegram_app/scheduling and handle_scheduled_work of    *)
(* the orchestrator).                                                      *)
(*                                                                         *)
(* Several schedulers poll; the one that gets the lease lists the due      *)
(* schedules and works through its list: it opens the work item of the     *)
(* schedule, runs the agent, saves the item, and records the outcome in    *)
(* schedules.json, which it reads and replaces whole, like the bot process *)
(* when the operator pauses, resumes or creates a schedule.  The lease is  *)
(* looked at once, before the list.                                        *)
(*                                                                         *)
(* Times are kept as the distance to now, so the clock needs no bound.     *)
(***************************************************************************)
EXTENDS Naturals, FiniteSets

CONSTANTS
    Worker,             \* scheduler processes
    Bot,                \* the process of the operator's bot
    Gone, Nobody,       \* lease owners: a process that has died; none yet
    MaxSchedules,       \* bound: schedules the operator creates
    Observation,        \* which of them are of work type observation
    Interval,           \* interval_minutes, the same for all
    LeaseTTL,           \* DEFAULT_LEASE_TTL_SECONDS
    PauseAfterMisses,   \* pause_after_consecutive_misses, the same for all
    MaxInterrupts,      \* bound: deaths of schedulers and passes that raise
    MaxControls,        \* bound: pauses, resumes and acceptances of the operator
    PassesFit,          \* TRUE: a pass ends before its lease does
    WritesDontOverlap   \* TRUE: nobody loads schedules.json while another is
                        \* between his load and his replacement

ASSUME SchedulerConstantsOK ==
    /\ Bot \notin Worker /\ Gone \notin Worker /\ Nobody \notin Worker
    /\ MaxSchedules \in Nat /\ Observation \subseteq 1..MaxSchedules
    /\ Interval \in Nat \ {0} /\ LeaseTTL \in Nat \ {0, 1} /\ PauseAfterMisses \in Nat \ {0}
    /\ MaxInterrupts \in Nat /\ MaxControls \in Nat /\ PassesFit \in BOOLEAN /\ WritesDontOverlap \in BOOLEAN

Id == 1..MaxSchedules
Editor == Worker \cup {Bot}
ScheduleRecord == [status : {"active", "paused"}, due : 0..Interval,
                   misses : 0..PauseAfterMisses]
Specialist == Id \ Observation
OpenItem == {"in_progress", "review_pending", "escalated"}

VARIABLES
    lease,       \* scheduler-lease.json: its owner and the time it has left
    pass,        \* pass[w]: stage, ids listed, id in work, time since its start
    schedules,   \* schedules.json of a campaign
    edit,        \* edit[p]: how far process p's update of that file is
    item,        \* the work item of each specialist's schedule
    interrupts, controls,
    runs,        \* history: how often a schedule was begun for its due time
    cut,         \* history: how many of these runs were cut off
    after_pause, \* history: runs begun while the schedule was stored as paused
    resumed      \* history: schedules resumed since their last outcome

scheduler_vars == <<lease, pass, schedules, edit, item, interrupts, controls, runs, cut,
                    after_pause, resumed>>
history == <<runs, cut, after_pause, resumed>>

Waiting == [stage |-> "idle", todo |-> {}, at |-> 0, age |-> 0]
NoEdit == [stage |-> "none", id |-> 0, change |-> "none", copy |-> <<>>, record |-> <<>>]
Busy(w) == pass[w].stage # "idle"
HandledBy(w, i) == pass[w].at = i
IsDue(i) == i \in DOMAIN schedules /\ schedules[i].status = "active" /\ schedules[i].due = 0

------------------------------------------------------------------------------
(* An update of schedules.json: the record is loaded and changed, then the *)
(* whole file is loaded and replaced.                                      *)

Edit(p, i, change) ==
    edit' = [edit EXCEPT ![p] = [NoEdit EXCEPT !.stage = "get", !.id = i, !.change = change]]

NextDue(age) == IF age < Interval THEN Interval - age ELSE 0

\* Misses beyond the limit make no difference: they are not counted here.
OneMore(misses) == IF misses < PauseAfterMisses THEN misses + 1 ELSE misses
Missed(r) == [r EXCEPT !.misses = OneMore(@),
                       !.status = IF r.misses + 1 >= PauseAfterMisses THEN "paused" ELSE @]
\* Mutant: the outcome makes the schedule active.
ChangedActive(r, change, age) ==
    CASE change = "pause"  -> [r EXCEPT !.status = "paused"]
      [] change = "resume" -> [r EXCEPT !.status = "active", !.due = Interval]
      [] change = "hit"    -> [r EXCEPT !.due = NextDue(age), !.misses = 0,
                                        !.status = "active"]
      [] change = "miss"   -> [Missed(r) EXCEPT !.due = NextDue(age)]

\* update_status and record_outcome.
Changed(r, change, age) ==
    CASE change = "pause"  -> [r EXCEPT !.status = "paused"]
      [] change = "resume" -> [r EXCEPT !.status = "active", !.due = Interval]
      [] change = "hit"    -> [r EXCEPT !.due = NextDue(age), !.misses = 0]
      [] change = "miss"   -> [Missed(r) EXCEPT !.due = NextDue(age)]

Age(p) == IF p \in Worker THEN pass[p].age ELSE 0

MayLoad(p) ==
    WritesDontOverlap => \A q \in Editor \ {p} : edit[q].stage \notin {"list", "write"}

\* A schedule that another process has overwritten with a file without it is left alone.
GetSchedule(p) ==
    /\ edit[p].stage = "get" /\ MayLoad(p)
    /\ LET i == edit[p].id
       IN  edit' = [edit EXCEPT ![p] =
             IF i \in DOMAIN schedules
             THEN [@ EXCEPT !.stage = "list",
                            !.record = Changed(schedules[i], edit[p].change, Age(p))]
             ELSE IF p = Bot THEN NoEdit ELSE [@ EXCEPT !.stage = "lost"]]
    /\ UNCHANGED <<lease, pass, schedules, item, interrupts, controls, history>>

ListSchedules(p) ==
    /\ edit[p].stage \in {"new", "list"} /\ MayLoad(p)
    /\ edit' = [edit EXCEPT ![p].stage = "write", ![p].copy = schedules]
    /\ UNCHANGED <<lease, pass, schedules, item, interrupts, controls, history>>

Replaced(copy, i, record) ==
    [j \in DOMAIN copy \cup {i} |-> IF j = i THEN record ELSE copy[j]]

WriteSchedules(p) ==
    /\ edit[p].stage = "write"
    /\ LET i == edit[p].id
       IN  /\ schedules' = Replaced(edit[p].copy, i, edit[p].record)
           /\ runs' = IF edit[p].change = "pause" THEN runs ELSE [runs EXCEPT ![i] = 0]
           /\ cut' = IF edit[p].change = "pause" THEN cut ELSE [cut EXCEPT ![i] = 0]
           /\ after_pause' = IF edit[p].record.status = "active"
                             THEN [after_pause EXCEPT ![i] = 0] ELSE after_pause
           /\ resumed' = IF edit[p].change = "resume" THEN resumed \cup {i}
                         ELSE IF edit[p].change = "pause" THEN resumed ELSE resumed \ {i}
    /\ edit' = [edit EXCEPT ![p] = IF p = Bot THEN NoEdit ELSE [@ EXCEPT !.stage = "done", !.copy = <<>>]]
    /\ UNCHANGED <<lease, pass, item, interrupts, controls>>

------------------------------------------------------------------------------
(* A scheduler.                                                            *)

\* Mutants: a lease is taken over a little early, or never.
FreeSoon(w) == lease.owner \in {w, Nobody} \/ lease.left <= 1
FreeForOwner(w) == lease.owner \in {w, Nobody}
Free(w) == lease.owner \in {w, Nobody} \/ lease.left = 0

\* try_acquire_or_renew.
Acquire(w) ==
    /\ pass[w].stage = "idle" /\ Free(w)
    /\ lease' = [owner |-> w, left |-> LeaseTTL]
    /\ pass' = [pass EXCEPT ![w].stage = "list", ![w].age = 0]
    /\ UNCHANGED <<schedules, edit, item, interrupts, controls, history>>

\* Mutant: list_due compares with the status only.
DueWhenPaused(i) == schedules[i].due = 0
Lists(i) == schedules[i].status = "active" /\ schedules[i].due = 0

\* list_due.
ListDue(w) ==
    /\ pass[w].stage = "list"
    /\ pass' = [pass EXCEPT ![w].todo = {i \in DOMAIN schedules : Lists(i)},
                            ![w].stage = "dispatch"]
    /\ UNCHANGED <<lease, schedules, edit, item, interrupts, controls, history>>

EndPass(w) ==
    /\ pass[w].stage = "dispatch" /\ pass[w].todo = {}
    /\ pass' = [pass EXCEPT ![w] = Waiting]
    /\ UNCHANGED <<lease, schedules, edit, item, interrupts, controls, history>>

\* The next one in the order of the file.  It goes by the list: the schedule is not
\* loaded again.
Dispatch(w, i, stage) ==
    /\ pass[w].stage = "dispatch" /\ i \in pass[w].todo
    /\ \A j \in pass[w].todo : i <= j
    /\ pass' = [pass EXCEPT ![w].stage = stage, ![w].todo = @ \ {i}, ![w].at = i]
    /\ runs' = [runs EXCEPT ![i] = @ + 1]
    /\ after_pause' = IF i \in DOMAIN schedules /\ schedules[i].status = "paused"
                      THEN [after_pause EXCEPT ![i] = @ + 1] ELSE after_pause

\* handle_scheduled_work as far as the agent: the open work item of the schedule is
\* refreshed and keeps its status, or a new one is opened.
Begin(w, i) ==
    /\ Dispatch(w, i, "work")
    /\ item' = IF i \in Specialist /\ item[i] \notin OpenItem
               THEN [item EXCEPT ![i] = "in_progress"] ELSE item
    /\ UNCHANGED <<lease, schedules, edit, interrupts, controls, cut, resumed>>

\* An observation schedule that finds no signals has no work item to refresh.
NothingToObserve(w, i) ==
    /\ i \in Observation /\ Dispatch(w, i, "outcome")
    /\ \E change \in {"hit", "miss"} : Edit(w, i, change)
    /\ UNCHANGED <<lease, schedules, item, interrupts, controls, cut, resumed>>

\* What the agent may come to.  A failed specialist run is an escalated item and a
\* miss, like one without an artifact if the schedule counts anything.
Results == {<<"review_pending", "hit">>, <<"review_pending", "miss">>,
            <<"escalated", "hit">>, <<"escalated", "miss">>}

Answer(w) ==
    /\ pass[w].stage = "work"
    /\ \E result \in Results :
         /\ item' = IF pass[w].at \in Specialist
                    THEN [item EXCEPT ![pass[w].at] = result[1]] ELSE item
         /\ Edit(w, pass[w].at, result[2])
    /\ pass' = [pass EXCEPT ![w].stage = "outcome"]
    /\ UNCHANGED <<lease, schedules, interrupts, controls, history>>

\* _apply_scheduled_work_outcome: a schedule that the outcome finds paused is
\* reported as an escalation, whoever paused it.
ItemAfter(i, update) ==
    IF i \in Specialist /\ update.stage = "done" /\ update.record.status = "paused"
    THEN [item EXCEPT ![i] = "escalated"] ELSE item

Settle(w) ==
    /\ pass[w].stage = "outcome" /\ edit[w].stage \in {"done", "lost"}
    /\ item' = ItemAfter(pass[w].at, edit[w])
    /\ edit' = [edit EXCEPT ![w] = NoEdit]
    /\ pass' = [pass EXCEPT ![w].stage = "dispatch", ![w].at = 0]
    /\ UNCHANGED <<lease, schedules, interrupts, controls, history>>

CutOff(w) ==
    /\ interrupts < MaxInterrupts
    /\ interrupts' = interrupts + 1
    /\ pass' = [pass EXCEPT ![w] = Waiting]
    /\ edit' = [edit EXCEPT ![w] = NoEdit]
    /\ cut' = IF pass[w].at = 0 THEN cut ELSE [cut EXCEPT ![pass[w].at] = @ + 1]
    /\ UNCHANGED <<schedules, item, controls, runs, after_pause, resumed>>

\* run_forever logs what an observation raises: the pass is over, for every schedule.
Raise(w) ==
    /\ pass[w].stage = "work" /\ pass[w].at \in Observation
    /\ CutOff(w)
    /\ UNCHANGED lease

\* A restarted scheduler has a new owner_id.
Die(w) ==
    /\ Busy(w) /\ CutOff(w)
    /\ lease' = IF lease.owner = w THEN [lease EXCEPT !.owner = Gone] ELSE lease

------------------------------------------------------------------------------
(* The operator.                                                           *)

Create(i) ==
    /\ edit[Bot].stage = "none" /\ i \notin DOMAIN schedules
    /\ \A j \in Id : j < i => j \in DOMAIN schedules
    /\ edit' = [edit EXCEPT ![Bot] =
                  [NoEdit EXCEPT !.stage = "new", !.id = i, !.change = "create",
                                 !.record = [status |-> "active", due |-> Interval,
                                             misses |-> 0]]]
    /\ UNCHANGED <<lease, pass, schedules, item, interrupts, controls, history>>

PauseSchedule(i) ==
    /\ controls < MaxControls /\ controls' = controls + 1
    /\ edit[Bot].stage = "none" /\ schedules[i].status = "active"
    /\ Edit(Bot, i, "pause")
    /\ UNCHANGED <<lease, pass, schedules, item, interrupts, history>>

ResumeSchedule(i) ==
    /\ controls < MaxControls /\ controls' = controls + 1
    /\ edit[Bot].stage = "none" /\ schedules[i].status = "paused"
    /\ Edit(Bot, i, "resume")
    /\ UNCHANGED <<lease, pass, schedules, item, interrupts, history>>

\* The operator accepts what an item holds.
CompleteItem(i) ==
    /\ controls < MaxControls /\ controls' = controls + 1
    /\ item[i] \in {"review_pending", "escalated"}
    /\ item' = [item EXCEPT ![i] = "completed"]
    /\ UNCHANGED <<lease, pass, schedules, edit, interrupts, history>>

------------------------------------------------------------------------------
Sooner(n) == IF n = 0 THEN 0 ELSE n - 1
Closer(r) == [r EXCEPT !.due = Sooner(@)]
AllCloser(s) == [i \in DOMAIN s |-> Closer(s[i])]

Clock ==
    /\ PassesFit => \A w \in Worker : Busy(w) => lease.left > 1
    /\ lease' = [lease EXCEPT !.left = Sooner(@)]
    /\ schedules' = AllCloser(schedules)
    /\ edit' = [p \in Editor |->
                  [edit[p] EXCEPT !.copy = AllCloser(@),
                                  !.record = IF edit[p].stage \in {"new", "list", "write", "done"}
                                             THEN Closer(@) ELSE @]]
    /\ pass' = [w \in Worker |->
                  [pass[w] EXCEPT !.age = IF Busy(w) /\ @ < Interval THEN @ + 1 ELSE @]]
    /\ UNCHANGED <<item, interrupts, controls, history>>

SchedulerInit ==
    /\ lease = [owner |-> Nobody, left |-> 0]
    /\ pass = [w \in Worker |-> Waiting]
    /\ schedules = <<>> /\ edit = [p \in Editor |-> NoEdit]
    /\ item = [i \in Specialist |-> "none"] /\ interrupts = 0 /\ controls = 0
    /\ runs = [i \in Id |-> 0] /\ cut = [i \in Id |-> 0]
    /\ after_pause = [i \in Id |-> 0] /\ resumed = {}

WorkerStep(w) ==
    \/ Acquire(w) \/ ListDue(w) \/ EndPass(w) \/ Answer(w) \/ Settle(w)
    \/ \E i \in Id : Begin(w, i) \/ NothingToObserve(w, i)

EditStep(p) == GetSchedule(p) \/ ListSchedules(p) \/ WriteSchedules(p)

SchedulerNext ==
    \/ \E w \in Worker : WorkerStep(w) \/ Raise(w) \/ Die(w)
    \/ \E p \in Editor : EditStep(p)
    \/ \E i \in Id : Create(i)
    \/ \E i \in DOMAIN schedules : PauseSchedule(i) \/ ResumeSchedule(i)
    \/ \E i \in Specialist : CompleteItem(i)
    \/ Clock

SchedulerSpec == SchedulerInit /\ [][SchedulerNext]_scheduler_vars

\* run_forever polls for ever, an update that has begun goes on, time passes.
SchedulerFairSpec ==
    /\ SchedulerSpec
    /\ \A w \in Worker : WF_scheduler_vars(WorkerStep(w) \/ EditStep(w))
    /\ WF_scheduler_vars(EditStep(Bot))
    /\ WF_scheduler_vars(Clock)

------------------------------------------------------------------------------
SchedulerTypeOK ==
    /\ lease \in [owner : Worker \cup {Gone, Nobody}, left : 0..LeaseTTL]
    /\ pass \in [Worker -> [stage : {"idle", "list", "dispatch", "work", "outcome"},
                            todo : SUBSET Id, at : 0..MaxSchedules, age : 0..Interval]]
    /\ schedules \in [DOMAIN schedules -> ScheduleRecord] /\ DOMAIN schedules \subseteq Id
    /\ \A p \in Editor :
         /\ edit[p].stage \in {"none", "new", "get", "list", "write", "done", "lost"}
         /\ edit[p].stage # "none" => edit[p].id \in Id
         /\ edit[p].stage \in {"new", "list", "write", "done"} => edit[p].record \in ScheduleRecord
    /\ item \in [Specialist -> OpenItem \cup {"none", "completed"}]
    /\ interrupts \in 0..MaxInterrupts /\ controls \in 0..MaxControls
    /\ runs \in [Id -> Nat] /\ cut \in [Id -> Nat] /\ after_pause \in [Id -> Nat]
    /\ resumed \subseteq Id

Unhindered == PassesFit /\ WritesDontOverlap

\* While passes end before their lease does, one scheduler is at work at a time.
OnePassAtATime ==
    PassesFit => \A v, w \in Worker : Busy(v) /\ Busy(w) => v = w

\* Without overlapping writes, a due time is worked off once, and once more for each
\* run that was cut off.
DispatchedOnce == Unhindered => \A i \in Id : runs[i] <= 1 + cut[i]

\* A schedule the operator has paused is begun once more at most: by the pass that
\* had listed it before.
PauseLeaksOneRun == Unhindered => \A i \in Id : after_pause[i] <= 1

\* A schedule that has missed its target too often does not go on by itself.
MissesStopSchedule ==
    WritesDontOverlap =>
      \A i \in DOMAIN schedules :
        schedules[i].status = "active" /\ schedules[i].misses >= PauseAfterMisses
          => i \in resumed

\* Whoever paused specialist work that kept missing, the operator is told by an
\* escalated item, unless the run that paused it was cut off.
PauseIsReported ==
    Unhindered =>
      \A i \in DOMAIN schedules \ Observation :
        /\ schedules[i].status = "paused" /\ schedules[i].misses >= PauseAfterMisses
        /\ i \notin resumed /\ cut[i] = 0 /\ \A w \in Worker : ~HandledBy(w, i)
        => item[i] \in {"escalated", "completed"}

\* A pause stops the schedule, whoever ordered it, and is no secret.
PauseStops == PauseLeaksOneRun /\ MissesStopSchedule /\ PauseIsReported

\* An outcome recorded late does not wake a schedule that was paused meanwhile.
PauseOutlivesRun ==
    [][WritesDontOverlap =>
         \A i \in DOMAIN schedules :
           /\ i \in DOMAIN schedules'
           /\ schedules[i].status = "paused" /\ schedules'[i].status = "active"
                => edit[Bot].change = "resume" /\ edit[Bot].id = i]_scheduler_vars

\* A schedule that is due is begun, put off or paused some day, though schedulers
\* die and observations raise.
DueIsServed ==
    \A i \in Id :
      IsDue(i) ~> (~IsDue(i) \/ \E w \in Worker : HandledBy(w, i))
=============================================================================
