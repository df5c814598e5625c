--------------------------- MODULE CompiledIntents ---------------------------
(***************************************************************************)
(* The compiled intents of one campaign (telegram_app/compiled_intents,    *)
(* orchestrator._apply_persisted_compiled_intent, coordinator              *)
(* ._persist_compiled_intent): every proposed change of runtime state is   *)
(* kept as a record, validated, accepted, applied or blocked, and saved at *)
(* each of these points.                                                   *)
(*                                                                         *)
(* The bot process and the review worker are clerks of one file.  A save   *)
(* reads the whole file and replaces it; the lock is one of the process.   *)
(* A clerk that dies, or whose change raises anything but the application  *)
(* error, is given the same task again.                                    *)
(***************************************************************************)
EXTENDS Naturals, Sequences, FiniteSets

CONSTANTS
    Clerks,           \* the processes: "bot", "reviewer"
    Batches,          \* Batches[c]: the sequences of proposals a task of clerk c may hold
    MaxTasks,         \* bound: messages and reviews
    MaxIntents,       \* bound: records made
    MaxTroubles       \* bound: deaths and unexpected exceptions

(* What a payload must hold: one of these sets of fields. *)
Enough ==
    [ schedule_create     |-> {{"owner_role", "work_type", "goal", "interval_minutes"}},
      schedule_pause      |-> {{"schedule_id"}, {"work_type"}},
      schedule_resume     |-> {{"schedule_id"}, {"work_type"}},
      work_propose        |-> {{"owner_role", "work_type", "goal"}},
      work_refresh        |-> {{"owner_role", "work_type", "goal"}},
      memory_note         |-> {{"destination", "line"}},
      review_request      |-> {{"summary", "work_item_id"}, {"summary", "owner_role", "work_type"}},
      enqueue_low_risk    |-> {{"account_id", "action_type", "community_id"},
                               {"account_id", "action_type", "chat_id"},
                               {"account_id", "action_type", "peer_id"}},
      enqueue_operator_send |-> {{"account_id", "action_type", "chat_id", "text"}},
      invalidate_stale    |-> {{"reason"}},
      belief_state        |-> {{"conversation_id", "belief_state"}},
      next_move           |-> {{"conversation_id", "decision"}},
      pause_or_resume_scope |-> {{"scope"}},
      review_control      |-> {{"review_id"}, {"scope"}},
      set_posture         |-> {{"scope", "posture_field", "requested_mode"}},
      update_safeguard    |-> {{"instruction"}, {"raw_text"}},
      planning_posture    |-> {{"work_type", "review_state", "operator_prompt"}},
      planning_follow_on  |-> {{"current_work_type", "recommended_next_work_type",
                                "recommended_action"}},
      planning_impact     |-> {{"work_type", "recommended_action", "reason"}} ]
Kinds == DOMAIN Enough
Proposals == [kind : Kinds, has : SUBSET STRING, key : STRING]

ASSUME IntentConstantsOK ==
    /\ Batches \in [Clerks -> SUBSET Seq(Proposals)]
    /\ MaxTasks \in Nat /\ MaxIntents \in Nat \ {0} /\ MaxTroubles \in Nat

Planning == {"planning_posture", "planning_follow_on", "planning_impact"}
Enqueuing == {"enqueue_low_risk", "enqueue_operator_send"}
IntentStatuses == {"absent", "proposed", "accepted", "rejected", "blocked", "applied"}

VARIABLES
    intent_file,     \* compiled-intents.json: the status of every record made so far
    desk,            \* desk[c]: the task of a clerk and the record it is at
    issued,          \* records made
    given,           \* tasks handed out
    repeats,         \* history: how often a task was handed out again
    troubles,
    recurring,       \* schedules.json: kind of work, status, the task it came from
    work,            \* the campaign's planning work item
    notes,           \* dedupe keys of the operational notes
    enqueued,        \* live actions: idempotency key, proposal, task and place in it
    effects,         \* history: records whose change was made
    overwritten      \* history: a save has replaced one it had not read

intent_vars == <<intent_file, desk, issued, given, repeats, troubles, recurring, work, notes,
                 enqueued, effects, overwritten>>
task_vars == <<issued, given, repeats, troubles>>
runtime_vars == <<recurring, work, notes, enqueued, effects>>

IntentIds == 1..MaxIntents
AtRest == [stage |-> "rest", task |-> 0, batch |-> <<>>, at |-> 0, id |-> 0,
           status |-> "absent", read |-> <<>>]
Proposal(c) == desk[c].batch[desk[c].at]

------------------------------------------------------------------------------
(* From a proposal to an accepted record.                                  *)

TakeTask(c) ==
    /\ desk[c].stage = "rest" /\ given < MaxTasks
    /\ \E b \in Batches[c] :
         desk' = [desk EXCEPT ![c] = [AtRest EXCEPT !.stage = "compile", !.task = given + 1,
                                                    !.batch = b]]
    /\ given' = given + 1
    /\ UNCHANGED <<intent_file, issued, repeats, troubles, overwritten>> /\ UNCHANGED runtime_vars

\* The next proposal of the batch gets a record with an identity of its own, and its
\* first save begins.
Compile(c) ==
    /\ desk[c].stage = "compile" /\ desk[c].at < Len(desk[c].batch) /\ issued < MaxIntents
    /\ issued' = issued + 1
    /\ desk' = [desk EXCEPT ![c].stage = "write", ![c].at = @ + 1, ![c].id = issued + 1,
                            ![c].status = "proposed", ![c].read = intent_file]
    /\ UNCHANGED <<intent_file, given, repeats, troubles, overwritten>> /\ UNCHANGED runtime_vars

Answer(c) ==
    /\ desk[c].stage = "compile" /\ desk[c].at = Len(desk[c].batch)
    /\ desk' = [desk EXCEPT ![c] = AtRest]
    /\ UNCHANGED <<intent_file, overwritten>> /\ UNCHANGED task_vars /\ UNCHANGED runtime_vars

ReadFile(c) ==
    /\ desk[c].stage = "read"
    /\ desk' = [desk EXCEPT ![c].stage = "write", ![c].read = intent_file]
    /\ UNCHANGED <<intent_file, overwritten>> /\ UNCHANGED task_vars /\ UNCHANGED runtime_vars

Valid(p) == \E fields \in Enough[p.kind] : fields \subseteq p.has

\* Mutant: an accepted record is applied first and saved with its outcome only.
AfterSaveLate(c) ==
    LET p == Proposal(c) s == desk[c].status IN
    CASE s = "proposed" -> IF ~ Valid(p) THEN [stage |-> "read", status |-> "rejected"]
                           ELSE [stage |-> "apply", status |-> "accepted"]
      [] OTHER -> [stage |-> "compile", status |-> s]
\* What follows a save: the verdict of the validation, the change itself, or the next
\* proposal.  What specialists advise ends as accepted.
AfterSave(c) ==
    LET p == Proposal(c) s == desk[c].status IN
    CASE s = "proposed" -> [stage |-> "read",
                            status |-> IF Valid(p) THEN "accepted" ELSE "rejected"]
      [] s = "accepted" /\ ~ (c = "bot" /\ p.kind \in Planning) -> [stage |-> "apply", status |-> s]
      [] OTHER -> [stage |-> "compile", status |-> s]

WriteFile(c) ==
    /\ desk[c].stage = "write"
    /\ intent_file' = [desk[c].read EXCEPT ![desk[c].id] = desk[c].status]
    /\ overwritten' = (overwritten \/ intent_file # desk[c].read)
    /\ LET next == AfterSave(c) IN
       desk' = [desk EXCEPT ![c].stage = next.stage, ![c].status = next.status, ![c].read = <<>>]
    /\ UNCHANGED task_vars /\ UNCHANGED runtime_vars

------------------------------------------------------------------------------
(* Applying it.                                                            *)

Outcome(c, verdict) == desk' = [desk EXCEPT ![c].stage = "read", ![c].status = verdict]
Done(c) ==
    /\ Outcome(c, "applied") /\ effects' = effects \cup {desk[c].id}
    /\ UNCHANGED <<intent_file, overwritten>> /\ UNCHANGED task_vars
Blocked(c) ==
    /\ Outcome(c, "blocked")
    /\ UNCHANGED <<intent_file, overwritten>> /\ UNCHANGED task_vars /\ UNCHANGED runtime_vars

Applies(c, kind) == desk[c].stage = "apply" /\ Proposal(c).kind = kind

\* create_interval_schedule makes a new schedule whatever there is already.
CreateSchedule(c) ==
    /\ Applies(c, "schedule_create")
    /\ recurring' = Append(recurring, [status |-> "active", task |-> desk[c].task])
    /\ Done(c) /\ UNCHANGED <<work, notes, enqueued>>

\* The schedule updated last among those in the opposite status.
ChangeSchedule(c) ==
    /\ Applies(c, "schedule_pause") \/ Applies(c, "schedule_resume")
    /\ LET from == IF Proposal(c).kind = "schedule_pause" THEN "active" ELSE "paused"
           to == IF from = "active" THEN "paused" ELSE "active"
           found == {i \in DOMAIN recurring : recurring[i].status = from} IN
       IF found = {} THEN Blocked(c)
       ELSE LET i == CHOOSE i \in found : \A j \in found : j <= i
                rest == [j \in 1..(Len(recurring) - 1) |-> recurring[IF j < i THEN j ELSE j + 1]]
            IN /\ recurring' = Append(rest, [recurring[i] EXCEPT !.status = to])
               /\ Done(c) /\ UNCHANGED <<work, notes, enqueued>>

EnsureWork(c) ==
    /\ Applies(c, "work_propose") \/ Applies(c, "work_refresh")
    /\ work' = IF Proposal(c).kind = "work_propose" THEN "pending" ELSE "in_progress"
    /\ Done(c) /\ UNCHANGED <<recurring, notes, enqueued>>

RequestReview(c) ==
    /\ Applies(c, "review_request")
    /\ IF work = "none" THEN Blocked(c)
       ELSE work' = "review_pending" /\ Done(c) /\ UNCHANGED <<recurring, notes, enqueued>>

AppendNote(c) ==
    /\ Applies(c, "memory_note")
    /\ notes' = notes \cup {IF Proposal(c).key = "none" THEN <<"intent", desk[c].id>>
                            ELSE <<"given", 0>>}
    /\ Done(c) /\ UNCHANGED <<recurring, work, enqueued>>

\* Controls, belief states, invalidations and recorded moves: their effects are those of
\* HeldReplies, ConversationReview and PreparedExecution.
ApplyElsewhere(c) ==
    /\ desk[c].stage = "apply"
    /\ Proposal(c).kind \in {"belief_state", "next_move", "invalidate_stale", "pause_or_resume_scope",
                             "review_control", "set_posture", "update_safeguard"} \cup Planning
    /\ \/ Proposal(c).kind \notin Planning /\ Done(c) /\ UNCHANGED <<recurring, work, notes, enqueued>>
       \/ Blocked(c)

\* evaluate_policy of the candidate, before anything is queued.
AskPolicy(c) ==
    /\ desk[c].stage = "apply" /\ Proposal(c).kind \in Enqueuing
    /\ \/ /\ desk' = [desk EXCEPT ![c].stage = "enqueue"]
          /\ UNCHANGED <<intent_file, overwritten>> /\ UNCHANGED task_vars
          /\ UNCHANGED runtime_vars
       \/ Blocked(c)

\* Mutant: a send is queued under the record's own identity, key or no key.
KeyOfRecord(c) == <<"intent", desk[c].id>>
\* The idempotency key: the one the proposal gives, that of the payload, that of the record.
KeyOf(c) ==
    IF Proposal(c).key # "none" THEN <<"given", 0>>
    ELSE IF Proposal(c).kind = "enqueue_low_risk" THEN <<"payload", 0>>
    ELSE <<"intent", desk[c].id>>

\* enqueue returns the action that has the key already, whatever became of it.
EnqueueProposed(c) ==
    /\ desk[c].stage = "enqueue"
    /\ LET key == KeyOf(c) IN
       enqueued' = IF \E a \in enqueued : a.key = key THEN enqueued
                   ELSE enqueued \cup {[key |-> key, proposal |-> Proposal(c), task |-> desk[c].task,
                                       at |-> desk[c].at]}
    /\ Done(c) /\ UNCHANGED <<recurring, work, notes>>

------------------------------------------------------------------------------
\* The clerk dies or the change raises: the record stays as it was saved last and the
\* task begins anew.
Trouble(c) ==
    /\ desk[c].stage # "rest" /\ troubles < MaxTroubles
    /\ troubles' = troubles + 1
    /\ repeats' = [repeats EXCEPT ![desk[c].task] = @ + 1]
    /\ desk' = [desk EXCEPT ![c] = [AtRest EXCEPT !.stage = "compile", !.task = desk[c].task,
                                                  !.batch = desk[c].batch]]
    /\ UNCHANGED <<intent_file, issued, given, overwritten>> /\ UNCHANGED runtime_vars

IntentInit ==
    /\ intent_file = [i \in IntentIds |-> "absent"]
    /\ desk = [c \in Clerks |-> AtRest]
    /\ issued = 0 /\ given = 0 /\ troubles = 0
    /\ repeats = [t \in 1..MaxTasks |-> 0]
    /\ recurring = <<>> /\ work = "none" /\ notes = {} /\ enqueued = {}
    /\ effects = {} /\ overwritten = FALSE

IntentNext ==
    \E c \in Clerks :
        \/ TakeTask(c) \/ Compile(c) \/ Answer(c) \/ ReadFile(c) \/ WriteFile(c)
        \/ CreateSchedule(c) \/ ChangeSchedule(c) \/ EnsureWork(c) \/ RequestReview(c)
        \/ AppendNote(c) \/ ApplyElsewhere(c) \/ AskPolicy(c) \/ EnqueueProposed(c)
        \/ Trouble(c)

IntentSpec == IntentInit /\ [][IntentNext]_intent_vars

------------------------------------------------------------------------------
IntentTypeOK ==
    /\ intent_file \in [IntentIds -> IntentStatuses]
    /\ \A c \in Clerks :
         /\ desk[c].stage \in {"rest", "compile", "read", "write", "apply", "enqueue"}
         /\ desk[c].at \in 0..Len(desk[c].batch)
         /\ desk[c].status \in IntentStatuses
         /\ desk[c].stage = "enqueue" => Proposal(c).kind \in Enqueuing
    /\ issued \in 0..MaxIntents /\ given \in 0..MaxTasks /\ troubles \in 0..MaxTroubles
    /\ work \in {"none", "pending", "in_progress", "review_pending"}
    /\ effects \subseteq 1..issued

(* Unless two saves of the file overlapped, every change that was made is     *)
(* on record: the record of an intent that changed anything is stored as      *)
(* accepted or applied, whatever became of the process that applied it;       *)
(* nothing the file calls rejected or blocked had an effect.                  *)
EffectIsOnRecord ==
    overwritten \/ \A i \in effects : intent_file[i] \in {"accepted", "applied"}

(* A task handed out again queues no further copy of a send that carries an   *)
(* idempotency key, nor of a low-risk action, and at most one further copy of *)
(* any other proposal of it for each time.                                    *)
CopiesBounded ==
    \A a \in enqueued :
        Cardinality({o \in enqueued : o.task = a.task /\ o.at = a.at})
          <= IF a.proposal.key # "none" \/ a.proposal.kind = "enqueue_low_risk" THEN 1
             ELSE 1 + repeats[a.task]
=============================================================================
