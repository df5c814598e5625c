# A verification project for tg-swarm

tg-swarm runs outreach campaigns on Telegram: an operator talks to a bot,
campaigns are planned, and managed accounts (MTProto user sessions) write to
groups and people in the campaign's name.  What must not go wrong is visible to
strangers: a message posted twice, a reply sent after the operator said stop, an
answer nobody reads.  The modules here model what decides this, from the
listener that hears an answer to the queue that posts a reply, and the planning
above it.

All paths below are relative to `src/telegram_app/`.

## 1. Inventory

tg-swarm is a set of processes that share JSON files and nothing else: the bot
(webhook or `polling_runner.py`), the scheduler (`scheduling/runner.py`), the
inbound listener (`engagement/listener.py`), the live-execution worker
(`live_execution/runner.py`) and the conversation-review worker
(`engagement_brain/review_runner.py`).  Every manager loads a JSON file, changes
it and replaces it (`json_store.py`).  An `RLock` serializes the threads of one
process; between processes there is a guard file in some managers and nothing
in the others.

| Component | State | Operations | What is hard | What makes it correct |
|---|---|---|---|---|
| Live execution `live_execution/` | `actions.json`, `attempts.jsonl`, policy state | enqueue, cancel, claim, dispatch, retry, pause | claims that expire, crashes between saves, ambiguous sends, late landings, pauses racing sends | one post at most; finished stays finished; everything settles; a pause stops writes |
| Guard file (three copies) | a file and its mtime | acquire, break when stale, release | exists/stat/unlink races, dead holders | mutual exclusion, no lost update, never locked for ever |
| External conversations `external_conversations/` | one record per conversation, indexes, event links | project an event, claim and complete reviews, `update_*`, follow-up windows | whole-record saves that overlap, claims that expire | one reviewer at a time, every event reviewed, a pause holds, bounded follow-ups |
| Conversation review `engagement_brain/`, `engagement_triage/`, `qualification/`, `engagement_policy/` | writes conversations and live actions | triage, propose, authorize, plan, queue | a language model is asked between a load and a save; texts overtake reviews | no trigger reviewed twice, no reply to hostile texts or at night, a ready lead is carried |
| Held replies `autonomous_send/`, `live_ops/` | `reviews.json`, posture | hold, approve, dismiss, supersede, set the posture | five files, two processes, crashes between them | what the operator decided holds |
| Managed accounts `capabilities/mtproto/` | `accounts.json`, sessions, warm-up ledger | send, join, read, classify errors | timeouts that cancel nothing, flood waits, a file without a lock | ambiguous sends are verified, accounts stay registered, warm-up bounds joins |
| Inbound listener `engagement/` | event log, dedupe keys, outbound references | recognise, store, deduplicate, project | crashes between five files, bounded keys, references written late | each event reaches its conversation once, answers are recognised |
| Scheduler `scheduling/` | lease, `schedules.json` | acquire, list, run, record, pause, resume, create | the lease is looked at once; a handler's exception ends the pass; two processes rewrite the file | each due time once, a pause holds, nothing due waits for ever |
| Planning `orchestrator/`, `work_items/`, `sessions/`, `campaign_memory/` | workflow snapshot, artifacts, `work-items.json` | route, work, approve, revise, run by schedule, activate | bot and scheduler work on the same artifacts; a turn may end half way | only approved plans are activated, no draft and no follow-on is forgotten |
| Prepared execution `prepared_execution/` | batches, items | activate, supersede | supersession racing a claim, crashes between saves | what is superseded is not sent, nothing is queued twice |
| Compiled intents `compiled_intents/` | `compiled-intents.json` | compile, validate, accept, apply, block | repeated messages, two clerks of one file | every effect is on record, copies are bounded |
| Campaign signals `campaign_signals/` | signals, reviews, cursor, observation item | report, refresh, review | reports during a review | no signal goes by unseen |
| Continuous operations, operator notifications | loop state, `interventions.json` | recompute, reconcile, list, mark, acknowledge | two processes and a pause between listing and marking | the operator hears of what blocks, in its present form |
| Bot entry, authentication `polling_runner.py`, `app_service.py`, `auth/` | the cursor, the wizard | take updates, answer, sign accounts in | crashes between registry, wizard, answer and cursor | no message lost, repeated only after trouble |
| Intake, assets, agents, language-model code, transport, monitoring | campaign artifacts, logs | word, parse, deliver | none of it concurrent | not a matter of state |

The components interact like this.  The listener stores an inbound event and
projects it onto its conversation, and reports a campaign signal.  A review worker
claims the conversation, asks the language model and queues a live action, or
holds it for the operator.  A live-execution worker claims the action, asks the
policy, sends through the managed account, and records the delivery back on the
conversation and its handoff, which opens a follow-up window; the window, when due,
is a review moment again.  Signals and missed schedules become work items; the
scheduler runs the agents on them, and what blocks the campaign becomes an alert in
the bot's next answer.  The operator talks to the bot, which plans, approves,
activates (that is, queues live actions), pauses and resumes; what a message asks to
change is kept as a compiled intent.

`PROJECT.json` lists every component with its status and every hazard with the
line where it bites and the properties that watch it.

## 2. Modules

| Module | Models | Role |
|---|---|---|
| `LiveExecution` | `live_execution/` with the send path of `capabilities/mtproto/` | queue, workers, policy, account and chat state |
| `DeliveryPromise` | - | the abstract promise to a caller of `enqueue_action` |
| `QueueContract` | - | the queue as those know it who cancel, supersede or wait |
| `LiveExecutionProofs`, `LivePromiseProofs` | - | theorems about `LiveExecution`; it implements `DeliveryPromise` and `QueueContract` |
| `PolicyState` | `live_execution/policy_state.py`, its readers and writers | pauses and refusals on file, written by several processes |
| `StateGuard` | `_with_guard` of `live_execution/manager.py`, `external_conversations/manager.py`, `scheduling/runner.py` | the guard, one step per file-system call |
| `StateGuardProofs` | - | theorems about `StateGuard` |
| `ConversationReview` | `external_conversations/`, `engagement_brain/review_*`, `coordinator.py`, `engagement_triage/` | one conversation and everybody who writes to it |
| `ConversationReviewProofs` | - | theorems about `ConversationReview` |
| `Scheduler` | `scheduling/`, `handle_scheduled_work` | lease, passes and `schedules.json` |
| `SchedulerProofs` | - | theorems about `Scheduler` |
| `CampaignPlanning` | `handle_turn` and its helpers in `orchestrator/`, `work_items/`, `sessions/`, `campaign_memory/` | planning work in chat and by schedule |
| `PreparedExecution` | `prepared_execution/` | activation and supersession |
| `PreparedExecutionProofs` | - | theorems about `PreparedExecution`; it uses the queue by `QueueContract` |
| `CompiledIntents` | `compiled_intents/`, `_apply_persisted_compiled_intent` | one campaign's store of intents and two clerks |
| `OperatorAlerts` | `continuous_ops/`, `operator_notifications/`, `app_service.py` | the loop's state and its alerts |
| `InboundListener` | `engagement/`, `external_conversations/projector.py`, `impl_messaging.py` (references) | from an answer to its conversation |
| `ReplyPipeline` | `engagement_triage/`, `engagement_brain/service.py`, `qualification/`, `engagement_policy/`, the handoff in `live_execution/service.py` | what a review makes of a text |
| `HeldReplies` | `autonomous_send/`, `live_ops/`, `coordinator.py` | replies between the brain and the operator |
| `CampaignSignals` | `campaign_signals/`, the observation part of `orchestrator/` | signals and their reviews |
| `BotEntry` | `polling_runner.py`, `app_service.handle_update`, `auth/` | updates, cursor and the sign-in wizard |
| `ManagedAccounts` | `capabilities/mtproto/registry.py`, `warmup.py`, `impl_membership.py` | the account file and its budgets |
| `CampaignProofs` | - | theorems about `CampaignPlanning`, `CompiledIntents`, `OperatorAlerts`, `PolicyState`, and about `MCCampaign` |
| `ConversationProofs` | - | theorems about `ReplyPipeline`, `HeldReplies`, `BotEntry`, `InboundListener`, `ManagedAccounts`, `CampaignSignals`, and about `MCConversation` |
| `MC...` | - | instances for TLC |

### LiveExecution

`dispatch_next_ready` is cut where another process can get between: `Claim`,
`MarkRunning` (the save of the worker's copy), `EvaluatePolicy`, `BeginSend`
(the registry check inside the capability), `EndSend` (Telegram's answer),
`ApplyOutcome`, `RecordAttempt`, `SaveOutcome`.  `copy[w]` is the worker's
in-memory record; saves write it over whatever is stored, as the code does.
`LandLate` is the coroutine that goes on after the 30 s result timeout.
`Abort` is a crash, or an exception that `run_forever` logs: both end the tick
and leave the files as they are.

Abstracted: error texts, jitter (a range of delays), the rotation hash that breaks
ties between due actions (a choice), and the conversation's own policy checks (they
may refuse any visible action).  Not in the model: indexes, joining and
leaving; handoffs, signals and the warm-up budget are in modules of their own.  The policy
file is written in one atomic step, which is true within one process only;
`PolicyState` is about the rest.

`DeliveryPromise` says what a caller may rely on: an item is open until it is
withdrawn (never posts), confirmed (has posted) or given up (posts once at
most).  `KeepsPromise` is the refinement, over the visible actions.
`QueueContract` says the same queue without the posts: an action waits until it is
cancelled or taken, a claimed one is moved by its worker alone or put back when its
claim has run out, what has ended stays so (`KeepsContract`).

### PolicyState

The file with the pauses of accounts and chats is shared by the bot, which pauses and
resumes accounts for the operator, and the live-execution workers, each a process
(`bin/live-sandbox.ps1` starts them).  A write is three steps: `FindRecord` reads the
record and changes it, `LoadPayload` reads the whole file again, `ReplaceFile` replaces
it; a lock holds others off within the process only.  A worker's send is `CheckAccount`,
`CheckChat`, `CallTelegram` and the write its outcome asks for; an account that the
registry has flagged is paused without a call (`FindFlagged`); any other check, or
outcome, ends the send without a write.  `WriterDies` is a crash at any of these steps.
Of a record the pause and the refusals are kept; beginning and end of a cooldown are
writes that leave both alone, which is what makes them dangerous.  History variables
follow each write's last word on an entry (`ordered`, `refusals`), what a process has
missed since it read (`missed`), the entries put back by a stale write (`overtaken`), and
the sends since a pause (`through`).  Run `campaign` explores it as one of its parts.

### StateGuard

One action per system call: `Open` (O_CREAT and O_EXCL), `Exists`, `Stat`,
`Break` (unlink), `Sleep`, `Read`, `Write`, `Release` (unlink).  The age of a
guard is compared with the time the CALL began, and both unlinks remove whatever
file is there.  The other modules take a guarded call as one atomic
action; the theorems of `StateGuardProofs` say when this is justified, and
section 3 says when it is not.

### ConversationReview

Claiming and completing a review run under the guard: one action each.  Every
`update_*` call loads the record outside the guard: a load into `copy[p]` and a
`Save` of the whole record.  `BuildContext` reads what the language model gets
to see; its answer is a choice.  `paused` stands for every status that keeps a
conversation from being reviewed, `"other"` for every next action but
`review_inbound`.  The updates of one review that change none of the modelled fields
(belief, qualification, handoff, pending review) are one load and save.  Not in
the model: several conversations (claims are per conversation), indexes, signals,
held replies that an operator approves later.

`UpdatesDontOverlap` = TRUE assumes that nobody writes between a load and its save.
**The code does not guarantee this.**  Under it the claim protocol keeps its own
promises (run `review`); without it the first thing that breaks is a pause (section
3), and exclusiveness breaks the same way, since a save of a record loaded before a
claim removes the claim.

### Scheduler

`Acquire`, `ListDue`, `Dispatch`, the agent's run and the three steps of the update that
records its outcome are a worker's; the operator's pause, resume and create are updates
of the same shape (`edit[p]`): get the record, list the file, replace it.  Times are
kept as distances to now (`due`, `left`, `age`), so that the state space is finite
without a bound on the clock.  `PassesFit` = TRUE assumes that a pass ends before its
lease does, `WritesDontOverlap` = TRUE that nobody loads the file while another is
between his load and his replacement.  **The code guarantees neither**; the properties
that need one name it.  `history` variables count runs, runs cut off and runs after a pause.

What the code does, and the module with it: an exception of an observation's agent
ends the pass for all that is due, while a specialist's agent that fails escalates
its item and counts as a miss; the next run is due an interval after the start of
the pass; whenever an outcome is recorded for a paused schedule with
`pause_after_consecutive_misses`, its item is escalated, also if the operator paused
it; a resume does not reset the misses.  `ARCHIVED` is never set.

### CampaignPlanning

One message at a time: `Approve`, `Revise`, `AskAgain`, `Work`, `Activate`, and the
end of the agent that a turn waits for (`AgentSaves`, `AgentSavesNothing`,
`TurnFails`).  `Message` includes the copy of the session's artifacts to the
campaign's files before and after it.  The scheduler's process runs the same agents
(`RunBegins` to `RunDies`) on the files.  `clock` stands for `updated_at`; the order
of these stamps decides whether a plan is approved (`_latest_plan_is_approved`) and
whether follow-on work is fresh.  What an agent recommends to do next is a choice
out of `Advice`.

### PreparedExecution

An activation supersedes the batches of older plans (one save per batch, one
cancellation and one save per item), queues the posts that are due, saves the batch
and then its items; the bot may die between any two.  Live workers appear as
`ClaimAction`, `ExecuteAction` and `ReturnAction`, which is what `LiveExecution`
lets a caller see.

### CompiledIntents

Two clerks, the bot and the review worker, work through a batch of proposals: save
the record, validate, accept, save, apply, save.  A save reads the file (`ReadFile`)
and replaces it (`WriteFile`).  What a payload must hold is the table `Enough`; the
change an intent makes is modelled for schedules, work items, notes and live
actions, and is a step without further state for the rest.  `Trouble` is a death or
an unexpected exception: the same message or review is handled again and compiled
into new records.

### OperatorAlerts

`Recompute`, `DraftAlerts`, `LoadAlerts`, `SaveAlerts` are a refresh, by the bot or
a background process; `AppendAlerts`, `MarkDelivered`, `SaveDelivered`, `SendAnswer`
are an answer of the bot.  `Situation` is everything the loop's state is computed
from.

### InboundListener

`Post` to `Deliver` are a sender's, who reads and replaces the references file;
`Ingest` or `Discard`, `Remember`, the projection, `SaveEvent`, `SaveIndexes` and
`BindEvent` are the listener's, one per file. `Interrupt` is a death or a projection
that raises.  Texts and senders of events are left out: an event is told apart by
the message it answers.

### ReplyPipeline

One conversation under review: `Triage`, `Review`, `RecordProposal`, `Authorize`,
`PlanReply`, `EnqueueReply`, `CompleteReview`.  A text is one of the kinds the
keyword tables tell apart; a language model's answer is any of `ModelTriages` and
any verdict it may give.  Times of a day are slots, so that quiet hours may begin
before or after midnight.  The ends of a queued reply are `HandOver`, `GiveUp` and
`RunOutOfRetries`.

### HeldReplies

The review worker authorizes, holds, supersedes, links or queues; the bot validates
a command, checks the review, queues, marks it materialized and clears the link;
each save is one step.  Updates of `reviews.json` are atomic here.

### CampaignSignals, BotEntry, ManagedAccounts

`CampaignSignals`: reporters store or refresh a signal and refresh the one open
observation item; a review reads its batch, waits for the model, then saves result,
cursor, each signal and the item; the save of one signal is one step.
`ReportsDontOverlap` = TRUE assumes that one process reports at a time.  **The code
does not guarantee this**: the worker and the listener each have a manager and a lock
of their own (`campaign_signals/manager.py:154`).  `BotEntry`: getUpdates, the handler's branches,
the answer, the cursor; the wizard's steps with Telegram's account as it is there.
`ManagedAccounts`: a change of an account reads it, reads the whole file, empties it
and writes it; a reader in between finds no account.

### How the modules fit together

Each module takes from its neighbours only what they promise: a guarded call is one
step elsewhere because of `StateGuardProofs` (and not when a process dies under the
guard); `PreparedExecution`'s queue and `LiveExecution` implement one contract,
`QueueContract` (`UsesContract`, `KeepsContract`, both proved); `HeldReplies`,
`ReplyPipeline` and `CompiledIntents` see an action as `DeliveryPromise` describes it
(open, then ended one way); `CampaignPlanning` sees a batch as the plan it was made from, whose own
life is `PreparedExecution`; `ConversationReview` says who may review,
`ReplyPipeline` what a review does. `MCCampaign` and `MCConversation` explore
modules that share no variable side by side: a constant set `Parts` chooses which
one moves, the others stay at their initial states.  This is a convenience of
checking and claims nothing about their interaction; that what a run explores are
behaviours of each part is a theorem (`CampaignKeepsParts`, `ConversationKeepsParts`).

## 3. Runs

Runs that pass:

| Run | Instance | Shows |
|---|---|---|
| `live_retry` | 1 visible action, 2 workers, 2 retries, 2 aborted ticks, clock to 6, claims of 2 | `ExclusiveExecution`, `AtMostOnePost`, `JournalAgrees`, `TerminalIsFinal`, `KeepsPromise`, `KeepsContract` |
| `live_pause` | 4 actions, 2 accounts, 1 chat, 2 workers, no time | `PauseLeakBound`, `FrictionBound`: at most one call per worker gets out after the pause |
| `live_settles` | 2 actions, 1 worker, fair, no aborted ticks | `EventuallySettles` |
| `guard` | 2 processes, 3 attempts, 2 crashes, clock to 5, stale after 2 | `ExclusionWhileAllLive`, `NoLostUpdate`, `GuardIsFreed` |
| `review` | 2 review workers, 2 events, 1 pause or resume, 1 aborted review, clock to 3 | `ExclusiveReview`, `ReviewedOnce`, `FollowUpsBounded` |
| `review_settles` | 1 review worker, fair | `DueWindowSettles` |
| `scheduler` | 2 schedulers and the bot, an observation and a specialist's schedule, lease of 2 and interval of 1, a pause after 2 misses, 1 interrupt, 2 orders of the operator, no bound on time, fair | `DispatchedOnce`, `PauseStops`, `PauseOutlivesRun`, `DueIsServed` |
| `campaign` | see below | `BatchIsCurrent`, `NoDraftForgotten`, `ChainKept`, `ActivatedWasApproved` (planning); `QueuedOnce`, `RevisionTakesEffect`, `UsesContract` (prepared execution); `EffectIsOnRecord`, `CopiesBounded` (intents); `OperatorIsTold` (alerts); `PolicyIsKept` (policy file) |
| `conversation` | see below | `AnswersRecognised`, `RepetitionsAreHarmless` (listener); `ReadyLeadIsCarried`, `RepliesAreWelcome` (pipeline); `OperatorIsObeyed`, `DecisionsStand` (held replies); `NoSignalGoesBy` (signals); `TurnsSurviveTrouble` (bot); `RegistryKeepsAccounts` (accounts) |

`campaign`: planning with 5 messages, 1 scheduled run, 1 failure and an agent that
may send the operator back; 2 plans with 2 due posts, one later and one without a
place, 2 activations, 1 returned claim, 1 death; 2 tasks with up to 2 proposals
each, 3 records, 1 trouble; 2 changes of the situation, 2 refreshes by two
processes, 2 answers, 1 death; the bot and 2 workers, 1 account, 1 chat that is paused
after 2 refusals, 2 orders of the operator, 3 sends, 1 death. `conversation`: 4 events (two answers to one message,
one to another, a direct one) delivered 4 times, 2 dedupe keys and 2 references, 1
crash, 2 pauses or resumes; 2 texts, 2 reviews, 1 death, quiet hours on either side
of midnight; 2 events, 1 command, 1 death over a held reply; 2 signal keys, 2
processes that report one at a time, 3 reports, 2 reviews; 3 updates, 1 death, 1 failed answer; 2 accounts, 2 workers and
the bot, 2 days, 2 calls.

Runs that refute what the repository says of itself:

| Run | Said | What the code does |
|---|---|---|
| `live_restart` | `src/wiki/plan/live-engagement-mvp/live-execution-runtime.md:131` "queued actions survive process restarts" | an action marked running by a tick that died stays running for ever |
| `review_inbound` | `conversation-review-triggering.md:196` "a later inbound event naturally creates a new inbound trigger key and becomes eligible again" | an event that arrives during a review is marked, then the review's own save removes the mark |
| `accounts_warmup` | `capabilities/mtproto/warmup.py:162` "Persist one successful action against the warmup budget ledger." | the ledger is a fresh dict that is never stored (`warmup.py:206`): new messages are not counted |

### Seen while modelling

What follows was met while the code was translated.  No run states it; where a
theorem or property names an assumption or an exception, this is usually why.

Live execution and conversations:

- a worker that read an account's record before the operator's pause was saved writes
  it back when it begins or ends a cooldown, which every success does
  (`live_execution/policy_state.py:258`, `live_execution/service.py:865`): the account
  is unpaused and sends on, though the operator was told it is paused
  (`live_ops/service.py:281`) and `safety-policy-and-guardrails.md:96` wants "no
  automatic sends from banned or explicitly paused accounts".  A pause of a chat, a
  refusal and a flood wait can be lost in the same way (the `overtaken` of
  `PolicyIsKept`, which is false without that exception);
- a success that comes in after a flood wait clears it
  (`live_execution/service.py:863`), though `safety-policy-and-guardrails.md:109`
  says rate-limited accounts "should not continue autonomous engagement";
- a rate limit on going offline after the post makes the post be repeated
  (`impl_messaging.py:750`): with `ClosingCanFlood` = TRUE `AtMostOnePost` is false;
- after one process died under the guard two others may break it in turn and both
  get in (`live_execution/manager.py:478`): `MutualExclusion` of `StateGuard` is
  false;
- a review worker's save of an older copy reactivates a conversation the operator
  has paused (`external_conversations/manager.py:275`), as soon as
  `UpdatesDontOverlap` is FALSE;
- a claim may expire before it is marked running, and the save that marks it does
  not look whose claim it is (`WorkersKeepUp` = FALSE; against
  `live-execution-runtime.md:99`);
- waits for a cooldown use up the retry budget (`live_execution/service.py:697`);
- only the last completed trigger key is kept: an operator's resume after a
  follow-up brings the inbound key back (the `excused` of `ReviewedOnce`; against
  `conversation-review-triggering.md:91`).

Scheduler and planning:

- a lease may lapse during a pass, and another scheduler dispatches the same
  schedules (`scheduling/runner.py:122`; `app-runtime-architecture.md:182` wants one
  owner); updates of `schedules.json` by the bot and the scheduler that overlap lose
  a schedule or a pause;
- a turn cut off after it saved a plan, followed by a scheduled run, lets a plan be
  activated that nobody approved (`prepared_execution/service.py:400` falls back on
  the words "approved in chat");
- the artifact of a scheduled run lasts in the campaign's files until the next
  message's sync overwrites it (`app_service.py:225`);
- an approval may complete another item of the kind than the one in review; once
  everything is approved any further message opens a new review of the account plan;
  a recommended kind of work that does not exist is a `KeyError` after the item was
  completed;
- an action of a superseded batch that was claimed and comes back for a retry still
  goes out; a crash between `enqueue` and `save_batch` queues the posts again (the
  `cut_plans` of `QueuedOnce`).

Intents, held replies, alerts, signals:

- a note for any destination but two is dropped though the operator is told it was
  saved (`compiled_intents/applicators.py:196`); "Queued" is answered also when an
  equal low-risk action had been queued before; a change that raises anything but
  the application error leaves its intent accepted for ever; a schedule created by a
  message that is handled again exists twice, and a pause stops the later one only;
  the review worker applies any kind of intent the model proposes,
  `enqueue_operator_send` included, while `prompt/orchestrator.md:124` reserves it
  for the operator's explicit wish;
- an approval that is refused is recorded as applied; approving one of two reviews
  clears the link of the other; the executor does not look at `context_fingerprint`;
- alerts marked delivered before the answer is sent are lost when the bot dies or
  the send fails; an alert that a refresh changes between listing and marking counts
  as delivered in a form nobody saw (against
  `operator_notifications/manager.py:156`);
- two processes that report one signal at a time both store the count they read, plus
  one: an occurrence is lost, and a review puts aside what nobody has looked at
  (`NoSignalGoesBy` is false with `ReportsDontOverlap` = FALSE);
- an occurrence of a signal reported during a review is marked reviewed with the
  rest; a signal that arrives then is without an open item until it is reported
  again.

Replies, listener, accounts, bot:

- a retryable failure with no retry left fails the action and leaves the handoff
  ready (`live_execution/service.py:736`; the `"exhausted"` of
  `ReadyLeadIsCarried`);
- "not interested" contains a word of interest and counts as ready for conversion,
  kept harmless only by the hostility rule; a text that overtakes the triage is
  answered with the older triage; replies queued before quiet hours, or retried into
  them, go out at night (against `humanized-engagement-timing.md:223`); a start of
  quiet hours equal to their end makes every hour quiet;
- an answer that matches no reference is dropped although
  `inbound-account-event-ingestion.md` says to "keep the event unresolved without
  discarding it"; a crash between the log and the keys stores the event twice
  (`ListenerState` promises idempotent restarts);
- `accounts.json` is written in place by several processes: an account, or its
  counts, may be lost, and a reader finds an empty file;
- a failed answer also makes the turn be handled again; an update that always fails
  blocks those behind it; a crash after the account was registered leaves the wizard
  waiting for it.

### Bounds

Constants that begin with `Max` bound counters and nothing else.  They are chosen so
that every claim, guard, wait and retry delay of the instance can run out at least
once inside the clock, twice in `live_retry`; that every process may die, or a step
fail, once at each of its stages; and that whatever is repeated can be repeated once
more than the code keeps in mind (two keys and four deliveries, two references and
three messages). One visible action is enough for the properties of a single action,
since actions meet only in the claim order and in the account and chat state, which
`live_pause` instantiates. Two workers or processes are the least that can race;
three or more are covered by the theorems where there are any.  `Scheduler` needs no
bound on time.  Deadlock is checked for the guard and the scheduler; in the other
runs a behaviour ends when its counters are used up and everything is done. Symmetry
is used over workers, reviewers and processes, and over actions that are alike, and
only in runs without liveness properties.

### Fairness

The workers are polling loops (`run_forever`) that go on whatever a tick returned or
raised: weak fairness of each worker's step, which for a scheduler includes its
update of the file. Time passes.  A begun update is finished by the listener, the
operator and the executor in `review_settles` and `review_inbound`, by the bot in
`scheduler`.  No fairness on callers, operators, crashes, inbound events, or on late
landings.  `live_restart` and `review_inbound` are counterexamples under this
fairness.  `DueIsServed` says that due work is begun, put off or paused some day; a
pass that raises every time is bounded by `MaxInterrupts`, without which it would be
false.

## 4. Proofs

The runs check what the modules promise; that every variable has its type is a theorem
of each module and of both compositions (`...Types`, `...TypeCorrect`), so no run checks
it once more.

Every theorem holds for all values of the constants that the named assumptions
allow: each module's `...ConstantsOK` (types and signs, and for the records of
compiled intents what a batch of proposals is), and that the sets of workers that
are counted are finite (`WorkersFinite`, and in `AccountConstantsOK`).  TLC evaluates
them in every run.  The column "Assumes" names what a theorem supposes beyond that:
the constants that stand for a timing the code does not guarantee.  Some properties
of the scheduler, the listener and the accounts name what they suppose themselves.

| Theorem | States | Assumes |
|---|---|---|
| `TypeCorrect` | `Spec => []TypeOK` (live execution) | - |
| `Exclusive` | `Spec => []ExclusiveExecution` | `WorkersKeepUp` |
| `Final` | `Spec => TerminalIsFinal` | `WorkersKeepUp` |
| `NoDuplicate` | `Spec => []AtMostOnePost` | `WorkersKeepUp`, `~ClosingCanFlood` |
| `Keeps` | `Spec => KeepsPromise` | `WorkersKeepUp`, `~ClosingCanFlood` |
| `KeepsToContract` | `Spec => KeepsContract` | `WorkersKeepUp` |
| `JournalKept` | `Spec => []JournalAgrees` | `WorkersKeepUp` |
| `PauseIsTight` | `Spec => []PauseLeakBound` | - |
| `FrictionIsBounded` | `Spec => []FrictionBound` | - |
| `GuardTypeCorrect` | `Spec => []TypeOK` | - |
| `GuardExcludes` | `Spec => []ExclusionWhileAllLive` | `HoldersKeepUp` |
| `GuardKeepsUpdates` | `Spec => []NoLostUpdate` | `HoldersKeepUp` |
| `ReviewTypeCorrect` | `Spec => []TypeOK` (a conversation) | - |
| `ReviewsExclude` | `Spec => []ExclusiveReview` | `UpdatesDontOverlap` |
| `FollowUpsStayBounded` | `Spec => []FollowUpsBounded` | `UpdatesDontOverlap` |
| `TriggersReviewedOnce` | `Spec => ReviewedOnce` | `UpdatesDontOverlap` |
| `SchedulerTypeCorrect` | `SchedulerSpec => []SchedulerTypeOK` | - |
| `OneAtATime` | `SchedulerSpec => []OnePassAtATime` | `PassesFit` |
| `UpdatesAreWhole` | `SchedulerSpec => []OneUpdateAtATime` | `WritesDontOverlap` |
| `PauseOutlives` | `SchedulerSpec => PauseOutlivesRun` | `WritesDontOverlap` |
| `DispatchesOnce` | `SchedulerSpec => []DispatchedOnce` | `PassesFit`, `WritesDontOverlap` |
| `PausesStop` | `SchedulerSpec => []PauseStops` | `PassesFit`, `WritesDontOverlap` |
| `PreparedTypes` | `PreparedSpec => []PreparedTypeOK` | - |
| `PostsQueuedOnce` | `PreparedSpec => []QueuedOnce` | - |
| `RevisionsTakeEffect` | `PreparedSpec => []RevisionTakesEffect` | - |
| `QueueUsedByContract` | `PreparedSpec => UsesContract` | - |
| `PlanningTypes` | `PlanningSpec => []PlanningTypeOK` | - |
| `BatchStaysCurrent` | `PlanningSpec => []BatchIsCurrent` | - |
| `DraftsComeUpAgain` | `PlanningSpec => []NoDraftForgotten` | - |
| `ChainIsKept` | `PlanningSpec => []ChainKept` | - |
| `OnlyApprovedIsActivated` | `PlanningSpec => ActivatedWasApproved` | - |
| `IntentTypes` | `IntentSpec => []IntentTypeOK` | - |
| `EffectsAreOnRecord` | `IntentSpec => []EffectIsOnRecord` | - |
| `CopiesAreBounded` | `IntentSpec => []CopiesBounded` | - |
| `AlertTypes` | `AlertSpec => []AlertTypeOK` | - |
| `OperatorAlwaysTold` | `AlertSpec => []OperatorIsTold` | - |
| `PolicyTypes` | `PolicySpec => []PolicyTypeOK` | - |
| `PolicyAlwaysKept` | `PolicySpec => []PolicyIsKept`: `LastWordIsKept` and `PauseReachesWorkers` | - (the property excepts what is `overtaken`) |
| `CampaignKeepsParts` | `CampaignSpec => PlanningSpec /\ PreparedSpec /\ IntentSpec /\ AlertSpec /\ PolicySpec` | - |
| `CampaignTypes` | `CampaignSpec => []CampaignTypeOK` | - |
| `CampaignPromises` | `CampaignSpec =>` all that run `campaign` checks | - |
| `SignalTypes` | `SignalSpec => []SignalTypeOK` | - |
| `SignalsAreReviewed` | `SignalSpec => []NoSignalGoesBy` | `ReportsDontOverlap` |
| `PipelineTypes` | `PipelineSpec => []PipelineTypeOK` | - |
| `LeadsAreCarried` | `PipelineSpec => []ReadyLeadIsCarried` | - |
| `HostileStayUnanswered` | `PipelineSpec => []HostileGoesUnanswered` | - |
| `RepliesStayWelcome` | `PipelineSpec => []RepliesAreWelcome` | `WakeupFits` |
| `HeldTypes` | `HeldSpec => []HeldTypeOK` | - |
| `OperatorAlwaysObeyed` | `HeldSpec => []OperatorIsObeyed` | - |
| `DecisionsAlwaysStand` | `HeldSpec => DecisionsStand` | - |
| `TurnsSurvive` | `BotSpec => [](BotTypeOK /\ TurnsSurviveTrouble)` | - |
| `ListenerTypes` | `InboundSpec => []InboundTypeOK` | - |
| `RepetitionsStayHarmless` | `InboundSpec => []RepetitionsAreHarmless` | - |
| `AnswersAreRecognised` | `InboundSpec => []AnswersRecognised` | - (the property names `SendersDontOverlap`) |
| `RegistryTypes` | `AccountSpec => []AccountTypeOK` | - |
| `RegistryIsKept` | `AccountSpec => []RegistryKeepsAccounts` | - (the property says `Undisturbed`) |
| `ConversationKeepsParts` | `ConversationSpec => InboundSpec /\ PipelineSpec /\ HeldSpec /\ SignalSpec /\ BotSpec /\ AccountSpec` | - |
| `ConversationTypes` | `ConversationSpec => []ConversationTypeOK` | - |
| `ConversationPromises` | `ConversationSpec =>` all that run `conversation` checks | `WakeupFits`, `ReportsDontOverlap` |

Most theorems are about the specification of one module.  `MCCampaign` and
`MCConversation` run such specifications side by side: a step of theirs is a step of
one part and a stutter of the others (`CampaignPartSteps`, `ConversationPartSteps`), so
a behaviour of the whole is one of each part, and every theorem about a part is one
about what TLC runs.  `CampaignPromises` and `ConversationPromises` say so of everything
these two runs check.

### Live execution, its promise, the guard

**Live execution.**  `ExclusiveExecution` is not inductive: two saves of stale
copies could bring it down from a state that satisfies it.  The inductive invariant
is `IInv == TypeInv /\ Ownership /\ Posting`.  `TypeInv` adds to `TypeOK` the shape
of a worker's variables in each stage.  `Ownership` ties each busy worker to the
stored record: what it has claimed is claimed by it in the file with the expiry it
remembers, what it runs is running, and its copy is what is stored or what follows
from it; hence two busy workers differ in their jobs.  `Posting` says which records
may have been posted: nothing that is still pending, nothing that its worker has not
sent, and after a send only with an outcome that is not retried. `WorkersKeepUp`
says that a worker comes from its claim to its first save within the claim's 300 s;
`~ClosingCanFlood` leaves out that going offline after a post is rate limited.

**Journal, pauses, friction.**  `JournalAgrees` compares two files that are saved
one after the other.  `Journal` says in which stage of its worker a record is behind
its journal (`WorkerJournal`: after the line, before the save) and that without a
worker it agrees, but for the attempt of a tick that died (`ActionJournal`).  The two
bounds are inductive once they count workers: `PauseHolds` adds to the calls that got
out after a pause the workers whom the policy has let through and who have not called
yet, `FrictionHolds` to the refusals of a chat the workers that may still bring one.
Neither needs an assumption on the timing.

**Refinement.**  `KeepsPromise` is proved step by step from `IInv`.  A step that
writes the record of one action (`RecordStep`) moves that action's stage along an
edge of the promise, or leaves it; a step that posts (`PostStep`) finds the action
open or given up and unposted, which is what `Posting` says.  Everything else
leaves stages and posts alone.

**Contract.**  `KeepsContract` needs `TypeInv`, `Ownership` and `Journal`: a worker
that saves is the one that has the stored record, and without `WorkersKeepUp` a late
save would move what is pending, or cancelled, from outside.  A claim that has run out
is put back and another action taken in one step of the file, which is why `Take` names
what it puts back.

**Guard.**  The invariant says who is inside owns the guard file (as long as
nobody has died), and that whoever is about to unlink a guard it judged stale
would have to have seen it `Stale` old, which `HoldersKeepUp` excludes.
`NoLostUpdate` follows with `fresh`: only who is inside writes.

### Conversation review and scheduler

**Conversation review.**  `ReviewTypeCorrect` holds without any assumption on the
timing: every record that is stored or in somebody's hands is well formed, the
claim's fields are set together, and a window is only open while a follow-up is
left.  For `ReviewsExclude` the invariant `ExclusiveInv` adds `Current`, at most one
process holds a copy and that copy is what is stored, and `ClaimHeld`, a worker
that is busy is the one whom the stored record names as its claimant, until a claim
has run out or an operator has resumed the conversation.  Every save of
an update leaves the claim as it is (`SameClaim`); only `Claim`
and `Complete` change it.  Without `UpdatesDontOverlap`
`Current` is false, and with it the theorem.

`FollowUpInv` serves both theorems about follow-ups.  `ClaimedOnce`: a trigger that
was claimed and still stands is claimed now or was completed last, so a claim of
another one is of a new trigger.  It needs that events come in order
(`EventsInOrder`), that what was claimed is no later than the record and the clock
(`ClaimedPast`), and that only the review of a follow-up clears a window
(`ClearsOwn`).  `Budget` is the accounting: the follow-ups since the last inbound event,
and the one a worker still owes, are at most the attempts on the record, the open window
if it has been taken up, and one more, which was under way when the event came.

**Scheduler.**  `SchedulerShape` says what each process holds in each stage of a
pass or an update; it is inductive without any assumption, lapsing leases and lost
schedules included, and `SchedulerTypeOK` follows.  `LeaseHeld`, that whoever is at
work owns a lease with time left, is kept by `Acquire` (which needs a free lease or
its own) and by `Clock` (which `PassesFit` stops at the last moment of a pass).
`OneUpdate` has four parts: updates belong to the schedule their process handles
(`EditsFollow`), at most one process is between its read and its replacement, and
holds what is stored (`FilesAgree`), so no schedule disappears (`NothingLost`), and
only a resume is about to turn a paused schedule active (`PausesStand`, since
`record_outcome` keeps a pause it reads).  `PauseOutlivesRun` is then a matter of
the one step that replaces the file.  For `DispatchedOnce`, `RunsCounted` adds that
a schedule has been begun at most once more than its runs were cut off, and no more
often unless a worker is at it and has not recorded its outcome: a due time is
listed again only when its run is recorded or cut off.  `PauseStops` needs three
relations more: a run after the pause is that of the pass that had listed it
(`LeaksCounted`), an active schedule has misses to spare, also in the hands of
whoever is about to store it (`MissesKept`), and of a schedule that its misses have
paused the item is escalated once nobody handles it any more (`ReportsDue`).

### The campaign

**Prepared execution.**  A batch is made only when none is active and plan numbers
only grow, so it is enough to follow what may still be sent: `LiveCovered` says that a
pending or claimed action is named by a queued item of the active batch of its plan, by
an item in the making, or by one about to be cancelled, unless its plan was cut by a
death or a worker was faster.  `QueuedByPlan` says that the actions of the latest plan
have an active batch, or that theirs is being made and the posts that are left have
none; `QueuedOnce` follows.  `ItemsTell` relates what items say to the queue while a
cancellation goes through them one save at a time.

`UsesContract` needs little of the invariant: every step puts one action in or changes
the status of one (`EntryChanges`), along an edge of the contract.

**Planning.**  Whether a plan is approved, and which draft the operator is shown, is
decided by comparing dates.  `DraftsDated` says that no two drafts have one date and
none that of an approval; `CompletedByApproval` that work is completed by an approval
alone; `ChatApproval` what the words "approved in chat" stand for; `Chained` that a
finished step has its follow-on.  `TurnFits` and `RunFits` say what the bot's agent
and the scheduled one work on: without `TurnFits` an agent could save a draft after its
approval.  That the newest of some dates exists is not in the library; it is proved
from the well-foundedness of `<` on the naturals.

**Compiled intents.**  No two clerks have a record or a task in hand together
(`OwnRecords`), so the only way a record loses the status its effect gave it is a
save over another clerk's (`overwritten`); `AppliedInHand` says so of the steps
between effect and save.  `CopiesFit` counts: of each place of a task there are no more
actions than times it was handed out again, and one, less the one a clerk has still to
make (`SpareCopy`).

**Alerts.**  `InTime`: no date is later than the clock, and no delivery has the date
of a refresh that is still to be saved, so "changed after it was delivered" is exactly
"not delivered in this form".  `BlockedIsKnown`: as long as refreshes do not overlap
the one under way carries the state that is on file, and announces it
(`DraftsAnnounce`).  `AnswerIsCurrent`: what an answer carries is what is on file, or
has slipped.

**Policy file.**  Nothing excludes here, so the invariant says instead what a process
still knows.  `LastWordIsKept` is inductive with two relations about writes under way:
unless it has missed another's write, what a process is about to write of its entry is
the last word to come (`RecordsAgree`), and what it has loaded of all others is the last
word on them (`PayloadsAgree`).  A pause or a resumption overrides whatever it read, the
other changes do not.  `OneSendLeft` is the accounting of a pause: a worker that has
found the account or the chat unpaused and has not called yet has sent nothing since.

### The conversation

**Pipeline.**  `TriageIsOfText` and `ReviewIsOfText` tie a judgement to the text it was
made of, through a review that texts may overtake: a reply by the rules is to a text
the rules do not call hostile.  `LeadIsCarried` follows a ready lead through the review
into a queued reply.  For `RepliesAreWelcome` `PlannedAwake` says that a planned time
is outside the quiet hours, which needs `WakeupFits`: the delay after the quiet hours
ends before the next ones begin.  The defaults (half an hour at most) satisfy it; the
policy's numbers are not compared with each other, and with quiet hours that never end
it is false, and so is the property.

**Held replies.**  `OneReplyAtMost` (a worker that may still send was allowed to
before the posture changed), `ReviewsSavedOnce` (a review is saved by the worker that
completes its moment), `DecisionsHold` (what is dismissed or approved stays so while
its command goes through its saves) and `LinkFits` (the link names what is pending, or
somebody is about to clear it).  Each makes an exception for a moment over which
somebody died, which the property names.

`DecisionsStand` is a matter of the steps that save a review: only what is pending is
decided, and the copy a command decided on is still what is stored, but for that
exception (`DecidedStays`).

**Bot.**  `UpdatesInOrder` and `OneAtATime`: the updates in hand follow one another from the
cursor on, and the one being handled is the first after it; so what was handled is
behind the cursor, waits for its answer, or met a trouble.  `SignedIn` relates the
wizard to Telegram's side of the account.

**Listener.**  For repetitions the keys must be distinct and whatever follows a key
must have been logged after it (`Kept`): then a key is forgotten only after enough
other events.  `AppliedFits`: an event that changed its thread has its link, or was cut
off.  `ReferencesFit`: the references are the newest of what was recorded, which is
false as soon as senders overlap.

**Accounts.**  Undisturbed, one process at a time is in the file (`OneInTheFile`), what
it is about to write follows from what the file holds (`InStep`), and what an account
has joined is its count and the joins in hand (`JoinsCounted`, the sum that makes the
bound of one more per other worker inductive).

**Signals.**  `HandsFit`: what the one process that reports holds is what the file
holds, unless the signal crossed a review.  `SeenFits`: of a signal that did not, a
review under way has seen all there is.  `WaitingIsNamed`: a signal that presses and
that no review has shown is named by the open item and among those the review under
way looks at.  `SignalsStored` alone needs no assumption, and gives the types.

### Only model-checked

- liveness (`EventuallySettles`, `GuardIsFreed`, `DueWindowSettles`, `DueIsServed`):
  fairness and ENABLED are outside the prover's reach;
- the runs that expect a violation.

What a recursive definition computes for every input could not be proved either; the
modules use none.

## 5. Plan

Done: the modules above, checked; a theorem for every safety invariant and every action
property that a passing run checks, the two contracts of the queue and the two
compositions included.

Left, in this order:

1. that `HeldReplies`, `ReplyPipeline` and `CompiledIntents` too use the queue by
   `QueueContract`;
2. action properties beyond those checked now: what a step of a stale process may
   never undo, in `CompiledIntents` and `InboundListener`;
3. joining and leaving in `LiveExecution`, the conversation's own policy checks.

## 6. Not modelled

- `json_store.py`: a replaced file is one atomic step, a file that does not parse
  does not occur;
- `approvals/`: approvals of single actions are created by tests only; approval
  happens in chat (`CampaignPlanning`);
- intake, campaign intent, context, assets, sessions: they parse one message into
  one artifact, within the turn that `CampaignPlanning` takes as one step;
- agents, prompts and `llm/`: what they answer is a choice in the modules that use
  it; whether it is well put is no matter of state;
- transport, monitoring, the webhook server: HTTP and logs;
- the operator's wording: which of a command's texts means what is a choice of the
  model that compiles it;
- the stub capabilities, tools, tests and documentation.
