---------------------------- MODULE InboundListener ----------------------------
(***************************************************************************)
(* How an answer in a group finds its conversation (telegram_app/          *)
(* engagement and external_conversations).                                 *)
(*                                                                         *)
(* Every process that sends records a reference to each message it has     *)
(* sent, in a file it reads and replaces whole.  The listener looks an     *)
(* answer's target up in that file, appends the event to a log, remembers  *)
(* its dedupe key in a second file, and projects it onto the thread of its *)
(* target: the conversations, their indexes and the event's link are three *)
(* more files.  The listener may die between any two of these writes, and  *)
(* Telegram may deliver an event again.                                    *)
(***************************************************************************)
EXTENDS Naturals, Sequences, FiniteSets, SequencesExt

CONSTANTS
    Sender,              \* processes that send for the account
    Message,             \* messages the account may send
    Campaign,            \* those of them sent in a campaign's name
    Event,               \* inbound events
    Private,             \* stands for the target of a direct message
    Target,              \* [Event -> Message \cup {Private}]: reply_to_message_id
    NoEvent, NoMessage, NoRecord,
    DedupeLimit,         \* DEFAULT_RECENT_DEDUPE_LIMIT
    ReferenceLimit,      \* DEFAULT_OUTBOUND_REFERENCE_LIMIT
    MaxDeliveries,       \* bound: deliveries of events
    MaxCrashes,          \* bound: deaths of the listener, or projections that raise
    MaxControls,         \* bound: pauses and resumes
    SendersDontOverlap   \* TRUE: one sender at a time rewrites the references

ASSUME InboundConstantsOK ==
    /\ Campaign \subseteq Message /\ NoMessage \notin Message /\ NoEvent \notin Event
    /\ Private \notin Message /\ Target \in [Event -> Message \cup {Private}]
    /\ DedupeLimit \in Nat \ {0} /\ ReferenceLimit \in Nat \ {0}
    /\ MaxDeliveries \in Nat /\ MaxCrashes \in Nat /\ MaxControls \in Nat
    /\ SendersDontOverlap \in BOOLEAN

\* A thread is the conversation of all answers to one message.
Thread == [status : {"active", "cooling_down", "paused"},
           last_event_id : Event \cup {NoEvent},
           follow_up : BOOLEAN,
           last_outbound : Message \cup {NoMessage}]

VARIABLES
    posted,      \* the messages that stand in the group
    send,        \* send[s]: what sender s has posted and not yet recorded
    references,  \* outbound-message-index.json, oldest first
    log,         \* inbound-events.jsonl
    keys,        \* recent_dedupe_keys of listener-state.json, oldest first
    task,        \* what the listener is doing, with which event
    threads,     \* conversations.json: by the message they answer
    indexed,     \* threads that by_group_reply_target leads to
    links,       \* events that events-to-conversations.json knows
    deliveries, crashes, controls,
    recorded,    \* history: messages whose reference has been written, in order
    applied,     \* history: how often each event changed its thread
    unbound,     \* history: events whose projection ended before their link
    unremembered \* history: events logged by a listener that died then

send_vars == <<posted, send, references, recorded>>
store_vars == <<log, keys, unremembered>>
thread_vars == <<threads, indexed, links, applied>>
bound_vars == <<deliveries, crashes, controls>>
inbound_vars == <<posted, send, references, log, keys, task, threads, indexed, links,
                  deliveries, crashes, controls, recorded, applied, unbound,
                  unremembered>>

Newest(seq, n) == SubSeq(seq, IF Len(seq) > n THEN Len(seq) - n + 1 ELSE 1, Len(seq))
Idle == [stage |-> "idle", event |-> NoEvent]
Ready == [stage |-> "ready", message |-> NoMessage, thread |-> NoMessage, copy |-> <<>>]

------------------------------------------------------------------------------
(* Senders: the message goes out, then its reference is written.           *)

\* A message is sent on its own or, by the execution worker, as an answer in a
\* thread.
Post(s, m, t) ==
    /\ send[s].stage = "ready" /\ m \notin posted
    /\ t # NoMessage => threads[t] # NoRecord /\ threads[t].status = "active"
    /\ posted' = posted \cup {m}
    /\ send' = [send EXCEPT ![s] = [@ EXCEPT !.stage = "load", !.message = m, !.thread = t]]
    /\ UNCHANGED <<references, recorded, store_vars, task, thread_vars, bound_vars, unbound>>

LoadReferences(s) ==
    /\ send[s].stage = "load"
    /\ SendersDontOverlap => \A r \in Sender : send[r].stage # "write"
    /\ send' = [send EXCEPT ![s].stage = "write", ![s].copy = references]
    /\ UNCHANGED <<posted, references, recorded, store_vars, task, thread_vars,
                   bound_vars, unbound>>

\* Mutant: the oldest references are kept.
KeepOldest(seq, m) ==
    LET all == Append(seq, m)
    IN  SubSeq(all, 1, IF Len(all) > ReferenceLimit THEN ReferenceLimit ELSE Len(all))
\* A message has one reference: the one it had is removed.
Remembered(seq, m) == Newest(Append(RemoveFirst(seq, m), m), ReferenceLimit)

WriteReferences(s) ==
    /\ send[s].stage = "write"
    /\ references' = Remembered(send[s].copy, send[s].message)
    /\ recorded' = Append(recorded, send[s].message)
    /\ send' = [send EXCEPT ![s] = IF @.thread = NoMessage THEN Ready
                                   ELSE [@ EXCEPT !.stage = "deliver"]]
    /\ UNCHANGED <<posted, store_vars, task, thread_vars, bound_vars, unbound>>

\* Every save of a thread refreshes the thread's entries in the indexes.
RefreshIndexes(t) == indexed' = indexed \cup {t}

\* save holds the guard over both files.  That another process's load and save may
\* overlap the listener's is ConversationReview's subject: here they do not.
SaveThread(t, record) ==
    /\ task.stage # "index"
    /\ threads' = [threads EXCEPT ![t] = record]
    /\ RefreshIndexes(t)

\* record_outbound_delivery and schedule_group_follow_up.
Deliver(s) ==
    /\ send[s].stage = "deliver"
    /\ SaveThread(send[s].thread,
                  [threads[send[s].thread] EXCEPT !.last_outbound = send[s].message,
                                                  !.follow_up = TRUE])
    /\ send' = [send EXCEPT ![s] = Ready]
    /\ UNCHANGED <<posted, references, recorded, store_vars, task, links, applied,
                   bound_vars, unbound>>

------------------------------------------------------------------------------
(* The listener.                                                           *)

InReferences(m) == \E i \in DOMAIN references : references[i] = m

\* An answer to a message without a reference is not an event of any kind.
Accepted(e) == Target[e] = Private \/ InReferences(Target[e])

\* A direct message is stored without a campaign, so it is not projected.
Routed(e) == Target[e] \in Campaign

IsRemembered(e) == \E i \in DOMAIN keys : keys[i] = e

Delivered(e) ==
    /\ task.stage = "idle" /\ deliveries < MaxDeliveries
    /\ Target[e] = Private \/ Target[e] \in posted
    /\ deliveries' = deliveries + 1

\* _build_inbound_event_record and the first half of append_inbound_event.
Ingest(e) ==
    /\ Delivered(e) /\ Accepted(e) /\ ~IsRemembered(e)
    /\ log' = Append(log, e)
    /\ task' = [stage |-> "remember", event |-> e]
    /\ UNCHANGED <<keys, unremembered, send_vars, thread_vars, crashes, controls, unbound>>

Discard(e) ==
    /\ Delivered(e) /\ (Accepted(e) => IsRemembered(e))
    /\ UNCHANGED <<store_vars, task, send_vars, thread_vars, crashes, controls, unbound>>

\* remember and _write_listener_state: a key is held once.
WithKey(e) == Newest(Append(RemoveFirst(keys, e), e), DedupeLimit)

Remember ==
    /\ task.stage = "remember"
    /\ keys' = WithKey(task.event)
    /\ task' = IF Routed(task.event) THEN [task EXCEPT !.stage = "project"] ELSE Idle
    /\ UNCHANGED <<log, unremembered, send_vars, thread_vars, bound_vars, unbound>>

\* Mutant: the link is not looked at.
NeverLinked(e) == FALSE
IsLinked(e) == e \in links

AlreadyProjected ==
    /\ task.stage = "project" /\ IsLinked(task.event)
    /\ task' = Idle
    /\ UNCHANGED <<store_vars, send_vars, thread_vars, bound_vars, unbound>>

\* find_group_reply_thread, or _build_group_reply_thread: a thread that is stored
\* but not indexed is built anew under the same id.
FoundOrNew(t) ==
    IF t \in indexed /\ threads[t] # NoRecord THEN threads[t]
    ELSE [status |-> "active", last_event_id |-> NoEvent, follow_up |-> FALSE,
          last_outbound |-> NoMessage]

\* _apply_inbound_event.
Applied(record, e) ==
    [record EXCEPT !.last_event_id = e, !.follow_up = FALSE,
                   !.status = IF @ = "paused" THEN @ ELSE "active"]

\* save: conversations.json is replaced before indexes.json.
SaveEvent ==
    /\ task.stage = "project" /\ ~IsLinked(task.event)
    /\ LET t == Target[task.event]
       IN  threads' = [threads EXCEPT ![t] = Applied(FoundOrNew(t), task.event)]
    /\ applied' = [applied EXCEPT ![task.event] = @ + 1]
    /\ task' = [task EXCEPT !.stage = "index"]
    /\ UNCHANGED <<indexed, links, store_vars, send_vars, bound_vars, unbound>>

SaveIndexes ==
    /\ task.stage = "index"
    /\ indexed' = indexed \cup {Target[task.event]}
    /\ task' = [task EXCEPT !.stage = "bind"]
    /\ UNCHANGED <<threads, links, applied, store_vars, send_vars, bound_vars, unbound>>

BindEvent ==
    /\ task.stage = "bind"
    /\ links' = links \cup {task.event}
    /\ task' = Idle
    /\ UNCHANGED <<threads, indexed, applied, store_vars, send_vars, bound_vars, unbound>>

\* The listener dies, or the projection raises and is logged: either way the
\* files stay as they are and nobody resumes the event.
Interrupt ==
    /\ task.stage # "idle" /\ crashes < MaxCrashes
    /\ crashes' = crashes + 1
    /\ task' = Idle
    /\ unremembered' = IF task.stage = "remember" THEN unremembered \cup {task.event}
                       ELSE unremembered
    /\ unbound' = IF task.stage \in {"index", "bind"} THEN unbound \cup {task.event}
                  ELSE unbound
    /\ UNCHANGED <<log, keys, send_vars, thread_vars, deliveries, controls>>

------------------------------------------------------------------------------
(* The operator.                                                           *)

Pause(t) ==
    /\ controls < MaxControls /\ threads[t] # NoRecord
    /\ threads[t].status # "paused"
    /\ SaveThread(t, [threads[t] EXCEPT !.status = "paused"])
    /\ controls' = controls + 1
    /\ UNCHANGED <<posted, send, references, recorded, store_vars, task, links, applied,
                   deliveries, crashes, unbound>>

Resume(t) ==
    /\ controls < MaxControls /\ threads[t] # NoRecord
    /\ threads[t].status = "paused"
    /\ SaveThread(t, [threads[t] EXCEPT !.status = "active"])
    /\ controls' = controls + 1
    /\ UNCHANGED <<posted, send, references, recorded, store_vars, task, links, applied,
                   deliveries, crashes, unbound>>

------------------------------------------------------------------------------
InboundInit ==
    /\ posted = {} /\ send = [s \in Sender |-> Ready]
    /\ references = <<>> /\ recorded = <<>>
    /\ log = <<>> /\ keys = <<>> /\ task = Idle
    /\ threads = [m \in Message |-> NoRecord] /\ indexed = {} /\ links = {}
    /\ deliveries = 0 /\ crashes = 0 /\ controls = 0
    /\ applied = [e \in Event |-> 0] /\ unbound = {} /\ unremembered = {}

Listener == Remember \/ AlreadyProjected \/ SaveEvent \/ SaveIndexes \/ BindEvent

InboundNext ==
    \/ \E s \in Sender :
         \/ \E m \in Message, t \in Message \cup {NoMessage} : Post(s, m, t)
         \/ LoadReferences(s) \/ WriteReferences(s) \/ Deliver(s)
    \/ \E e \in Event : Ingest(e) \/ Discard(e)
    \/ Listener \/ Interrupt
    \/ \E t \in Message : Pause(t) \/ Resume(t)

InboundSpec == InboundInit /\ [][InboundNext]_inbound_vars

InboundTypeOK ==
    /\ posted \subseteq Message
    /\ send \in [Sender -> [stage : {"ready", "load", "write", "deliver"},
                            message : Message \cup {NoMessage},
                            thread : Message \cup {NoMessage}, copy : Seq(Message)]]
    /\ references \in Seq(Message) /\ Len(references) <= ReferenceLimit
    /\ log \in Seq(Event) /\ keys \in Seq(Event) /\ Len(keys) <= DedupeLimit
    /\ task.stage \in {"idle", "remember", "project", "index", "bind"}
    /\ task.event \in Event <=> task.stage # "idle"
    /\ threads \in [Message -> Thread \cup {NoRecord}] /\ indexed \subseteq Message
    /\ links \subseteq Event
    /\ deliveries \in 0..MaxDeliveries /\ crashes \in 0..MaxCrashes
    /\ controls \in 0..MaxControls /\ recorded \in Seq(Message)
    /\ applied \in [Event -> Nat] /\ unbound \subseteq Event /\ unremembered \subseteq Event

\* An event is logged a second time only if the listener died before it had
\* remembered it, or if DedupeLimit other events were logged in between.
LoggedAgainOnlyWhenForgotten ==
    \A i, j \in DOMAIN log :
      i < j /\ log[i] = log[j] /\ log[i] \notin unremembered
        => Cardinality({log[k] : k \in (i + 1) .. (j - 1)}) >= DedupeLimit

\* An event, however often it is delivered and logged, changes its thread once:
\* a late repetition never brings an answered event back.  Only a projection
\* that ended between the thread and the link may be repeated.
AppliedOnce == \A e \in Event : applied[e] > 1 => e \in unbound

\* Telegram may deliver an event again at any time: the log and the threads stand it.
RepetitionsAreHarmless == LoggedAgainOnlyWhenForgotten /\ AppliedOnce

\* If senders do not overlap, an answer is recognised as long as its target is
\* among the newest ReferenceLimit messages recorded.
AnswersRecognised ==
    SendersDontOverlap =>
      \A e \in Event :
        (\E i \in DOMAIN recorded :
           recorded[i] = Target[e] /\ i > Len(recorded) - ReferenceLimit) => Accepted(e)
=============================================================================
