------------------------------ MODULE PolicyState ------------------------------
(***************************************************************************)
(* The file in which pauses of accounts and refusals of group chats are    *)
(* kept (live_execution/policy_state), as the processes that share it see  *)
(* it: the bot, which pauses and resumes accounts for the operator, and    *)
(* the live-execution workers, which read it before a send and write what  *)
(* came of the send.                                                       *)
(*                                                                         *)
(* LiveExecution changes this file in one step, as the threads of one      *)
(* process do under its lock.  Between processes nothing excludes: a write *)
(* finds the record of an account or chat and changes it, then reads the   *)
(* whole file, then replaces it.                                           *)
(***************************************************************************)
EXTENDS Naturals

CONSTANTS
    PolicyAccounts, Chats,
    Executors, Bot,     \* the processes
    NoEntry,            \* a send that is to no group chat
    PauseThreshold,     \* pause_threshold of record_community_write_friction
    MaxOrders,          \* bound: pauses and resumptions by the operator
    MaxSends,           \* bound: sends
    MaxPolicyDeaths     \* bound: processes that die with a send or a write under way

Entry == PolicyAccounts \cup Chats
Writers == Executors \cup {Bot}

ASSUME PolicyConstantsOK ==
    /\ PolicyAccounts \cap Chats = {} /\ NoEntry \notin Entry /\ Bot \notin Executors
    /\ PauseThreshold \in Nat \ {0}
    /\ MaxOrders \in Nat /\ MaxSends \in Nat /\ MaxPolicyDeaths \in Nat

VARIABLES
    policy,      \* state.json: each account and chat is paused or not, and a chat's refusals
    saving,      \* the write each process is at
    task,        \* the send each worker is at
    orders, sends_begun, policy_deaths,
    ordered,     \* history: whether the last word on an entry was a pause
    refusals,    \* history: refusals of each chat that have been recorded
    missed,      \* history: entries others have replaced since a process read them
    overtaken,   \* history: entries written back as they were before another's write
    through      \* history: sends of each worker since an entry was paused

policy_vars == <<policy, saving, task, orders, sends_begun, policy_deaths, ordered, refusals, missed,
                 overtaken, through>>
history_vars == <<ordered, refusals, overtaken>>

Clean == [is_paused |-> FALSE, friction |-> 0]
NotSaving == [stage |-> "none", entry |-> NoEntry, change |-> "none", record |-> Clean,
              payload |-> [e \in Entry |-> Clean]]
NoTask == [stage |-> "idle", account |-> NoEntry, chat |-> NoEntry]

------------------------------------------------------------------------------
(* A write.                                                                *)

\* Mutant: the end of a cooldown is written as a new record.
ChangedAnew(r, change) ==
    CASE change = "pause" -> [r EXCEPT !.is_paused = TRUE]
      [] change = "resume" -> [r EXCEPT !.is_paused = FALSE]
      [] change = "cooldown" -> Clean
      [] change = "refused" -> [is_paused |-> r.is_paused \/ r.friction + 1 >= PauseThreshold,
                                friction |-> r.friction + 1]
\* What becomes of a record; a cooldown that begins or ends leaves the pause as it is.
Changed(r, change) ==
    CASE change = "pause" -> [r EXCEPT !.is_paused = TRUE]
      [] change = "resume" -> [r EXCEPT !.is_paused = FALSE]
      [] change = "cooldown" -> r
      [] change = "refused" -> [is_paused |-> r.is_paused \/ r.friction + 1 >= PauseThreshold,
                                friction |-> r.friction + 1]

\* _get_or_create_account_state or _get_or_create_community_state, and the change.
FindRecord(p, e, change) ==
    /\ saving[p].stage = "none"
    /\ saving' = [saving EXCEPT ![p] = [NotSaving EXCEPT
                    !.stage = "found", !.entry = e, !.change = change,
                    !.record = Changed(policy[e], change)]]

\* _save_account_state or _save_community_state loads the file once more ...
LoadPayload(p) ==
    /\ saving[p].stage = "found"
    /\ saving' = [saving EXCEPT ![p].stage = "loaded", ![p].payload = policy]
    /\ UNCHANGED <<policy, task, orders, sends_begun, policy_deaths, missed, through>>
    /\ UNCHANGED history_vars

\* The process works on what it read of entry e.
HasRead(q, e) ==
    saving[q].stage = "loaded" \/ (saving[q].stage = "found" /\ saving[q].entry = e)

\* What p writes does not depend on what it read of the entry.
Overrides(p) == saving[p].change \in {"pause", "resume"}
OrderedBy(p) ==
    LET e == saving[p].entry
    IN  CASE saving[p].change = "pause" -> TRUE
          [] saving[p].change = "resume" -> FALSE
          [] saving[p].change = "cooldown" -> ordered[e]
          [] saving[p].change = "refused" -> ordered[e] \/ refusals[e] + 1 >= PauseThreshold

\* ... and replaces it, with the record and all else as it was read.
ReplaceFile(p) ==
    LET e == saving[p].entry
    IN  /\ saving[p].stage = "loaded"
        /\ policy' = [saving[p].payload EXCEPT ![e] = saving[p].record]
        /\ saving' = [saving EXCEPT ![p] = NotSaving]
        /\ task' = [x \in Executors |-> IF x = p THEN NoTask ELSE task[x]]
        /\ missed' = [q \in Writers |-> IF q = p THEN {}
                                        ELSE IF HasRead(q, e) THEN missed[q] \cup {e} ELSE missed[q]]
        /\ overtaken' = (overtaken \cup missed[p]) \ (IF Overrides(p) THEN {e} ELSE {})
        /\ ordered' = [ordered EXCEPT ![e] = OrderedBy(p)]
        /\ refusals' = IF saving[p].change = "refused" THEN [refusals EXCEPT ![e] = @ + 1] ELSE refusals
        /\ through' = IF saving[p].change = "pause" \/ (~ordered[e] /\ OrderedBy(p))
                      THEN [through EXCEPT ![e] = [x \in Executors |-> 0]] ELSE through
        /\ UNCHANGED <<orders, sends_begun, policy_deaths>>

------------------------------------------------------------------------------
(* The operator.                                                           *)

OrderAccount ==
    /\ orders < MaxOrders
    /\ orders' = orders + 1
    /\ \E a \in PolicyAccounts, change \in {"pause", "resume"} : FindRecord(Bot, a, change)
    /\ UNCHANGED <<policy, task, sends_begun, policy_deaths, missed, through>>
    /\ UNCHANGED history_vars

------------------------------------------------------------------------------
(* The workers.                                                            *)

\* Mutant: the state of the account is not looked at.
UnpausedChat(e) == e \in PolicyAccounts \cup {NoEntry} \/ ~policy[e].is_paused
Unpaused(e) == e = NoEntry \/ ~policy[e].is_paused

\* _evaluate_account_state; the file is read once more for the chat.
CheckAccount(x) ==
    /\ task[x] = NoTask /\ sends_begun < MaxSends
    /\ \E a \in PolicyAccounts, c \in Chats \cup {NoEntry} :
         /\ Unpaused(a)
         /\ task' = [task EXCEPT ![x] = [stage |-> "checked", account |-> a, chat |-> c]]
    /\ sends_begun' = sends_begun + 1
    /\ UNCHANGED <<policy, saving, orders, policy_deaths, missed, through>>
    /\ UNCHANGED history_vars

\* _evaluate_community_state.
CheckChat(x) ==
    /\ task[x].stage = "checked"
    /\ task' = [task EXCEPT ![x] = IF Unpaused(task[x].chat) THEN [@ EXCEPT !.stage = "cleared"] ELSE NoTask]
    /\ UNCHANGED <<policy, saving, orders, sends_begun, policy_deaths, missed, through>>
    /\ UNCHANGED history_vars

Concerns(x, e) == e \in {task[x].account, task[x].chat}

CallTelegram(x) ==
    /\ task[x].stage = "cleared"
    /\ task' = [task EXCEPT ![x].stage = "sent"]
    /\ through' = [e \in Entry |->
                     IF Concerns(x, e) /\ ordered[e] THEN [through[e] EXCEPT ![x] = @ + 1] ELSE through[e]]
    /\ UNCHANGED <<policy, saving, orders, sends_begun, policy_deaths, missed>>
    /\ UNCHANGED history_vars

\* The registry has the account flagged or banned: Telegram is not called.
FindFlagged(x) ==
    /\ task[x].stage \in {"checked", "cleared"}
    /\ task' = [task EXCEPT ![x].stage = "flagged"]
    /\ UNCHANGED <<policy, saving, orders, sends_begun, policy_deaths, missed, through>>
    /\ UNCHANGED history_vars

\* _apply_outcome_side_effects: success and a flood wait change the cooldown, an account
\* that is flagged is paused, a refusal is counted for the chat.
WriteOutcome(x) ==
    /\ \/ task[x].stage = "sent" /\ FindRecord(x, task[x].account, "cooldown")
       \/ task[x].stage \in {"sent", "flagged"} /\ FindRecord(x, task[x].account, "pause")
       \/ task[x].stage = "sent" /\ task[x].chat # NoEntry /\ FindRecord(x, task[x].chat, "refused")
    /\ UNCHANGED <<policy, task, orders, sends_begun, policy_deaths, missed, through>>
    /\ UNCHANGED history_vars

\* Other outcomes, and what other checks refuse, write nothing here.
NothingToWrite(x) ==
    /\ task[x].stage \in {"checked", "cleared", "sent"} /\ saving[x].stage = "none"
    /\ task' = [task EXCEPT ![x] = NoTask]
    /\ UNCHANGED <<policy, saving, orders, sends_begun, policy_deaths, missed, through>>
    /\ UNCHANGED history_vars

WriterDies(p) ==
    /\ policy_deaths < MaxPolicyDeaths
    /\ policy_deaths' = policy_deaths + 1
    /\ saving[p].stage # "none" \/ (p \in Executors /\ task[p] # NoTask)
    /\ saving' = [saving EXCEPT ![p] = NotSaving]
    /\ task' = [x \in Executors |-> IF x = p THEN NoTask ELSE task[x]]
    /\ missed' = [missed EXCEPT ![p] = {}]
    /\ UNCHANGED <<policy, orders, sends_begun, through>>
    /\ UNCHANGED history_vars

------------------------------------------------------------------------------
PolicyInit ==
    /\ policy = [e \in Entry |-> Clean]
    /\ saving = [p \in Writers |-> NotSaving] /\ task = [x \in Executors |-> NoTask]
    /\ orders = 0 /\ sends_begun = 0 /\ policy_deaths = 0
    /\ ordered = [e \in Entry |-> FALSE] /\ refusals = [e \in Entry |-> 0]
    /\ missed = [p \in Writers |-> {}] /\ overtaken = {}
    /\ through = [e \in Entry |-> [x \in Executors |-> 0]]

PolicyNext ==
    \/ OrderAccount
    \/ \E p \in Writers : LoadPayload(p) \/ ReplaceFile(p) \/ WriterDies(p)
    \/ \E x \in Executors :
         \/ CheckAccount(x) \/ CheckChat(x) \/ FindFlagged(x) \/ CallTelegram(x)
         \/ WriteOutcome(x) \/ NothingToWrite(x)

PolicySpec == PolicyInit /\ [][PolicyNext]_policy_vars

------------------------------------------------------------------------------
PolicyRecord == [is_paused : BOOLEAN, friction : Nat]
Changes == {"pause", "resume", "cooldown", "refused"}
SaveRecord == [stage : {"none", "found", "loaded"}, entry : Entry \cup {NoEntry},
               change : Changes \cup {"none"}, record : PolicyRecord,
               payload : [Entry -> PolicyRecord]]
TaskRecord == [stage : {"idle", "checked", "cleared", "flagged", "sent"},
               account : PolicyAccounts \cup {NoEntry}, chat : Chats \cup {NoEntry}]

PolicyTypeOK ==
    /\ policy \in [Entry -> PolicyRecord]
    /\ saving \in [Writers -> SaveRecord] /\ task \in [Executors -> TaskRecord]
    /\ orders \in 0..MaxOrders /\ sends_begun \in 0..MaxSends /\ policy_deaths \in 0..MaxPolicyDeaths
    /\ ordered \in [Entry -> BOOLEAN] /\ refusals \in [Entry -> Nat]
    /\ missed \in [Writers -> SUBSET Entry] /\ overtaken \subseteq Entry
    /\ through \in [Entry -> [Executors -> Nat]]

\* The file keeps every pause, resumption and refusal though three reads and a replacement
\* of several processes interleave and processes die in between, but for an entry that
\* another process had replaced since the writer read it; a new pause puts that right.
LastWordIsKept ==
    \A e \in Entry \ overtaken :
      policy[e].is_paused = ordered[e] /\ (e \in Chats => policy[e].friction = refusals[e])

\* After a pause, by the operator or because of a refusal, a worker gets one more send
\* through, unless the pause was overtaken; the workers are processes of their own.
PauseReachesWorkers ==
    \A e \in Entry \ overtaken :
      ordered[e] => \A x \in Executors : through[e][x] <= 1

\* What the file promises: it keeps what was written last, and workers heed it.
PolicyIsKept == LastWordIsKept /\ PauseReachesWorkers
=============================================================================
