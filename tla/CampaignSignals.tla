----------------------------- MODULE CampaignSignals -----------------------------
(***************************************************************************)
(* Signals of a live campaign and the observation reviews that look at     *)
(* them (telegram_app/campaign_signals and the observation part of the     *)
(* orchestrator).                                                          *)
(*                                                                         *)
(* Live workers and the listener report signals; a signal that is reported *)
(* again while it is unresolved is refreshed.  Signals that press enough   *)
(* are named by the one open observation work item.  A scheduled run or an *)
(* operator's turn reviews them with the language model, which takes its   *)
(* time, and then marks them.  Signals, cursor and work items are files.   *)
(*                                                                         *)
(* Each process that reports has a manager, and a lock, of its own.        *)
(* ReportsDontOverlap = TRUE assumes that only one reports at a time; with *)
(* FALSE a process overwrites what another stored since it read the file,  *)
(* and an occurrence is lost.                                              *)
(***************************************************************************)
EXTENDS Naturals, FiniteSets

CONSTANTS
    SignalKeys,        \* dedupe keys: type and subject of a signal
    Urgent,            \* those reported with severity high or critical
    Reporters,         \* processes that report signals
    ReportsDontOverlap, \* TRUE: one process at a time reports
    MaxReports,        \* bound: reports
    MaxObservations,   \* bound: observation reviews begun
    MaxSignalDeaths    \* bound: deaths

ASSUME SignalConstantsOK ==
    /\ Urgent \subseteq SignalKeys /\ ReportsDontOverlap \in BOOLEAN
    /\ MaxReports \in Nat \ {0} /\ MaxObservations \in Nat /\ MaxSignalDeaths \in Nat

SignalIds == 1..MaxReports
Signal == [key : SignalKeys \cup {"none"}, state : {"absent", "unresolved", "reviewed"},
           occurrences : 0..MaxReports, happened : Nat, reviewed_at : Nat]
NoSignal == [key |-> "none", state |-> "absent", occurrences |-> 0, happened |-> 0, reviewed_at |-> 0]
ItemStatus == {"none", "pending", "in_progress", "review_pending", "escalated", "completed"}
Attention == {"none", "optional", "required"}

VARIABLES
    signals,          \* signals.json
    last_reviewed,    \* cursor.json: last_reviewed_signal_ids
    observation,      \* the latest observation work item: status and the signals it names
    signal_clock,     \* the wall clock: every report and every review has its moment
    reporter,         \* what each reporter is doing
    observer,         \* the review under way
    reports, observations, signal_deaths,
    reported,         \* history: occurrences of each signal stored
    shown,            \* history: occurrences of each signal a review has looked at
    crossed_signals,  \* history: signals reported while a review was under way
    cut_signals       \* history: signals whose reporter died over them

signal_vars == <<signals, last_reviewed, observation, signal_clock, reporter, observer, reports,
                 observations, signal_deaths, reported, shown, crossed_signals, cut_signals>>
signal_history == <<reported, shown, crossed_signals, cut_signals>>

Silent == [stage |-> "none", id |-> 0, copy |-> NoSignal]
NoObservation == [stage |-> "none", ids |-> {}, seen |-> [i \in SignalIds |-> 0], left |-> {},
                  copies |-> [i \in SignalIds |-> NoSignal], attention |-> "none",
                  resolve |-> FALSE, at |-> 0]

------------------------------------------------------------------------------
(* CampaignSignalManager and ObservationWorkRefresher.                     *)

UnresolvedSignals == {i \in SignalIds : signals[i].state = "unresolved"}

\* Mutant: a signal reported again is refreshed, reviewed or not.
KeyOnly(k) == {i \in SignalIds : signals[i].key = k}
\* _find_unresolved_by_dedupe_key.
Matching(k) == {i \in SignalIds : signals[i].key = k /\ signals[i].state = "unresolved"}
\* upsert: a matching signal (of several the one touched last, which is not modelled: reports
\* that do not overlap leave one at most), or a new one.
StoredAs(k) == IF Matching(k) # {} THEN Matching(k) ELSE {reports + 1}

\* _signal_has_new_pressure.
NewPressure(i) == signals[i].reviewed_at = 0 \/ signals[i].happened > signals[i].reviewed_at
\* select_review_batch; its limit is above the signals modelled.
Batch == {i \in UnresolvedSignals : i \notin last_reviewed \/ NewPressure(i)}

\* _requires_review.
Presses(s) == s.state = "unresolved" /\ (s.key \in Urgent \/ s.occurrences >= 2)

\* refresh_for_campaign: all that presses.
ToName == {j \in Batch : Presses(signals[j])}

OpenItem == observation.status \in {"pending", "in_progress", "review_pending", "escalated"}
\* ensure_work_item: an open item keeps its status.
EnsuredItem(ids) == [status |-> IF OpenItem THEN observation.status ELSE "pending", names |-> ids]

------------------------------------------------------------------------------
(* CampaignSignalBridge.record, by a reporter.                             *)

Report(p) ==
    /\ reporter[p].stage = "none" /\ reports < MaxReports
    /\ reports' = reports + 1 /\ signal_clock' = signal_clock + 1
    /\ ReportsDontOverlap => \A q \in Reporters : reporter[q].stage = "none"
    /\ \E k \in SignalKeys : \E i \in StoredAs(k) :
         LET s == IF i \in Matching(k) THEN signals[i]
                  ELSE [NoSignal EXCEPT !.key = k, !.state = "unresolved"] IN
         /\ reporter' = [reporter EXCEPT ![p] = [stage |-> "save", id |-> i,
                 copy |-> [s EXCEPT !.occurrences = @ + 1, !.happened = signal_clock + 1]]]
         /\ crossed_signals' = IF observer.stage # "none" THEN crossed_signals \cup {i} ELSE crossed_signals
    /\ UNCHANGED <<signals, last_reviewed, observation, observer, observations, signal_deaths,
                   reported, shown, cut_signals>>

SaveReported(p) ==
    /\ reporter[p].stage = "save"
    /\ signals' = [signals EXCEPT ![reporter[p].id] = reporter[p].copy]
    /\ reported' = [reported EXCEPT ![reporter[p].id] = @ + 1]
    /\ reporter' = [reporter EXCEPT ![p].stage = "refresh"]
    /\ crossed_signals' = IF observer.stage # "none" THEN crossed_signals \cup {reporter[p].id} ELSE crossed_signals
    /\ UNCHANGED <<last_reviewed, observation, signal_clock, observer, reports, observations,
                   signal_deaths, shown, cut_signals>>

\* maybe_refresh_for_signal.
RefreshItem(p) ==
    /\ reporter[p].stage = "refresh"
    /\ LET ids == ToName IN
         /\ observation' = IF Presses(reporter[p].copy) /\ ids # {} THEN EnsuredItem(ids) ELSE observation
         /\ crossed_signals' = IF observer.stage # "none" THEN crossed_signals \cup ids ELSE crossed_signals
    /\ reporter' = [reporter EXCEPT ![p] = Silent]
    /\ UNCHANGED <<signals, last_reviewed, signal_clock, observer, reports, observations,
                   signal_deaths, reported, shown, cut_signals>>

ReporterDies(p) ==
    /\ reporter[p].stage # "none" /\ signal_deaths < MaxSignalDeaths
    /\ signal_deaths' = signal_deaths + 1
    /\ cut_signals' = cut_signals \cup {reporter[p].id}
    /\ reporter' = [reporter EXCEPT ![p] = Silent]
    /\ UNCHANGED <<signals, last_reviewed, observation, signal_clock, observer, reports,
                   observations, reported, shown, crossed_signals>>

------------------------------------------------------------------------------
(* _execute_observation_work, by a scheduled run or an operator's turn.    *)

\* The pending item, or a refreshed one; what it names that is unresolved, or the batch.
ReviewBegins ==
    /\ observer.stage = "none" /\ observations < MaxObservations
    /\ LET waiting == observation.status \in {"pending", "in_progress"}
           pressing == {i \in Batch : Presses(signals[i])}
           item == IF waiting THEN observation ELSE EnsuredItem(pressing)
           named == item.names \cap UnresolvedSignals
           ids == IF named # {} THEN named ELSE Batch IN
       /\ waiting \/ pressing # {}
       /\ observations' = observations + 1
       /\ IF ids = {}
          THEN /\ observation' = [status |-> "completed", names |-> {}]
               /\ UNCHANGED observer
          ELSE /\ observation' = [status |-> "in_progress", names |-> ids]
               /\ observer' = [NoObservation EXCEPT !.stage = "agent", !.ids = ids,
                     !.seen = [i \in SignalIds |-> IF i \in ids THEN signals[i].occurrences ELSE 0]]
    /\ crossed_signals' = crossed_signals
         \cup {reporter[p].id : p \in {q \in Reporters : reporter[q].stage # "none"}}
    /\ UNCHANGED <<signals, last_reviewed, signal_clock, reporter, reports, signal_deaths, reported,
                   shown, cut_signals>>

\* The campaign cannot be loaded, or the model's answer cannot be read.
ReviewFails ==
    /\ observer.stage = "agent"
    /\ observation' = [status |-> "escalated", names |-> observer.ids]
    /\ observer' = NoObservation
    /\ UNCHANGED <<signals, last_reviewed, signal_clock, reporter, reports, observations,
                   signal_deaths>>
    /\ UNCHANGED signal_history

\* The model's brief; complete_review reads the signals again and saves the result.
SaveResult ==
    /\ observer.stage = "agent"
    /\ signal_clock' = signal_clock + 1
    /\ shown' = [i \in SignalIds |-> IF i \in observer.ids THEN observer.seen[i] ELSE shown[i]]
    /\ \E a \in Attention, operator_review \in BOOLEAN :
         observer' = [observer EXCEPT !.stage = "cursor", !.copies = signals, !.left = observer.ids,
                         !.at = signal_clock + 1, !.attention = a,
                         !.resolve = a # "required" /\ ~operator_review]
    /\ UNCHANGED <<signals, last_reviewed, observation, reporter, reports, observations,
                   signal_deaths, reported, crossed_signals, cut_signals>>

SaveCursor ==
    /\ observer.stage = "cursor"
    /\ last_reviewed' = observer.ids
    /\ observer' = [observer EXCEPT !.stage = "signals"]
    /\ UNCHANGED <<signals, observation, signal_clock, reporter, reports, observations,
                   signal_deaths>>
    /\ UNCHANGED signal_history

\* _post_review_state, written over whatever the signal has become since it was read.
SaveSignal ==
    /\ observer.stage = "signals"
    /\ \E i \in observer.left :
         /\ signals' = [signals EXCEPT ![i] = [observer.copies[i] EXCEPT
                  !.reviewed_at = observer.at,
                  !.state = IF observer.resolve THEN "reviewed" ELSE "unresolved"]]
         /\ observer' = [observer EXCEPT !.left = @ \ {i}]
    /\ UNCHANGED <<last_reviewed, observation, signal_clock, reporter, reports, observations,
                   signal_deaths>>
    /\ UNCHANGED signal_history

\* _observation_work_status; what the item has come to name meanwhile is overwritten.
FinishItem ==
    /\ observer.stage = "signals" /\ observer.left = {}
    /\ observation' = [status |-> IF observer.attention = "none" THEN "completed" ELSE "review_pending",
                       names |-> observer.ids]
    /\ observer' = NoObservation
    /\ UNCHANGED <<signals, last_reviewed, signal_clock, reporter, reports, observations,
                   signal_deaths>>
    /\ UNCHANGED signal_history

ObserverDies ==
    /\ observer.stage # "none" /\ signal_deaths < MaxSignalDeaths
    /\ signal_deaths' = signal_deaths + 1
    /\ observer' = NoObservation
    /\ UNCHANGED <<signals, last_reviewed, observation, signal_clock, reporter, reports,
                   observations>>
    /\ UNCHANGED signal_history

------------------------------------------------------------------------------
SignalInit ==
    /\ signals = [i \in SignalIds |-> NoSignal] /\ last_reviewed = {}
    /\ observation = [status |-> "none", names |-> {}] /\ signal_clock = 0
    /\ reporter = [p \in Reporters |-> Silent] /\ observer = NoObservation
    /\ reports = 0 /\ observations = 0 /\ signal_deaths = 0
    /\ reported = [i \in SignalIds |-> 0] /\ shown = [i \in SignalIds |-> 0]
    /\ crossed_signals = {} /\ cut_signals = {}

SignalNext ==
    \/ \E p \in Reporters : Report(p) \/ SaveReported(p) \/ RefreshItem(p) \/ ReporterDies(p)
    \/ ReviewBegins \/ ReviewFails \/ SaveResult \/ SaveCursor \/ SaveSignal \/ FinishItem \/ ObserverDies

SignalSpec == SignalInit /\ [][SignalNext]_signal_vars

------------------------------------------------------------------------------
SignalTypeOK ==
    /\ signals \in [SignalIds -> Signal] /\ last_reviewed \subseteq SignalIds
    /\ observation.status \in ItemStatus /\ observation.names \subseteq SignalIds
    /\ \A p \in Reporters : /\ reporter[p].stage \in {"none", "save", "refresh"}
                            /\ reporter[p].id \in SignalIds \cup {0}
    /\ observer.stage \in {"none", "agent", "cursor", "signals"} /\ observer.left \subseteq observer.ids
    /\ reports \in 0..MaxReports /\ observations \in 0..MaxObservations
    /\ signal_deaths \in 0..MaxSignalDeaths

\* A signal is put aside as reviewed only when a review has looked at every occurrence of
\* it, unless one was reported while a review was under way.
ReviewedWasSeen ==
    \A i \in SignalIds : signals[i].state = "reviewed" /\ i \notin crossed_signals
                           => shown[i] >= reported[i]

\* As soon as nobody is at work, a signal that presses and that no review has looked at is
\* named by an open work item, unless it was reported while a review was under way or its
\* reporter died.
PressureIsNamed ==
    (\A p \in Reporters : reporter[p].stage = "none") /\ observer.stage = "none" =>
      \A i \in UnresolvedSignals :
        /\ signals[i].key \in Urgent \/ reported[i] >= 2
        /\ shown[i] = 0 /\ i \notin crossed_signals \cup cut_signals
        => OpenItem /\ i \in observation.names

\* No signal goes by: it is named for a review while it presses, and put aside only once
\* a review has looked at it.
NoSignalGoesBy == PressureIsNamed /\ ReviewedWasSeen
=============================================================================
