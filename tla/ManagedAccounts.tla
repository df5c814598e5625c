----------------------------- MODULE ManagedAccounts -----------------------------
(***************************************************************************)
(* The registry of managed accounts and its warm-up budgets                *)
(* (telegram_app/capabilities/mtproto/registry, warmup, impl_membership).  *)
(*                                                                         *)
(* Live workers and the bot share one file without a lock.  Every change   *)
(* reads the account, reads the file again, puts the account into that     *)
(* copy, empties the file and writes it.  A reader that comes while the    *)
(* file is empty finds no accounts.                                        *)
(***************************************************************************)
EXTENDS Naturals, Sequences, FiniteSets

CONSTANTS
    Members,           \* managed accounts
    JoinWorkers,       \* processes that carry out live actions
    JoinLimits,        \* joins in 24 hours, by day of the warm-up
    StartLimit,        \* new messages in 24 hours, on every day of the warm-up
    MaxDays,           \* bound: days that pass
    MaxCalls,          \* bound: calls to Telegram
    MaxWriteDeaths     \* bound: deaths of processes

ASSUME AccountConstantsOK ==
    /\ JoinLimits \in Seq(Nat \ {0}) /\ JoinLimits # <<>> /\ StartLimit \in Nat \ {0}
    /\ MaxDays \in Nat \ {0} /\ MaxCalls \in Nat /\ MaxWriteDeaths \in Nat
    /\ IsFiniteSet(JoinWorkers)

Bot == "bot"
Processes == JoinWorkers \cup {Bot}
\* No ledger: metadata holds no "warmup_activity".
NoLedger == [kept |-> FALSE, count |-> 0]
Ledger == [kept : BOOLEAN, count : Nat]
Missing == [known |-> FALSE, onboarded |-> 0, joins |-> 0, window |-> 0, healthy |-> TRUE,
            ledger |-> NoLedger]
Account == [known : BOOLEAN, onboarded : 0..MaxDays, joins : Nat, window : 0..MaxDays,
            healthy : BOOLEAN, ledger : Ledger]

VARIABLES
    registry,        \* the file
    torn,            \* it has been emptied and not been written yet
    at_work,         \* what each process is doing
    day,             \* days gone by: every 24-hour window of before is over
    calls, write_deaths,
    joined, started, \* history: joins and new messages of each account since the day began
    onboarded,       \* history: accounts whose onboarding was written
    raced            \* history: two processes were in the file at a time

account_vars == <<registry, torn, at_work, day, calls, write_deaths, joined, started, onboarded,
                  raced>>

AtRest == [stage |-> "rest", action |-> "none", account |-> "none", record |-> Missing,
           copy |-> [a \in Members |-> Missing]]
Stages == {"rest", "call", "load", "list", "empty", "write"}

\* list_accounts, get_account: an empty file is a file without accounts.
InFile == IF torn THEN [a \in Members |-> Missing] ELSE registry
Others(p) == Processes \ {p}
InTheFile(q) == at_work[q].stage \in {"list", "empty", "write"}
RacedBy(p) == raced \/ torn \/ \E q \in Others(p) : InTheFile(q)

------------------------------------------------------------------------------
(* Warm-up: limits and counters.                                           *)

Ramp(r) == LET i == day + 1 - r.onboarded IN IF i > Len(JoinLimits) THEN Len(JoinLimits) ELSE i
\* _refresh_join_window.
Refreshed(r) == IF r.window = day THEN r ELSE [r EXCEPT !.joins = 0, !.window = 0]

\* can_perform_action, for "join" and for "send".
MayJoin(r) == r.known /\ r.healthy /\ Refreshed(r).joins < JoinLimits[Ramp(r)]
MayStart(r) == r.known /\ r.healthy /\ r.ledger.count < StartLimit

\* increment_budget_usage: _ensure_activity_root makes a root where there is none, and
\* does not put it into the metadata.
Counted(r) == IF r.ledger.kept THEN [r EXCEPT !.ledger.count = @ + 1] ELSE r

\* mark_join_success, mark_action_success, mark_join_failure, mark_action_failure.
Marked(r, action) ==
    CASE action = "join"    -> Counted([Refreshed(r) EXCEPT !.joins = @ + 1, !.window = day, !.healthy = TRUE])
      [] action = "start"   -> Counted([Refreshed(r) EXCEPT !.healthy = TRUE])
      [] action = "refused" -> [Refreshed(r) EXCEPT !.healthy = FALSE]

------------------------------------------------------------------------------
(* The calls of live workers.                                              *)

Begin(p, a, action) ==
    /\ p \in JoinWorkers /\ at_work[p].stage = "rest" /\ calls < MaxCalls
    /\ IF action = "join" THEN MayJoin(InFile[a]) ELSE MayStart(InFile[a])
    /\ calls' = calls + 1
    /\ at_work' = [at_work EXCEPT ![p].stage = "call", ![p].action = action, ![p].account = a]
    /\ UNCHANGED <<registry, torn, day, write_deaths, joined, started, onboarded, raced>>

\* Telegram carries the call out, knows the account as a member already, or limits or
\* flags the account.
Called(p) ==
    /\ at_work[p].stage = "call"
    /\ LET a == at_work[p].account IN
       \/ /\ joined' = [joined EXCEPT ![a] = @ + (IF at_work[p].action = "join" THEN 1 ELSE 0)]
          /\ started' = [started EXCEPT ![a] = @ + (IF at_work[p].action = "start" THEN 1 ELSE 0)]
          /\ at_work' = [at_work EXCEPT ![p].stage = "load"]
       \/ /\ at_work[p].action = "join"
          /\ at_work' = [at_work EXCEPT ![p].stage = "load"] /\ UNCHANGED <<joined, started>>
       \/ /\ at_work' = [at_work EXCEPT ![p].stage = "load", ![p].action = "refused"]
          /\ UNCHANGED <<joined, started>>
    /\ UNCHANGED <<registry, torn, day, calls, write_deaths, onboarded, raced>>

\* An account the file does not hold is not marked.
Load(p) ==
    /\ at_work[p].stage = "load"
    /\ LET r == InFile[at_work[p].account] IN
         at_work' = [at_work EXCEPT ![p] = IF r.known
                       THEN [@ EXCEPT !.stage = "list", !.record = Marked(r, at_work[p].action)] ELSE AtRest]
    /\ raced' = RacedBy(p)
    /\ UNCHANGED <<registry, torn, day, calls, write_deaths, joined, started, onboarded>>

------------------------------------------------------------------------------
(* AccountRegistry.save_account.                                           *)

ListAccounts(p) ==
    /\ at_work[p].stage = "list"
    /\ at_work' = [at_work EXCEPT ![p].stage = "empty", ![p].copy = InFile]
    /\ raced' = RacedBy(p)
    /\ UNCHANGED <<registry, torn, day, calls, write_deaths, joined, started, onboarded>>

\* Mutant: the file is written with the one account.
OnlyThis(w) == [a \in Members |-> IF a = w.account THEN w.record ELSE Missing]
Saved(w) == [w.copy EXCEPT ![w.account] = w.record]

\* write_text: the file is emptied before it is written.
EmptyFile(p) ==
    /\ at_work[p].stage = "empty"
    /\ torn' = TRUE
    /\ at_work' = [at_work EXCEPT ![p].stage = "write"]
    /\ UNCHANGED <<registry, day, calls, write_deaths, joined, started, onboarded, raced>>

WriteFile(p) ==
    /\ at_work[p].stage = "write"
    /\ registry' = Saved(at_work[p])
    /\ torn' = FALSE
    /\ onboarded' = IF at_work[p].action = "onboard" THEN onboarded \cup {at_work[p].account}
                    ELSE onboarded
    /\ at_work' = [at_work EXCEPT ![p] = AtRest]
    /\ UNCHANGED <<day, calls, write_deaths, joined, started, raced>>

ProcessDies(p) ==
    /\ at_work[p].stage # "rest" /\ write_deaths < MaxWriteDeaths
    /\ write_deaths' = write_deaths + 1
    /\ at_work' = [at_work EXCEPT ![p] = AtRest]
    /\ UNCHANGED <<registry, torn, day, calls, joined, started, onboarded, raced>>

------------------------------------------------------------------------------
\* _finalize_success of the wizard, for a number find_by_phone did not know.
OnboardAccount(a) ==
    /\ at_work[Bot].stage = "rest" /\ ~InFile[a].known
    /\ a \notin onboarded \/ calls < MaxCalls
    /\ calls' = IF a \in onboarded THEN calls + 1 ELSE calls
    /\ at_work' = [at_work EXCEPT ![Bot] =
           [AtRest EXCEPT !.stage = "list", !.action = "onboard", !.account = a,
                          !.record = [Missing EXCEPT !.known = TRUE, !.onboarded = day]]]
    /\ raced' = RacedBy(Bot)
    /\ UNCHANGED <<registry, torn, day, write_deaths, joined, started, onboarded>>

\* 24 hours, far longer than any call: every window is over, and so is a rate limit.
DayPasses ==
    /\ day < MaxDays /\ \A p \in Processes : at_work[p].stage = "rest"
    /\ day' = day + 1
    /\ joined' = [a \in Members |-> 0] /\ started' = [a \in Members |-> 0]
    /\ registry' = [a \in Members |-> [registry[a] EXCEPT !.healthy = TRUE, !.ledger.count = 0]]
    /\ UNCHANGED <<torn, at_work, calls, write_deaths, onboarded, raced>>

------------------------------------------------------------------------------
AccountInit ==
    /\ registry = [a \in Members |-> Missing] /\ torn = FALSE
    /\ at_work = [p \in Processes |-> AtRest]
    /\ day = 1 /\ calls = 0 /\ write_deaths = 0
    /\ joined = [a \in Members |-> 0] /\ started = [a \in Members |-> 0]
    /\ onboarded = {} /\ raced = FALSE

AccountNext ==
    \/ \E p \in Processes :
         \/ \E a \in Members, action \in {"join", "start"} : Begin(p, a, action)
         \/ Called(p) \/ Load(p) \/ ListAccounts(p) \/ EmptyFile(p) \/ WriteFile(p) \/ ProcessDies(p)
    \/ \E a \in Members : OnboardAccount(a)
    \/ DayPasses

AccountSpec == AccountInit /\ [][AccountNext]_account_vars

------------------------------------------------------------------------------
AccountTypeOK ==
    /\ registry \in [Members -> Account] /\ torn \in BOOLEAN
    /\ \A p \in Processes : /\ at_work[p].stage \in Stages /\ at_work[p].account \in Members \cup {"none"}
                            /\ at_work[p].record \in Account /\ at_work[p].copy \in [Members -> Account]
    /\ day \in 1..MaxDays /\ calls \in 0..MaxCalls /\ write_deaths \in 0..MaxWriteDeaths
    /\ joined \in [Members -> Nat] /\ started \in [Members -> Nat]
    /\ onboarded \subseteq Members /\ raced \in BOOLEAN

Undisturbed == ~raced /\ write_deaths = 0

\* While no two processes are in the file at a time and none dies, an account joins no
\* more than its warm-up allows, save one call of each other worker under way.
JoinsAreBounded ==
    Undisturbed => \A a \in Members : registry[a].known =>
      joined[a] <= JoinLimits[Ramp(registry[a])] + Cardinality(JoinWorkers) - 1

\* While no two processes are in the file at a time and none dies, an account whose
\* onboarding was written stays in the registry.
OnboardedStays == Undisturbed => \A a \in onboarded : registry[a].known

\* The file keeps the accounts it was given and the joins counted in it.
RegistryKeepsAccounts == OnboardedStays /\ JoinsAreBounded

\* "Persist one successful action against the warmup budget ledger": new messages are
\* bounded as joins are.
WarmUpBounds ==
    Undisturbed => \A a \in Members : started[a] <= StartLimit + Cardinality(JoinWorkers) - 1
=============================================================================
