------------------------------ MODULE StateGuard ------------------------------
(***************************************************************************)
(* The guard file under which the live-execution manager, the external     *)
(* conversation manager and the scheduler lease read, change and write     *)
(* their state (LiveExecutionManager._with_guard and its two copies).      *)
(*                                                                         *)
(* Processes share nothing but the file system: os.open with O_CREAT and   *)
(* O_EXCL creates the guard or fails, and a guard whose modification time  *)
(* is old counts as left behind by a dead process and is unlinked.  Each   *)
(* file-system call is one step; the RLock of the manager serializes the   *)
(* threads of one process, so a process makes one guarded call at a time.  *)
(***************************************************************************)
EXTENDS Naturals

CONSTANTS
    Process,          \* processes that share the state directory
    Nobody,           \* owner of a guard that does not exist
    Attempts,         \* DEFAULT_GUARD_ATTEMPTS
    Stale,            \* DEFAULT_GUARD_STALE_SECONDS
    MaxTime,          \* bound: the clock stops here
    MaxCrashes,       \* bound: processes that die in the middle of a call
    HoldersKeepUp     \* TRUE: nobody holds the guard for Stale or longer

ASSUME GuardConstantsOK ==
    /\ Nobody \notin Process
    /\ Attempts \in Nat \ {0} /\ Stale \in Nat \ {0}
    /\ MaxTime \in Nat /\ MaxCrashes \in Nat
    /\ HoldersKeepUp \in BOOLEAN

VARIABLES
    now,        \* the wall clock
    guard,      \* the guard file: who created it (Nobody: it is not there), when
    pc,         \* where in _with_guard each process is
    called_at,  \* current_time, read once at the start of the call
    tries,      \* attempts of _acquire_guard used up
    fresh,      \* history: no one wrote the state since the process read it
    crashes

vars == <<now, guard, pc, called_at, tries, fresh, crashes>>

Inside == {"read", "write", "release"}
Stage == Inside \cup {"idle", "open", "exists", "stat", "break", "sleep"}

NoGuard == [owner |-> Nobody, mtime |-> 0]
GuardExists == guard.owner # Nobody

-----------------------------------------------------------------------------
Call(p) ==
    /\ pc[p] = "idle"
    /\ pc' = [pc EXCEPT ![p] = "open"]
    /\ called_at' = [called_at EXCEPT ![p] = now]
    /\ UNCHANGED <<now, guard, tries, fresh, crashes>>

\* The call is over, with a result or an exception.
Return(p) ==
    /\ pc' = [pc EXCEPT ![p] = "idle"]
    /\ called_at' = [called_at EXCEPT ![p] = 0]
    /\ tries' = [tries EXCEPT ![p] = 0]
    /\ fresh' = [fresh EXCEPT ![p] = FALSE]

\* Mutant: without O_EXCL the file is opened though it is there.
OpenShared(p) ==
    /\ pc[p] = "open"
    /\ guard' = [owner |-> p, mtime |-> now]
    /\ pc' = [pc EXCEPT ![p] = "read"]
    /\ UNCHANGED <<now, called_at, tries, fresh, crashes>>
Open(p) ==
    /\ pc[p] = "open"
    /\ IF GuardExists
       THEN pc' = [pc EXCEPT ![p] = "exists"] /\ UNCHANGED guard
       ELSE /\ pc' = [pc EXCEPT ![p] = "read"]
            /\ guard' = [owner |-> p, mtime |-> now]
    /\ UNCHANGED <<now, called_at, tries, fresh, crashes>>

\* _guard_is_stale: first exists(), then stat(), which raises if the guard has
\* gone in between.
Exists(p) ==
    /\ pc[p] = "exists"
    /\ pc' = [pc EXCEPT ![p] = IF GuardExists THEN "stat" ELSE "sleep"]
    /\ UNCHANGED <<now, guard, called_at, tries, fresh, crashes>>

\* Mutant: no guard is ever too old.
NeverStale(p) == FALSE
\* Mutant: a guard is given up one second early.
StaleEarly(p) == called_at[p] + 1 >= guard.mtime + Stale
\* The age is measured against the start of the call, not against now.
IsStale(p) == called_at[p] >= guard.mtime + Stale

Stat(p) ==
    /\ pc[p] = "stat"
    /\ IF GuardExists
       THEN /\ pc' = [pc EXCEPT ![p] = IF IsStale(p) THEN "break" ELSE "sleep"]
            /\ UNCHANGED <<called_at, tries, fresh>>
       ELSE Return(p)
    /\ UNCHANGED <<now, guard, crashes>>

\* The next attempt, or TimeoutError when there is none.
NextTry(p) ==
    IF tries[p] + 1 < Attempts
    THEN /\ pc' = [pc EXCEPT ![p] = "open"]
         /\ tries' = [tries EXCEPT ![p] = @ + 1]
         /\ UNCHANGED <<called_at, fresh>>
    ELSE Return(p)

\* Unlinks whatever guard is there by now.
Break(p) ==
    /\ pc[p] = "break"
    /\ guard' = NoGuard
    /\ NextTry(p)
    /\ UNCHANGED <<now, crashes>>

Sleep(p) ==
    /\ pc[p] = "sleep"
    /\ NextTry(p)
    /\ UNCHANGED <<now, guard, crashes>>

\* The guarded operation loads the JSON file, then replaces it; it may also find
\* nothing to change, or raise.
Read(p) ==
    /\ pc[p] = "read"
    /\ \/ pc' = [pc EXCEPT ![p] = "write"] /\ fresh' = [fresh EXCEPT ![p] = TRUE]
       \/ pc' = [pc EXCEPT ![p] = "release"] /\ UNCHANGED fresh
    /\ UNCHANGED <<now, guard, called_at, tries, crashes>>

Write(p) ==
    /\ pc[p] = "write"
    /\ pc' = [pc EXCEPT ![p] = "release"]
    /\ fresh' = [q \in Process |-> FALSE]
    /\ UNCHANGED <<now, guard, called_at, tries, crashes>>

\* _release_guard unlinks the guard file, whoever created it.
Release(p) ==
    /\ pc[p] = "release"
    /\ guard' = NoGuard
    /\ Return(p)
    /\ UNCHANGED <<now, crashes>>

\* The process dies and is started again; a guard it created stays.
Crash(p) ==
    /\ pc[p] # "idle" /\ crashes < MaxCrashes
    /\ crashes' = crashes + 1
    /\ Return(p)
    /\ UNCHANGED <<now, guard>>

\* When HoldersKeepUp, a live holder is done before its guard is Stale old.
Tick ==
    /\ now < MaxTime
    /\ HoldersKeepUp /\ GuardExists /\ pc[guard.owner] \in Inside =>
          now + 1 < guard.mtime + Stale
    /\ now' = now + 1
    /\ UNCHANGED <<guard, pc, called_at, tries, fresh, crashes>>

-----------------------------------------------------------------------------
Init ==
    /\ now = 0
    /\ guard = NoGuard
    /\ pc = [p \in Process |-> "idle"]
    /\ called_at = [p \in Process |-> 0]
    /\ tries = [p \in Process |-> 0]
    /\ fresh = [p \in Process |-> FALSE]
    /\ crashes = 0

Step(p) == \/ Call(p) \/ Open(p) \/ Exists(p) \/ Stat(p) \/ Break(p)
           \/ Sleep(p) \/ Read(p) \/ Write(p) \/ Release(p)

Next == \/ \E p \in Process : Step(p) \/ Crash(p)
        \/ Tick

Spec == Init /\ [][Next]_vars

\* Each process runs a polling loop that makes one guarded call after another.
FairSpec == Spec /\ WF_vars(Tick) /\ \A p \in Process : WF_vars(Step(p))

-----------------------------------------------------------------------------
(* Properties.                                                             *)

TypeOK ==
    /\ now \in 0..MaxTime
    /\ guard \in [owner : Process \cup {Nobody}, mtime : 0..MaxTime]
    /\ pc \in [Process -> Stage]
    /\ called_at \in [Process -> 0..MaxTime]
    /\ tries \in [Process -> 0..Attempts]
    /\ fresh \in [Process -> BOOLEAN]
    /\ crashes \in 0..MaxCrashes

\* Two processes are never both under the guard.
MutualExclusion ==
    \A p, q \in Process : pc[p] \in Inside /\ pc[q] \in Inside => p = q

\* As long as no process has died holding or waiting for the guard, at most one
\* is under it.
ExclusionWhileAllLive == crashes = 0 => MutualExclusion

\* ... and no process writes state back that another has changed since it read
\* it: no update is lost.
NoLostUpdate == crashes = 0 => \A p \in Process : pc[p] = "write" => fresh[p]

\* A guard left by a dead process does not lock the others out for ever: as soon
\* as it is old enough, someone removes it.
GuardIsFreed ==
    GuardExists /\ guard.mtime + Stale <= MaxTime ~> ~GuardExists
=============================================================================
