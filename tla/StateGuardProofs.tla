--------------------------- MODULE StateGuardProofs ---------------------------
(***************************************************************************)
(* Proofs about StateGuard, for every number of processes, of attempts and *)
(* of seconds.                                                             *)
(***************************************************************************)
EXTENDS StateGuard, TLAPS

-----------------------------------------------------------------------------
\* While all live, the guard exists exactly while a process is under it, names
\* that process and is not stale; so nobody is about to break it.
Held ==
    /\ \A p \in Process :
         pc[p] \in Inside => guard.owner = p /\ now < guard.mtime + Stale
    /\ GuardExists => pc[guard.owner] \in Inside
    /\ \A p \in Process : pc[p] # "break"
    /\ \A p \in Process : pc[p] = "write" => fresh[p]

GInv ==
    /\ TypeOK
    /\ \A p \in Process : called_at[p] <= now
    /\ crashes = 0 => Held

-----------------------------------------------------------------------------
\* Nobody has called yet, and no guard is there.
LEMMA GuardInit == Init => GInv
<1> SUFFICES ASSUME Init PROVE GInv
  OBVIOUS
<1>1. 0 \in 0..MaxTime /\ 0 \in 0..MaxCrashes /\ 0 \in 0..Attempts
  BY GuardConstantsOK
<1>2. TypeOK
  BY <1>1, GuardConstantsOK DEF Init, TypeOK, NoGuard, Stage
<1>3. Held
  BY DEF Init, Held, NoGuard, GuardExists, Inside
<1> QED
  BY <1>1, <1>2, <1>3 DEF GInv, Init

\* The end of a call keeps the types of what it resets.
LEMMA ReturnTypes ==
    ASSUME TypeOK, NEW p \in Process, Return(p)
    PROVE  /\ pc' \in [Process -> Stage] /\ called_at' \in [Process -> 0..MaxTime]
           /\ tries' \in [Process -> 0..Attempts] /\ fresh' \in [Process -> BOOLEAN]
<1>1. 0 \in 0..MaxTime /\ 0 \in 0..Attempts
  BY GuardConstantsOK
<1> QED
  BY <1>1 DEF Return, TypeOK, Stage

\* So does going on to the next attempt.
LEMMA NextTryTypes ==
    ASSUME TypeOK, NEW p \in Process, NextTry(p)
    PROVE  /\ pc' \in [Process -> Stage] /\ called_at' \in [Process -> 0..MaxTime]
           /\ tries' \in [Process -> 0..Attempts] /\ fresh' \in [Process -> BOOLEAN]
<1>1. CASE tries[p] + 1 < Attempts
  <2>1. tries[p] + 1 \in 0..Attempts
    BY <1>1, GuardConstantsOK DEF TypeOK
  <2> QED
    BY <1>1, <2>1 DEF NextTry, TypeOK, Stage
<1>2. CASE ~(tries[p] + 1 < Attempts)
  BY <1>2, ReturnTypes DEF NextTry
<1> QED
  BY <1>1, <1>2

\* Every step keeps the types, whatever crashes and however long anyone stalls.
LEMMA GuardTypes == TypeOK /\ [Next]_vars => TypeOK'
<1> SUFFICES ASSUME TypeOK, [Next]_vars PROVE TypeOK'
  OBVIOUS
<1> USE GuardConstantsOK
<1>1. ASSUME NEW p \in Process, Call(p) PROVE TypeOK'
  BY <1>1 DEF Call, TypeOK, Stage
<1>2. ASSUME NEW p \in Process, Open(p) PROVE TypeOK'
  <2>1. guard' \in [owner : Process \cup {Nobody}, mtime : 0..MaxTime]
    BY <1>2 DEF Open, TypeOK
  <2>2. pc' \in [Process -> Stage]
    BY <1>2 DEF Open, TypeOK, Stage, Inside
  <2> QED
    BY <1>2, <2>1, <2>2 DEF Open, TypeOK
<1>3. ASSUME NEW p \in Process, Exists(p) PROVE TypeOK'
  BY <1>3 DEF Exists, TypeOK, Stage
<1>4. ASSUME NEW p \in Process, Stat(p) PROVE TypeOK'
  <2>1. CASE GuardExists
    BY <1>4, <2>1 DEF Stat, TypeOK, Stage
  <2>2. CASE ~GuardExists
    BY <1>4, <2>2, ReturnTypes DEF Stat, TypeOK
  <2> QED
    BY <2>1, <2>2
<1>5. ASSUME NEW p \in Process, Break(p) \/ Sleep(p) PROVE TypeOK'
  <2>1. NextTry(p) /\ UNCHANGED <<now, crashes>>
        /\ (guard' = guard \/ guard' = NoGuard)
    BY <1>5 DEF Break, Sleep
  <2>2. guard' \in [owner : Process \cup {Nobody}, mtime : 0..MaxTime]
    BY <2>1 DEF TypeOK, NoGuard
  <2> QED
    BY <2>1, <2>2, NextTryTypes DEF TypeOK
<1>6. ASSUME NEW p \in Process, Read(p) PROVE TypeOK'
  BY <1>6 DEF Read, TypeOK, Stage, Inside
<1>7. ASSUME NEW p \in Process, Write(p) PROVE TypeOK'
  BY <1>7 DEF Write, TypeOK, Stage, Inside
<1>8. ASSUME NEW p \in Process, Release(p) PROVE TypeOK'
  BY <1>8, ReturnTypes DEF Release, TypeOK, NoGuard
<1>9. ASSUME NEW p \in Process, Crash(p) PROVE TypeOK'
  BY <1>9, ReturnTypes DEF Crash, TypeOK
<1>10. CASE Tick
  BY <1>10 DEF Tick, TypeOK
<1>11. CASE UNCHANGED vars
  BY <1>11 DEF vars, TypeOK
<1> QED
  BY <1>1, <1>2, <1>3, <1>4, <1>5, <1>6, <1>7, <1>8, <1>9, <1>10, <1>11
     DEF Next, Step

\* The invariant is inductive when nobody holds the guard until it is stale.
LEMMA GuardStep == ASSUME HoldersKeepUp, GInv, [Next]_vars PROVE GInv'
<1> USE GuardConstantsOK
<1>0. /\ TypeOK /\ TypeOK'
      /\ now \in Nat /\ now' \in Nat /\ guard.mtime \in Nat
      /\ \A p \in Process : called_at[p] \in Nat /\ called_at[p] <= now
  BY GuardTypes DEF GInv, TypeOK
<1>1. \A p \in Process : called_at'[p] <= now'
  <2>1. \A p \in Process : ~Return(p) \/ \A q \in Process :
           called_at'[q] = 0 \/ called_at'[q] = called_at[q]
    BY <1>0 DEF Return, TypeOK
  <2>2. ASSUME NEW p \in Process, Call(p) PROVE \A q \in Process : called_at'[q] <= now'
    BY <1>0, <2>2 DEF Call, TypeOK
  <2>3. ASSUME NEW p \in Process,
               \/ Open(p) \/ Exists(p) \/ Stat(p) \/ Break(p) \/ Sleep(p)
               \/ Read(p) \/ Write(p) \/ Release(p) \/ Crash(p)
        PROVE  \A q \in Process : called_at'[q] <= now'
    <3>1. now' = now /\ (called_at' = called_at \/ Return(p))
      BY <2>3 DEF Open, Exists, Stat, Break, Sleep, NextTry, Read, Write, Release, Crash
    <3> QED
      BY <1>0, <2>1, <3>1
  <2>4. CASE Tick \/ UNCHANGED vars
    BY <1>0, <2>4 DEF Tick, vars
  <2> QED
    BY <2>2, <2>3, <2>4 DEF Next, Step
<1>2. ASSUME crashes' = 0 PROVE Held'
  <2>1. crashes = 0 /\ Held
    <3>1. crashes' = crashes \/ crashes' = crashes + 1
      BY DEF Next, Step, Call, Open, Exists, Stat, Break, Sleep, Read, Write,
             Release, Crash, Tick, vars
    <3> QED
      BY <1>0, <1>2, <3>1 DEF TypeOK, GInv
  <2>2. ASSUME NEW p \in Process, Call(p) PROVE Held'
    BY <1>0, <2>1, <2>2 DEF Call, Held, GuardExists, Inside, TypeOK
  <2>3. ASSUME NEW p \in Process, Open(p) PROVE Held'
    <3>1. CASE GuardExists
      BY <1>0, <2>1, <2>3, <3>1 DEF Open, Held, GuardExists, Inside, TypeOK
    <3>2. CASE ~GuardExists
      <4>1. \A q \in Process : pc[q] \notin Inside
        BY <2>1, <3>2 DEF Held, GuardExists
      <4>2. /\ pc' = [pc EXCEPT ![p] = "read"] /\ now' = now
            /\ guard' = [owner |-> p, mtime |-> now] /\ fresh' = fresh
        BY <2>3, <3>2 DEF Open
      <4> QED
        BY <1>0, <2>1, <4>1, <4>2 DEF Held, GuardExists, Inside, TypeOK
    <3> QED
      BY <3>1, <3>2
  <2>4. ASSUME NEW p \in Process, Exists(p) PROVE Held'
    BY <1>0, <2>1, <2>4 DEF Exists, Held, GuardExists, Inside, TypeOK
  <2>5. ASSUME NEW p \in Process, Stat(p) PROVE Held'
    <3>1. CASE GuardExists
      <4>1. ~IsStale(p)
        BY <1>0, <2>1, <3>1 DEF Held, GuardExists, IsStale, TypeOK
      <4> QED
        BY <1>0, <2>1, <2>5, <3>1, <4>1 DEF Stat, Held, GuardExists, Inside, TypeOK
    <3>2. CASE ~GuardExists
      BY <1>0, <2>1, <2>5, <3>2 DEF Stat, Return, Held, GuardExists, Inside, TypeOK
    <3> QED
      BY <3>1, <3>2
  <2>6. ASSUME NEW p \in Process, Break(p) PROVE Held'
    BY <2>1, <2>6 DEF Break, Held
  <2>7. ASSUME NEW p \in Process, Sleep(p) PROVE Held'
    BY <1>0, <2>1, <2>7
       DEF Sleep, NextTry, Return, Held, GuardExists, Inside, TypeOK
  <2>8. ASSUME NEW p \in Process, Read(p) PROVE Held'
    BY <1>0, <2>1, <2>8 DEF Read, Held, GuardExists, Inside, TypeOK
  <2>9. ASSUME NEW p \in Process, Write(p) PROVE Held'
    <3>1. \A q \in Process : pc'[q] # "write"
      BY <1>0, <2>1, <2>9 DEF Write, Held, Inside, TypeOK
    <3> QED
      BY <1>0, <2>1, <2>9, <3>1 DEF Write, Held, GuardExists, Inside, TypeOK
  <2>10. ASSUME NEW p \in Process, Release(p) PROVE Held'
    <3>1. \A q \in Process : q # p => pc[q] \notin Inside
      BY <2>1, <2>10 DEF Release, Held, Inside
    <3> QED
      BY <1>0, <2>1, <2>10, <3>1
         DEF Release, Return, Held, NoGuard, GuardExists, Inside, TypeOK
  <2>11. ASSUME NEW p \in Process, Crash(p) PROVE Held'
    BY <1>0, <1>2, <2>11 DEF Crash, TypeOK
  <2>12. CASE Tick
    BY <1>0, <2>1, <2>12 DEF Tick, Held, GuardExists, TypeOK
  <2>13. CASE UNCHANGED vars
    BY <2>1, <2>13 DEF vars, Held, GuardExists
  <2> QED
    BY <2>2, <2>3, <2>4, <2>5, <2>6, <2>7, <2>8, <2>9, <2>10, <2>11, <2>12, <2>13
       DEF Next, Step
<1> QED
  BY <1>0, <1>1, <1>2 DEF GInv

-----------------------------------------------------------------------------
\* Guard file, clocks and counters keep their types, the number of attempts of
\* _acquire_guard included.
THEOREM GuardTypeCorrect == Spec => []TypeOK
<1>1. Init => TypeOK
  BY GuardInit DEF GInv
<1> QED
  BY <1>1, GuardTypes, PTL DEF Spec

\* Two processes are never both between _acquire_guard and _release_guard, if
\* no process dies in a guarded call or holds the guard until it is stale.
THEOREM GuardExcludes == ASSUME HoldersKeepUp PROVE Spec => []ExclusionWhileAllLive
<1>1. GInv /\ [Next]_vars => GInv'
  BY GuardStep
<1>2. GInv => ExclusionWhileAllLive
  BY DEF GInv, Held, ExclusionWhileAllLive, MutualExclusion
<1> QED
  BY <1>1, <1>2, GuardInit, PTL DEF Spec

\* Under the same conditions no guarded read-modify-write overwrites another.
THEOREM GuardKeepsUpdates == ASSUME HoldersKeepUp PROVE Spec => []NoLostUpdate
<1>1. GInv /\ [Next]_vars => GInv'
  BY GuardStep
<1>2. GInv => NoLostUpdate
  BY DEF GInv, Held, NoLostUpdate
<1> QED
  BY <1>1, <1>2, GuardInit, PTL DEF Spec

=============================================================================
