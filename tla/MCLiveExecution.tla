--------------------------- MODULE MCLiveExecution ---------------------------
(* Small instances of LiveExecution: which account owns which action, and  *)
(* which chat a visible action writes to.                                  *)
EXTENDS LiveExecution, TLC

CONSTANTS a1, a2, a3, a4, acct1, acct2, chat1

MCAccountOf == [a \in Action |-> IF a = a2 THEN acct2 ELSE acct1]
MCNoChat == [a \in Action |-> NoCommunity]
MCOneChat == [a \in Action |-> chat1]

WorkerSymmetry == Permutations(Worker)
\* a1, a3 and a4 are alike in the instances that use this.
ActionSymmetry == WorkerSymmetry \cup Permutations({a1, a3, a4})
=============================================================================
