--------------------------- MODULE MCManagedAccounts ---------------------------
(* One account and one worker: what the warm-up does not count.             *)
EXTENDS ManagedAccounts, TLC

\* An account may join once on its first day and twice on its second.
TwoDayRamp == <<1, 2>>
=============================================================================
