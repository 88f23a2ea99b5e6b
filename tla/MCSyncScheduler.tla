--------------------------- MODULE MCSyncScheduler ---------------------------
\* Two accounts, and two bulk calls that overlap on the second one.
EXTENDS SyncScheduler

MCAccounts == 1 .. 2
MCBulks == {"all", "one"}
MCTargets == [b \in MCBulks |-> IF b = "all" THEN MCAccounts ELSE {2}]
MCSwitched == {2}
=============================================================================
