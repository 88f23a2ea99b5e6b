------------------------------ MODULE SyncGate ------------------------------
(***************************************************************************)
(* What the execution layer promises, whatever queue, lock or semaphore    *)
(* it uses.  A round owns its account from the moment it may start to the  *)
(* moment it leaves; only owners talk to a mail server, at most Limit of   *)
(* them at once; a round that failed is blamed on the account at most      *)
(* once, after its last exchange; an account with rounds asked for is      *)
(* never left without an owner.                                            *)
(***************************************************************************)
EXTENDS Naturals, FiniteSets

CONSTANTS Rounds, AccountOf, Background, Limit

VARIABLES
    phase,      \* [Rounds -> {"idle", "asked", "owner", "over", "skipped"}]
    connected,  \* the rounds that hold a connection
    blamed      \* [Rounds -> Nat]

gateVars == <<phase, connected, blamed>>

SameAccount(r) == {s \in Rounds \ {r} : AccountOf[s] = AccountOf[r]}

Busy(r) == \E s \in SameAccount(r) : phase[s] \in {"asked", "owner"}

GateInit ==
    /\ phase = [r \in Rounds |-> "idle"]
    /\ connected = {}
    /\ blamed = [r \in Rounds |-> 0]

\* A background round gives up on a busy account, any other one queues.
Ask(r) ==
    /\ phase[r] = "idle"
    /\ phase' = [phase EXCEPT ![r] = IF ~Busy(r) THEN "owner"
                                     ELSE IF r \in Background THEN "skipped" ELSE "asked"]
    /\ UNCHANGED <<connected, blamed>>

Connect(r) ==
    /\ phase[r] = "owner"
    /\ r \notin connected
    /\ blamed[r] = 0
    /\ Cardinality(connected) < Limit
    /\ connected' = connected \union {r}
    /\ UNCHANGED <<phase, blamed>>

Disconnect(r) ==
    /\ r \in connected
    /\ connected' = connected \ {r}
    /\ UNCHANGED <<phase, blamed>>

Blame(r) ==
    /\ phase[r] = "owner"
    /\ r \notin connected
    /\ blamed[r] = 0
    /\ blamed' = [blamed EXCEPT ![r] = 1]
    /\ UNCHANGED <<phase, connected>>

\* The account passes to one of the rounds that asked for it, if any did.
Leave(r) ==
    LET heirs == {s \in SameAccount(r) : phase[s] = "asked"} IN
    /\ phase[r] = "owner"
    /\ r \notin connected
    /\ \/ /\ heirs = {}
          /\ phase' = [phase EXCEPT ![r] = "over"]
       \/ \E s \in heirs : phase' = [phase EXCEPT ![r] = "over", ![s] = "owner"]
    /\ UNCHANGED <<connected, blamed>>

GateNext == \E r \in Rounds : Ask(r) \/ Connect(r) \/ Disconnect(r) \/ Blame(r) \/ Leave(r)

GateSpec == GateInit /\ [][GateNext]_gateVars
=============================================================================
