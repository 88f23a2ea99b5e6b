---------------------------- MODULE SyncScheduler ----------------------------
(***************************************************************************)
(* SyncScheduler: the three tiers that decide which account is synced and  *)
(* when.  The background tick walks the accounts that are due one by one;  *)
(* a bulk round ("sync all") pauses the tick and runs its accounts at      *)
(* once; an interactive round serves one account a user is looking at.     *)
(*                                                                         *)
(* A round is one step here: SyncPool is what happens inside it.  The      *)
(* clock is a fairness assumption: "due" turns TRUE when now reaches the   *)
(* account's dueAt (DueTime is where the instants are).                    *)
(***************************************************************************)
EXTENDS Naturals, Sequences, FiniteSets

CONSTANTS
    Accounts,       \* ids, in the order of the candidate query
    Bulks,          \* calls of syncAll, each made at most once
    Targets,        \* [Bulks -> SUBSET Accounts]: the ids each one names
    Switched,       \* accounts whose owner uses the sync switch
    Threshold,      \* FIREMAIL_SYNC_SUSPEND_AFTER_ROUNDS, at least 2
    Enforce,        \* FIREMAIL_SYNC_SUSPEND_ENFORCE
    MaxRestarts     \* bound on crashes and restarts of the server

ASSUME AccountsAssumption ==
    /\ Accounts \subseteq Nat /\ IsFiniteSet(Accounts)
    /\ Switched \subseteq Accounts
    /\ IsFiniteSet(Bulks)
    /\ \A b \in Bulks : b \notin {"tick", "user"}
    /\ Targets \in [Bulks -> (SUBSET Accounts) \ {{}}]

ASSUME PolicyAssumption ==
    /\ Threshold \in Nat \ {0, 1}
    /\ Enforce \in BOOLEAN
    /\ MaxRestarts \in Nat

VARIABLES
    tick,           \* #ticking: "none", in a "round", or in the "gap" after one
    left,           \* candidates the tick has still to look at
    due,            \* now >= dueAt, for each account
    pauseDepth,     \* #pauseDepth
    bulk,           \* where each syncAll is in its life
    lock,           \* KeyedMutex: whose rounds an account is in, running one first
    streak,         \* SyncEscalation: failed background rounds in a row
    suspension,     \* SyncSuspensionStore, persisted
    enabled,        \* accounts.sync_enabled, persisted
    shown,          \* state of the latest background "sync:tier" event
    stage,          \* of the process: "up", "stopping", "drained"
    restarts

vars == <<tick, left, due, pauseDepth, bulk, lock, streak, suspension, enabled,
          shown, stage, restarts>>

Owners == {"tick", "user"} \union Bulks

\* Bulk calls that keep the background tier paused.
Pausing == {b \in Bulks : bulk[b] \in {"running", "resuming"}}

Running(b) == {a \in Accounts : \E i \in DOMAIN lock[a] : lock[a][i] = b}

Init ==
    /\ tick = "none"
    /\ left = {}
    /\ due \in [Accounts -> BOOLEAN]
    /\ pauseDepth = 0
    /\ bulk = [b \in Bulks |-> "idle"]
    /\ lock = [a \in Accounts |-> <<>>]
    /\ streak = [a \in Accounts |-> 0]
    /\ suspension = [a \in Accounts |-> "none"]
    /\ enabled = [a \in Accounts |-> TRUE]
    /\ shown = "idle"
    /\ stage = "up"
    /\ restarts = 0

-----------------------------------------------------------------------------
(* The background tier                                                     *)

\* Faulty: the candidates include the accounts that were suspended.
CandidatesWithSuspended == {a \in Accounts : enabled[a]}

\* #candidates: rows with sync_enabled, less those really suspended.
Candidates == {a \in Accounts : enabled[a] /\ suspension[a] # "enforced"}

\* Faulty: the tick queues behind a busy account.
ReadyThoughBusy(cands) == {a \in cands : due[a]}

\* Faulty: a busy account ends the walk instead of being passed over.
ReadyUntilBusy(cands) ==
    {a \in cands : due[a] /\ \A b \in cands : b <= a => lock[b] = <<>>}

\* The candidates the loop would sync: due, and in nobody's round.
Ready(cands) == {a \in cands : due[a] /\ lock[a] = <<>>}

\* Faulty: the end of a tick is announced even while a bulk call pauses it.
EndTickAloud ==
    /\ tick' = "none"
    /\ left' = {}
    /\ shown' = IF tick # "none" THEN "idle" ELSE shown
    /\ UNCHANGED lock

\* The loop is over: "idle" is announced only by a tick that began a round.
EndTick ==
    /\ tick' = "none"
    /\ left' = {}
    /\ shown' = IF tick # "none" /\ pauseDepth = 0 THEN "idle" ELSE shown
    /\ UNCHANGED lock

\* #runTick up to its next await: the first ready account among cands, in the
\* order of their ids, begins its background round.
Walk(cands) ==
    \/ /\ pauseDepth > 0 \/ Ready(cands) = {}
       /\ EndTick
    \/ /\ pauseDepth = 0
       /\ \E a \in Ready(cands) :
            /\ \A b \in Ready(cands) : a <= b
            /\ lock' = [lock EXCEPT ![a] = Append(@, "tick")]
            /\ left' = {b \in cands : b > a}
       /\ tick' = "round"
       /\ shown' = IF tick = "none" THEN "running" ELSE shown

\* The timer calls tick(), which joins the tick in progress or begins one.
StartTick ==
    /\ stage = "up"
    /\ tick = "none"
    /\ Walk(Candidates)
    /\ UNCHANGED <<due, pauseDepth, bulk, streak, suspension, enabled, stage, restarts>>

\* Faulty: the loop reads its candidates again after every account.
GapEndsRereading ==
    /\ tick = "gap"
    /\ Walk(Candidates)
    /\ UNCHANGED <<due, pauseDepth, bulk, streak, suspension, enabled, stage, restarts>>

\* The pause between two accounts; stop() cuts it short and the loop goes on.
GapEnds ==
    /\ tick = "gap"
    /\ Walk(left)
    /\ UNCHANGED <<due, pauseDepth, bulk, streak, suspension, enabled, stage, restarts>>

\* The account's dueAt is reached.
DueComes(a) ==
    /\ ~due[a]
    /\ due' = [due EXCEPT ![a] = TRUE]
    /\ UNCHANGED <<tick, left, pauseDepth, bulk, lock, streak, suspension, enabled,
                   shown, stage, restarts>>

-----------------------------------------------------------------------------
(* The tiers a user drives: requests, which the server refuses from the     *)
(* moment its shutdown begins                                              *)

\* POST /accounts/:id/sync and syncNow: it does nothing for a busy account.
SyncNow(a) ==
    /\ stage = "up"
    /\ lock[a] = <<>>
    /\ lock' = [lock EXCEPT ![a] = <<"user">>]
    /\ UNCHANGED <<tick, left, due, pauseDepth, bulk, streak, suspension, enabled,
                   shown, stage, restarts>>

\* Faulty: every bulk call announces the pause and nobody counts them.
PauseOnce == pauseDepth' = 1 /\ shown' = "paused"

\* #pause
Pause ==
    /\ pauseDepth' = pauseDepth + 1
    /\ shown' = IF pauseDepth = 0 THEN "paused" ELSE shown

\* syncAll: pause the tick, ask for a round of every target at once.  A
\* suspended account, or one switched off, may be a target.
SyncAll(b) ==
    /\ stage = "up"
    /\ bulk[b] = "idle"
    /\ bulk' = [bulk EXCEPT ![b] = "running"]
    /\ Pause
    /\ lock' = [a \in Accounts |-> IF a \in Targets[b] THEN Append(lock[a], b) ELSE lock[a]]
    /\ UNCHANGED <<tick, left, due, streak, suspension, enabled, stage, restarts>>

\* Faulty: the first call that ends lets the tick go for all.
ResumeDelayEndsAll(b) ==
    /\ bulk[b] = "resuming"
    /\ bulk' = [bulk EXCEPT ![b] = "over"]
    /\ pauseDepth' = 0
    /\ shown' = "idle"
    /\ UNCHANGED <<tick, left, due, lock, streak, suspension, enabled, stage, restarts>>

\* #waitThenResume after its delay, which stop() cuts short.
ResumeDelayEnds(b) ==
    /\ bulk[b] = "resuming"
    /\ bulk' = [bulk EXCEPT ![b] = "over"]
    /\ pauseDepth' = IF pauseDepth > 0 THEN pauseDepth - 1 ELSE 0
    /\ shown' = IF pauseDepth <= 1 THEN "idle" ELSE shown
    /\ UNCHANGED <<tick, left, due, lock, streak, suspension, enabled, stage, restarts>>

\* resume(): POST /accounts/:id/resume.
Resume(a) ==
    /\ stage = "up"
    /\ suspension' = [suspension EXCEPT ![a] = "none"]
    /\ streak' = [streak EXCEPT ![a] = 0]
    /\ due' = [due EXCEPT ![a] = TRUE]
    /\ UNCHANGED <<tick, left, pauseDepth, bulk, lock, enabled, shown, stage, restarts>>

\* PUT /accounts/:id/sync-enabled; the tick in progress keeps its old rows.
SwitchSync(a) ==
    /\ stage = "up"
    /\ enabled' = [enabled EXCEPT ![a] = ~@]
    /\ UNCHANGED <<tick, left, due, pauseDepth, bulk, lock, streak, suspension,
                   shown, stage, restarts>>

-----------------------------------------------------------------------------
(* The end of a round                                                      *)

\* #settle.  Only the background tier feeds the streak, any tier ends it; a
\* success forgets the decision and leaves the persisted record.  "streak"
\* stops at Threshold: from there on every failure decides the same.
Settle(a, owner, outcome) ==
    LET failed == outcome = "fail" /\ owner = "tick"
        rounds == IF streak[a] < Threshold THEN streak[a] + 1 ELSE streak[a]
    IN
    /\ streak' = [streak EXCEPT ![a] =
                    IF outcome = "ok" THEN 0 ELSE IF failed THEN rounds ELSE @]
    /\ suspension' = [suspension EXCEPT ![a] =
                    IF failed /\ rounds = Threshold
                    THEN IF Enforce THEN "enforced" ELSE "observed"
                    ELSE @]

\* Faulty: a bulk call whose last round throws never schedules its resume.
BulkAfterUnlessThrown(a, owner, outcome) ==
    bulk' = IF owner \in Bulks /\ Running(owner) = {a} /\ outcome # "throw"
            THEN [bulk EXCEPT ![owner] = "resuming"]
            ELSE bulk

\* The "finally" of syncAll, when the last of its rounds is over.
BulkAfter(a, owner, outcome) ==
    bulk' = IF owner \in Bulks /\ Running(owner) = {a}
            THEN [bulk EXCEPT ![owner] = "resuming"]
            ELSE bulk

\* A round of account a is over, with its retries, and its caller has done its
\* bookkeeping: #settle (not after a throw), then #reschedule, which always
\* puts dueAt in the future.
RoundEnds(a, outcome) ==
    /\ lock[a] # <<>>
    /\ lock' = [lock EXCEPT ![a] = Tail(@)]
    /\ LET owner == Head(lock[a]) IN
       /\ Settle(a, owner, outcome)
       /\ BulkAfter(a, owner, outcome)
       /\ tick' = IF owner = "tick" THEN "gap" ELSE tick
    /\ due' = [due EXCEPT ![a] = FALSE]
    /\ UNCHANGED <<left, pauseDepth, enabled, shown, stage, restarts>>

-----------------------------------------------------------------------------
(* The process                                                             *)

\* stop(): no new tick; the loop of the tick in progress does not look.
Stop ==
    /\ stage = "up"
    /\ stage' = "stopping"
    /\ UNCHANGED <<tick, left, due, pauseDepth, bulk, lock, streak, suspension,
                   enabled, shown, restarts>>

\* drain(): the tick in progress, then the resume delays that are pending.
DrainEnds ==
    /\ stage = "stopping"
    /\ tick = "none"
    /\ \A b \in Bulks : bulk[b] # "resuming"
    /\ stage' = "drained"
    /\ UNCHANGED <<tick, left, due, pauseDepth, bulk, lock, streak, suspension,
                   enabled, shown, restarts>>

\* The process dies, after its drain or in the middle of anything, and a new
\* one starts: all but the database is new, dueAt is derived from it.
Restart ==
    /\ restarts < MaxRestarts
    /\ restarts' = restarts + 1
    /\ tick' = "none" /\ left' = {} /\ pauseDepth' = 0
    /\ due' \in [Accounts -> BOOLEAN]
    /\ bulk' = [b \in Bulks |-> IF bulk[b] = "idle" THEN "idle" ELSE "over"]
    /\ lock' = [a \in Accounts |-> <<>>]
    /\ streak' = [a \in Accounts |-> 0]
    /\ shown' = "idle"
    /\ stage' = "up"
    /\ UNCHANGED <<suspension, enabled>>

-----------------------------------------------------------------------------
Outcomes == {"ok", "fail", "throw"}

AnyRoundEnds(a) == \E outcome \in Outcomes : RoundEnds(a, outcome)

Next ==
    \/ StartTick \/ GapEnds \/ Stop \/ DrainEnds \/ Restart
    \/ \E a \in Accounts : DueComes(a) \/ SyncNow(a) \/ Resume(a) \/ AnyRoundEnds(a)
    \/ \E a \in Switched : SwitchSync(a)
    \/ \E b \in Bulks : SyncAll(b) \/ ResumeDelayEnds(b)

Spec == Init /\ [][Next]_vars

\* Timers fire and rounds end; nobody has to use the product or stop it.
Fairness ==
    /\ WF_vars(StartTick) /\ WF_vars(GapEnds) /\ WF_vars(DrainEnds)
    /\ \A a \in Accounts : WF_vars(DueComes(a)) /\ WF_vars(AnyRoundEnds(a))
    /\ \A b \in Bulks : WF_vars(ResumeDelayEnds(b))

FairSpec == Spec /\ Fairness

-----------------------------------------------------------------------------
(* Properties                                                              *)

\* The types of the scheduler's state; pauseDepth counts the calls that pause.
TypeOK ==
    /\ tick \in {"none", "round", "gap"}
    /\ left \subseteq Accounts
    /\ due \in [Accounts -> BOOLEAN]
    /\ pauseDepth = Cardinality(Pausing)
    /\ bulk \in [Bulks -> {"idle", "running", "resuming", "over"}]
    /\ lock \in [Accounts -> Seq(Owners)]
    /\ streak \in [Accounts -> 0 .. Threshold]
    /\ suspension \in [Accounts -> {"none", "observed", "enforced"}]
    /\ enabled \in [Accounts -> BOOLEAN]
    /\ shown \in {"idle", "running", "paused"}
    /\ stage \in {"up", "stopping", "drained"}
    /\ restarts \in 0 .. MaxRestarts

\* The background tier syncs one account at a time and never waits behind
\* another tier: there is at most one background round, it runs, and the tick
\* is waiting for it.  When stop() returns the tier is quiet, and stays so.
BackgroundIsSerial ==
    /\ \A a \in Running("tick") :
        Head(lock[a]) = "tick" /\ "tick" \notin {lock[a][i] : i \in 2 .. Len(lock[a])}
    /\ Cardinality(Running("tick")) = IF tick = "round" THEN 1 ELSE 0
    /\ stage = "drained" => tick = "none"

\* No background round begins while a bulk call, or the delay after it, is in
\* progress, however the calls overlap.
BulkKeepsTheTickOut ==
    [][Pausing # {} => Running("tick")' \subseteq Running("tick")]_vars

\* An account whose suspension is enforced is neither in a background round
\* nor ahead of the tick in progress.
SuspendedIsNotPolled ==
    \A a \in Accounts : suspension[a] = "enforced" => a \notin Running("tick") \union left

\* What the clients were last told of the background tier: "paused" exactly
\* while a bulk call pauses it, and never "running" when no tick is.
ShownIsTrue ==
    /\ shown = "paused" <=> Pausing # {}
    /\ shown = "running" => tick # "none"

\* Whatever the rounds of a bulk call do, the background tier is let go.
BaselineResumes == pauseDepth > 0 ~> pauseDepth = 0

\* An account that is enabled and not suspended is synced again and again:
\* no bulk call, busy account or slow neighbour starves it.
EveryAccountIsPolled ==
    \A a \in Accounts :
        []<>(lock[a] # <<>> \/ ~enabled[a] \/ suspension[a] = "enforced" \/ stage # "up")

\* stop() returns.
StopReturns == stage = "stopping" ~> stage # "stopping"

\* Said by index.ts of the shutdown, "wait for the syncs and sends that are
\* running, then close the database": when stop() returns no round is running.
StopWaitsForRounds == stage = "drained" => \A a \in Accounts : lock[a] = <<>>
=============================================================================
