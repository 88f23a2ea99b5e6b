------------------------------ MODULE SyncPool ------------------------------
(***************************************************************************)
(* The execution layer of mailbox synchronisation: SyncRunner with its     *)
(* KeyedMutex (one round per account) and its Semaphore (a bounded number  *)
(* of IMAP connections), and the retry loop runRound that drives a round   *)
(* through its attempts.                                                   *)
(*                                                                         *)
(* JavaScript interleaves only between jobs of the event loop.  A          *)
(* macrotask (an HTTP request, a timer, the end of the network exchange)   *)
(* starts when no microtask is pending; the promise reactions it causes    *)
(* run in FIFO order before the next macrotask.  "micro" is that queue,    *)
(* so the gap between Semaphore.#release, which wakes a waiter, and the    *)
(* waiter's own "active += 1" is in the model.                             *)
(***************************************************************************)
EXTENDS Naturals, Sequences, FiniteSets

CONSTANTS
    Rounds,         \* calls of runRound / tryRunRound, each made at most once
    Accounts,
    AccountOf,      \* [Rounds -> Accounts]
    Background,     \* rounds of the background tier: tryRunRound, with a budget
    Interactive,    \* rounds of the interactive tier: they jump the pool's queue
    Limit,          \* FIREMAIL_SYNC_CONCURRENCY
    MaxAttempts     \* SyncPolicy.maxAttempts

ASSUME RoundsAssumption ==
    /\ IsFiniteSet(Rounds)
    /\ AccountOf \in [Rounds -> Accounts]
    /\ Background \subseteq Rounds
    /\ Interactive \subseteq Rounds \ Background

ASSUME BoundsAssumption ==
    /\ Limit \in Nat \ {0}
    /\ MaxAttempts \in Nat \ {0}

VARIABLES
    stage,      \* where each round is in its life
    tries,      \* attempts each round has asked the pool for
    chain,      \* KeyedMutex: the rounds of an account, the one that runs first
    active,     \* Semaphore.#active
    waiting,    \* Semaphore.#waiting
    micro,      \* pending microtasks, named by the round they continue
    result,     \* what the latest attempt of a round returned
    failures,   \* failed rounds written to the account by recordSyncFailure
    stopping    \* SyncScheduler.stop() has aborted every sleep

vars == <<stage, tries, chain, active, waiting, micro, result, failures, stopping>>

\* "queued" waits for the account, "waiting" for the pool; a round in one of
\* the next five is the continuation named by a microtask.
Pending == {"starting", "woken", "settling", "retrying", "unlocking"}
Stages == {"idle", "queued", "waiting", "attempt", "backoff", "done", "skipped"} \union Pending

\* The round has its account's lock.
Holds(r) == stage[r] \in {"waiting", "attempt", "backoff"} \union Pending

\* The attempts that are talking to a mail server.
Connected == {r \in Rounds : stage[r] = "attempt"}

\* Waiters the semaphore has resolved and that have not run yet.
Woken == {r \in Rounds : stage[r] = "woken"}

Init ==
    /\ stage = [r \in Rounds |-> "idle"]
    /\ tries = [r \in Rounds |-> 0]
    /\ chain = [a \in Accounts |-> <<>>]
    /\ active = 0
    /\ waiting = <<>>
    /\ micro = <<>>
    /\ result = [r \in Rounds |-> "none"]
    /\ failures = [r \in Rounds |-> 0]
    /\ stopping = FALSE

-----------------------------------------------------------------------------
(* KeyedMutex                                                              *)

\* Faulty: the lock is looked for only while the account has a connection.
LockedWhileConnected(a) == \E r \in Connected : AccountOf[r] = a

\* KeyedMutex.isLocked
Locked(a) == chain[a] # <<>>

\* KeyedMutex.run: the call is chained at once; its task is a microtask when
\* nothing is ahead of it.
Enqueue(r) ==
    LET a == AccountOf[r] IN
    /\ chain' = [chain EXCEPT ![a] = Append(@, r)]
    /\ IF Locked(a)
       THEN /\ stage' = [stage EXCEPT ![r] = "queued"]
            /\ UNCHANGED micro
       ELSE /\ stage' = [stage EXCEPT ![r] = "starting"]
            /\ micro' = Append(micro, r)

\* SyncRunner.runRound, called by syncAll and syncNow: it queues.
RunRound(r) ==
    /\ micro = <<>>
    /\ stage[r] = "idle"
    /\ r \notin Background
    /\ Enqueue(r)
    /\ UNCHANGED <<tries, active, waiting, result, failures, stopping>>

\* Faulty: the background tick queues behind a busy account.
TryRunRoundQueues(r) ==
    /\ micro = <<>>
    /\ stage[r] = "idle"
    /\ r \in Background
    /\ Enqueue(r)
    /\ UNCHANGED <<tries, active, waiting, result, failures, stopping>>

\* SyncRunner.tryRunRound, called by the background tick: BUSY when the
\* account is in any tier's round, waiting ones included.
TryRunRound(r) ==
    /\ micro = <<>>
    /\ stage[r] = "idle"
    /\ r \in Background
    /\ IF Locked(AccountOf[r])
       THEN /\ stage' = [stage EXCEPT ![r] = "skipped"]
            /\ UNCHANGED <<chain, micro>>
       ELSE Enqueue(r)
    /\ UNCHANGED <<tries, active, waiting, result, failures, stopping>>

\* Faulty: a failed task breaks the chain of its account.
UnlockOnSuccess(r) ==
    LET rest == Tail(chain[AccountOf[r]]) IN
    /\ micro # <<>> /\ Head(micro) = r
    /\ stage[r] = "unlocking"
    /\ chain' = [chain EXCEPT ![AccountOf[r]] = rest]
    /\ IF rest = <<>> \/ result[r] # "ok"
       THEN /\ stage' = [stage EXCEPT ![r] = "done"]
            /\ micro' = Tail(micro)
       ELSE /\ stage' = [stage EXCEPT ![r] = "done", ![Head(rest)] = "starting"]
            /\ micro' = Append(Tail(micro), Head(rest))
    /\ UNCHANGED <<tries, active, waiting, result, failures, stopping>>

\* KeyedMutex.#settle, then the next task chained on the account.
Unlock(r) ==
    LET a == AccountOf[r]
        rest == Tail(chain[a])
    IN
    /\ micro # <<>> /\ Head(micro) = r
    /\ stage[r] = "unlocking"
    /\ chain' = [chain EXCEPT ![a] = rest]
    /\ IF rest = <<>>
       THEN /\ stage' = [stage EXCEPT ![r] = "done"]
            /\ micro' = Tail(micro)
       ELSE /\ stage' = [stage EXCEPT ![r] = "done", ![Head(rest)] = "starting"]
            /\ micro' = Append(Tail(micro), Head(rest))
    /\ UNCHANGED <<tries, active, waiting, result, failures, stopping>>

-----------------------------------------------------------------------------
(* Semaphore                                                               *)

\* Faulty: the limit is off by one.
AcquireOneMore(r) ==
    /\ tries' = [tries EXCEPT ![r] = @ + 1]
    /\ IF active <= Limit
       THEN /\ active' = active + 1
            /\ stage' = [stage EXCEPT ![r] = "attempt"]
            /\ UNCHANGED waiting
       ELSE /\ waiting' = IF r \in Interactive THEN <<r>> \o waiting ELSE Append(waiting, r)
            /\ stage' = [stage EXCEPT ![r] = "waiting"]
            /\ UNCHANGED active

\* Faulty: the priority option is ignored.
AcquireFifo(r) ==
    /\ tries' = [tries EXCEPT ![r] = @ + 1]
    /\ IF active < Limit
       THEN /\ active' = active + 1
            /\ stage' = [stage EXCEPT ![r] = "attempt"]
            /\ UNCHANGED waiting
       ELSE /\ waiting' = Append(waiting, r)
            /\ stage' = [stage EXCEPT ![r] = "waiting"]
            /\ UNCHANGED active

\* Semaphore.#acquire, on behalf of the attempt that runRound starts.
Acquire(r) ==
    /\ tries' = [tries EXCEPT ![r] = @ + 1]
    /\ IF active < Limit
       THEN /\ active' = active + 1
            /\ stage' = [stage EXCEPT ![r] = "attempt"]
            /\ UNCHANGED waiting
       ELSE /\ waiting' = IF r \in Interactive THEN <<r>> \o waiting ELSE Append(waiting, r)
            /\ stage' = [stage EXCEPT ![r] = "waiting"]
            /\ UNCHANGED active

\* The rest of #acquire once the waiter's promise is resolved.
Resume(r) ==
    /\ micro # <<>> /\ Head(micro) = r
    /\ stage[r] = "woken"
    /\ active' = active + 1
    /\ stage' = [stage EXCEPT ![r] = "attempt"]
    /\ micro' = Tail(micro)
    /\ UNCHANGED <<tries, chain, waiting, result, failures, stopping>>

\* Faulty: a release wakes nobody.
ReleaseWithoutWaking(r) ==
    /\ active' = active - 1
    /\ stage' = [stage EXCEPT ![r] = "settling"]
    /\ micro' = <<r>>
    /\ UNCHANGED waiting

\* Faulty: the slot is given back twice when the attempt failed.
ReleaseTwice(r) ==
    /\ active' = IF result'[r] = "error" THEN active - 2 ELSE active - 1
    /\ stage' = [stage EXCEPT ![r] = "settling"]
    /\ micro' = <<r>>
    /\ UNCHANGED waiting

\* Semaphore.#release by round r, whose own continuation follows the waiter's.
Release(r) ==
    /\ active' = active - 1
    /\ IF waiting = <<>>
       THEN /\ stage' = [stage EXCEPT ![r] = "settling"]
            /\ micro' = <<r>>
            /\ UNCHANGED waiting
       ELSE /\ stage' = [stage EXCEPT ![r] = "settling", ![Head(waiting)] = "woken"]
            /\ micro' = <<Head(waiting), r>>
            /\ waiting' = Tail(waiting)

-----------------------------------------------------------------------------
(* runRound: the attempts of a round                                       *)

\* The first attempt of a round that has got its account.
Start(r) ==
    /\ micro # <<>> /\ Head(micro) = r
    /\ stage[r] = "starting"
    /\ Acquire(r)
    /\ micro' = Tail(micro)
    /\ UNCHANGED <<chain, result, failures, stopping>>

\* syncAccount returns, or throws when its own bookkeeping fails.
AttemptEnds(r, outcome) ==
    /\ micro = <<>>
    /\ stage[r] = "attempt"
    /\ result' = [result EXCEPT ![r] = outcome]
    /\ Release(r)
    /\ UNCHANGED <<tries, chain, failures, stopping>>

\* The round is over; a failed one is written to the account, once.
Finish(r) ==
    /\ failures' = IF result[r] = "error" THEN [failures EXCEPT ![r] = @ + 1] ELSE failures
    /\ stage' = [stage EXCEPT ![r] = "unlocking"]
    /\ micro' = Append(Tail(micro), r)

\* Faulty: syncAccount runs without deferFailure, so each failed attempt is
\* written to the account.
SettleReportsEachFailure(r) ==
    /\ micro # <<>> /\ Head(micro) = r
    /\ stage[r] = "settling"
    /\ \/ /\ result[r] # "error" \/ tries[r] >= MaxAttempts
          /\ Finish(r)
       \/ /\ result[r] = "error" /\ tries[r] < MaxAttempts
          /\ failures' = [failures EXCEPT ![r] = @ + 1]
          /\ stage' = [stage EXCEPT ![r] = "backoff"]
          /\ micro' = Tail(micro)
    /\ UNCHANGED <<tries, chain, active, waiting, result, stopping>>

\* runRound after an attempt: return, run out of budget, or back off.  An
\* aborted sleep returns at once, so the retry is already a microtask.
Settle(r) ==
    /\ micro # <<>> /\ Head(micro) = r
    /\ stage[r] = "settling"
    /\ \/ /\ \/ result[r] # "error"
             \/ tries[r] >= MaxAttempts
             \/ r \in Background
          /\ Finish(r)
       \/ /\ result[r] = "error"
          /\ tries[r] < MaxAttempts
          /\ UNCHANGED failures
          /\ IF stopping
             THEN /\ stage' = [stage EXCEPT ![r] = "retrying"]
                  /\ micro' = Append(Tail(micro), r)
             ELSE /\ stage' = [stage EXCEPT ![r] = "backoff"]
                  /\ micro' = Tail(micro)
    /\ UNCHANGED <<tries, chain, active, waiting, result, stopping>>

\* The backoff timer fires, or stop() has woken the sleep.
BackoffEnds(r) ==
    /\ micro = <<>>
    /\ stage[r] = "backoff"
    /\ stage' = [stage EXCEPT ![r] = "retrying"]
    /\ micro' = <<r>>
    /\ UNCHANGED <<tries, chain, active, waiting, result, failures, stopping>>

\* After the sleep: the budget may be gone, otherwise ask the pool again.
Retry(r) ==
    /\ micro # <<>> /\ Head(micro) = r
    /\ stage[r] = "retrying"
    /\ \/ /\ r \in Background
          /\ Finish(r)
          /\ UNCHANGED <<tries, active, waiting>>
       \/ /\ Acquire(r)
          /\ micro' = Tail(micro)
          /\ UNCHANGED failures
    /\ UNCHANGED <<chain, result, stopping>>

\* SyncScheduler.stop(): the abort signal of every sleep.
Stop ==
    /\ micro = <<>>
    /\ ~stopping
    /\ stopping' = TRUE
    /\ UNCHANGED <<stage, tries, chain, active, waiting, micro, result, failures>>

-----------------------------------------------------------------------------
Request(r) == RunRound(r) \/ TryRunRound(r)

Microtask(r) == Start(r) \/ Resume(r) \/ Settle(r) \/ Retry(r) \/ Unlock(r)

Outcomes == {"ok", "error", "throw"}

AnAttemptEnds(r) == \E outcome \in Outcomes : AttemptEnds(r, outcome)

Next ==
    \/ Stop
    \/ \E r \in Rounds : Request(r) \/ Microtask(r) \/ AnAttemptEnds(r) \/ BackoffEnds(r)

Spec == Init /\ [][Next]_vars

\* Microtasks always run; a timer fires; an attempt ends because its deadline
\* closes the connection or, while there is none to close yet, by the time-outs
\* of the provider and of the client.  Nobody has to ask for a round.
Fairness ==
    \A r \in Rounds :
        /\ WF_vars(Microtask(r))
        /\ WF_vars(AnAttemptEnds(r))
        /\ WF_vars(BackoffEnds(r))

FairSpec == Spec /\ Fairness

-----------------------------------------------------------------------------
(* Properties                                                              *)

\* The types of the scheduler's and the pool's state; "active" never goes
\* below zero.
TypeOK ==
    /\ stage \in [Rounds -> Stages]
    /\ tries \in [Rounds -> Nat]
    /\ chain \in [Accounts -> Seq(Rounds)]
    /\ active \in Nat
    /\ waiting \in Seq(Rounds)
    /\ micro \in Seq(Rounds)
    /\ result \in [Rounds -> Outcomes \union {"none"}]
    /\ failures \in [Rounds -> Nat]
    /\ stopping \in BOOLEAN

\* "29 accounts never open 29 IMAP connections at once": the connections that
\* are open are the slots the semaphore counts, and they never exceed the
\* limit, although the slot of a woken waiter is taken in a later microtask
\* than the one that freed it.
ConnectionBound ==
    /\ Cardinality(Connected) = active
    /\ active + Cardinality(Woken) <= Limit

\* Two rounds of one account, of whatever tiers, are never both past the
\* account lock: the lock spans the retries and the backoff between them, so
\* two rounds cannot read the same highest UID.
OneRoundPerAccount ==
    \A r, s \in Rounds :
        r # s /\ AccountOf[r] = AccountOf[s] => ~(Holds(r) /\ Holds(s))

\* No lost wake-up: while a round waits for the pool every slot is in use or
\* on its way to a woken waiter.
NoIdleSlot == waiting # <<>> => active + Cardinality(Woken) = Limit

\* A failed attempt is nobody's business until the round is over: it is
\* written to the account at most once, only for a round whose last attempt
\* failed and that will not try again.
FailureOnlyAtRoundEnd ==
    \A r \in Rounds :
        /\ failures[r] <= 1
        /\ failures[r] = 1 => stage[r] \in {"unlocking", "done"} /\ result[r] = "error"
        /\ stage[r] = "done" /\ result[r] = "error" => failures[r] = 1

\* The round a user is looking at is never behind one nobody is waiting for.
InteractiveFirst ==
    \A i, j \in DOMAIN waiting :
        i < j /\ waiting[j] \in Interactive => waiting[i] \in Interactive

\* Every round that is asked for ends, whatever fails, and frees its account.
EveryRoundEnds == \A r \in Rounds : stage[r] \notin {"idle", "skipped"} ~> stage[r] = "done"

\* The execution layer implements its abstract promise.
PhaseOf(r) ==
    CASE stage[r] \in {"idle", "skipped"} -> stage[r]
      [] stage[r] = "queued" -> "asked"
      [] stage[r] = "done" -> "over"
      [] OTHER -> "owner"

Gate == INSTANCE SyncGate WITH
    phase <- [r \in Rounds |-> PhaseOf(r)], connected <- Connected, blamed <- failures

\* Every step of the pool is a step of SyncGate, or invisible to it.
ImplementsGate == Gate!GateSpec
=============================================================================
