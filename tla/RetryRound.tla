----------------------------- MODULE RetryRound -----------------------------
(***************************************************************************)
(* The clock of one round: runRound of sync/attempts.ts with the time that *)
(* passes in the pool's queue, in an attempt and in a backoff.  SyncPool   *)
(* has the interleaving of many rounds and no clock; this module has the   *)
(* clock and a single round, whose wait for the pool is any delay up to    *)
(* MaxPoolWait.                                                            *)
(***************************************************************************)
EXTENDS Integers

CONSTANTS
    Budget,         \* SyncPolicy.budgetMs
    MinSlice,       \* MIN_ATTEMPT_SLICE_MS
    AttemptTimeout, \* SyncPolicy.attemptTimeoutMs
    MaxAttempts,    \* SyncPolicy.maxAttempts
    BackoffBase,    \* RETRY_BACKOFF_BASE_MS
    BackoffMax,     \* RETRY_BACKOFF_MAX_MS
    Advice,         \* backoffs a server may suggest
    MaxPoolWait,    \* bound on the wait for a connection slot
    MaxConnect,     \* bound on deps.connect: the provider's own time-outs
    MaxExchange     \* bound on an exchange that nobody cuts: LIST, LOGOUT

ASSUME RetryAssumption ==
    /\ Budget \in Nat /\ MinSlice \in Nat /\ AttemptTimeout \in Nat
    /\ MinSlice <= Budget /\ MinSlice <= AttemptTimeout
    /\ MaxAttempts \in Nat \ {0}
    /\ BackoffBase \in Nat /\ BackoffMax \in Nat
    /\ Advice \subseteq Nat
    /\ MaxPoolWait \in Nat /\ MaxConnect \in Nat /\ MaxExchange \in Nat

VARIABLES
    now,        \* time since the round began
    stage,      \* "pool", "connecting", "syncing", "closing", "backoff", "over"
    attempt,    \* number of the current attempt, from 1
    timeout,    \* AttemptContext.timeoutMs of the current attempt
    limit,      \* when the signal of the current attempt aborts
    status,     \* AccountSyncResult.status of the current attempt
    until,      \* when the current stage ends at the latest
    ok,         \* SyncRound.ok
    exhausted,  \* SyncRound.budgetExhausted
    stopping    \* SyncScheduler.stop() has aborted every sleep

vars == <<now, stage, attempt, timeout, limit, status, until, ok, exhausted, stopping>>

Smaller(a, b) == IF a < b THEN a ELSE b
Larger(a, b) == IF a > b THEN a ELSE b

Remaining == Budget - now

\* Faulty: the budget does not shorten an attempt.
SliceIgnoringBudget(remaining) == AttemptTimeout

\* The hard limit of an attempt asked for with that much budget left.
Slice(remaining) == Larger(MinSlice, Smaller(AttemptTimeout, remaining))

\* computeBackoffMs: the server's advice plus up to one unit of jitter, or half
\* to the whole of an exponential; never more than BackoffMax.
Backoffs(n) ==
    LET full == Smaller(BackoffMax, BackoffBase * 2^(n - 1)) IN
    {b \in 0 .. BackoffMax : full \div 2 <= b /\ b <= full}
        \union {Smaller(BackoffMax, advised + jitter) : advised \in Advice, jitter \in 0..1}

\* boundedBackoff
BoundedBackoffs(n) ==
    {Larger(0, Smaller(backoff, Remaining - MinSlice)) : backoff \in Backoffs(n)}

Init ==
    /\ now = 0
    /\ stage = "pool"
    /\ attempt = 1
    /\ timeout = Slice(Budget)
    /\ limit = 0
    /\ status = "error"
    /\ until = MaxPoolWait
    /\ ok = FALSE
    /\ exhausted = FALSE
    /\ stopping = FALSE

Return(success, outOfBudget) ==
    /\ stage' = "over"
    /\ ok' = success
    /\ exhausted' = outOfBudget
    /\ UNCHANGED <<now, attempt, timeout, limit, status, until, stopping>>

\* The semaphore hands a slot over: the time limit of the attempt, computed
\* when the slot was asked for, starts to run, and the connection is opened.
Granted ==
    /\ stage = "pool"
    /\ stage' = "connecting"
    /\ limit' = now + timeout
    /\ until' = now + MaxConnect
    /\ status' = "error"
    /\ UNCHANGED <<now, attempt, timeout, ok, exhausted, stopping>>

\* The connection is there.  From now on the limit closes it; a limit that
\* has passed meanwhile found no connection to close, and what follows, up to
\* the first look at the signal, runs uncut.
Connected ==
    /\ stage = "connecting"
    /\ stage' = "syncing"
    /\ until' = IF now < limit THEN limit ELSE now + MaxExchange
    /\ UNCHANGED <<now, attempt, timeout, limit, status, ok, exhausted, stopping>>

\* The work is done, has failed or was cut; LOGOUT is not subject to the limit,
\* but a connection that was closed needs none.
Closes ==
    /\ stage = "syncing"
    /\ stage' = "closing"
    /\ status' \in {"ok", "error"}
    /\ until' = IF now = limit /\ until = limit THEN now ELSE now + MaxExchange
    /\ UNCHANGED <<now, attempt, timeout, limit, ok, exhausted, stopping>>

\* The attempt has a result; one without a connection has nothing to close.
Answered == stage \in {"connecting", "closing"}

Succeeds == stage = "closing" /\ status = "ok" /\ Return(TRUE, FALSE)

Fails == Answered /\ status = "error"

\* Faulty: a round cut short by its budget does not say so.
FailsForGoodSilently ==
    /\ Fails
    /\ attempt >= MaxAttempts \/ Remaining <= MinSlice
    /\ Return(FALSE, FALSE)

\* A failure that ends the round: the attempts or the budget are used up.
FailsForGood ==
    /\ Fails
    /\ \/ attempt >= MaxAttempts /\ Return(FALSE, FALSE)
       \/ attempt < MaxAttempts /\ Remaining <= MinSlice /\ Return(FALSE, TRUE)

\* Faulty: the attempts are not counted against the policy.
BacksOffRegardless ==
    /\ Fails
    /\ Remaining > MinSlice
    /\ \E backoff \in BoundedBackoffs(attempt) : until' = now + backoff
    /\ stage' = "backoff"
    /\ UNCHANGED <<now, attempt, timeout, limit, status, ok, exhausted, stopping>>

\* A failure that is retried, after a backoff that leaves MinSlice of budget.
FailsAndBacksOff ==
    /\ Fails
    /\ attempt < MaxAttempts
    /\ Remaining > MinSlice
    /\ \E backoff \in BoundedBackoffs(attempt) : until' = now + backoff
    /\ stage' = "backoff"
    /\ UNCHANGED <<now, attempt, timeout, limit, status, ok, exhausted, stopping>>

\* Faulty: the retry does not count as another attempt.
WakesUncounted ==
    /\ stage = "backoff"
    /\ now >= until \/ stopping
    /\ \/ Remaining <= MinSlice /\ Return(FALSE, TRUE)
       \/ /\ Remaining > MinSlice
          /\ timeout' = Slice(Remaining)
          /\ until' = now + MaxPoolWait
          /\ stage' = "pool"
          /\ UNCHANGED <<now, attempt, limit, status, ok, exhausted, stopping>>

\* The sleep ends, by its timer or by stop().
Wakes ==
    /\ stage = "backoff"
    /\ now >= until \/ stopping
    /\ \/ Remaining <= MinSlice /\ Return(FALSE, TRUE)
       \/ /\ Remaining > MinSlice
          /\ attempt' = attempt + 1
          /\ timeout' = Slice(Remaining)
          /\ until' = now + MaxPoolWait
          /\ stage' = "pool"
          /\ UNCHANGED <<now, limit, status, ok, exhausted, stopping>>

Stop ==
    /\ ~stopping
    /\ stage # "over"
    /\ stopping' = TRUE
    /\ UNCHANGED <<now, stage, attempt, timeout, limit, status, until, ok, exhausted>>

\* Time passes, up to the end of the current stage: a slot comes, a connection
\* stands or is given up, the limit closes it, a timer fires.
Tick ==
    /\ stage # "over"
    /\ now < until
    /\ now' = now + 1
    /\ UNCHANGED <<stage, attempt, timeout, limit, status, until, ok, exhausted, stopping>>

Advance == Granted \/ Connected \/ Closes \/ Succeeds \/ FailsForGood \/ FailsAndBacksOff \/ Wakes

Next == Advance \/ Stop \/ Tick

Spec == Init /\ [][Next]_vars

\* Time passes and what is due happens.
FairSpec == Spec /\ WF_vars(Advance \/ Tick)

-----------------------------------------------------------------------------
TypeOK ==
    /\ now \in Nat
    /\ stage \in {"pool", "connecting", "syncing", "closing", "backoff", "over"}
    /\ attempt \in 1..MaxAttempts
    /\ timeout \in MinSlice..AttemptTimeout
    /\ limit \in Nat
    /\ status \in {"ok", "error"}
    /\ until \in Nat
    /\ ok \in BOOLEAN
    /\ exhausted \in BOOLEAN
    /\ stopping \in BOOLEAN

\* What of an attempt its limit may fail to cut.  One that connects in time
\* has only its LOGOUT; one still connecting at its limit, at least MinSlice
\* after it began, goes on, lists the folders and logs out.
Uncut ==
    IF MaxConnect < MinSlice THEN MaxExchange
    ELSE (MaxConnect - MinSlice) + 2 * MaxExchange

\* What a slow account can cost the accounts behind it: the round is over by
\* the end of its budget, except for the time its last attempt waited for the
\* pool, because that attempt's limit was computed before the wait, and for
\* what that limit does not cut.  No attempt is prepared after the budget.
OverrunIsBounded ==
    /\ now <= Budget + MaxPoolWait + Uncut
    /\ stage \in {"pool", "backoff"} => now <= Budget + MaxPoolWait

\* A round that fails with attempts left gave up for want of budget, and a
\* round that blames the budget really has no slice of it left.
GivesUpOnlyWithoutBudget ==
    stage = "over" /\ ~ok =>
        /\ attempt < MaxAttempts => exhausted
        /\ exhausted => Remaining <= MinSlice

\* A round ends whatever the server does.
RoundEnds == <>(stage = "over")
=============================================================================
