-------------------------- MODULE RetryRoundProofs --------------------------
(***************************************************************************)
(* What holds of the clock of a round for every budget, time limit,        *)
(* number of attempts, backoff and wait for the pool.                      *)
(***************************************************************************)
EXTENDS RetryRound, TLAPS

\* A round is never past the end of its stage, and that end is in the bound.
\* An attempt that still waits for the pool has a limit that will be in it,
\* however long it waits; one that connects ends at most MaxConnect after its
\* start, which lies its whole time limit before its limit; one that syncs ends
\* with its limit or, when it connected after it, one exchange later.
Deadlines ==
    /\ now <= until
    /\ until <= Budget + MaxPoolWait + Uncut
    /\ stage = "pool" => until + timeout <= Budget + MaxPoolWait
    /\ stage \in {"connecting", "syncing"} => limit <= Budget + MaxPoolWait
    /\ stage = "connecting" => until = (limit - timeout) + MaxConnect
    /\ stage = "syncing" =>
        \/ until = limit
        \/ MaxConnect >= timeout /\ until <= (limit - timeout) + MaxConnect + MaxExchange
    /\ stage = "backoff" => attempt < MaxAttempts /\ until <= Budget

\* The inductive invariant.
Inv == TypeOK /\ Deadlines /\ GivesUpOnlyWithoutBudget

-----------------------------------------------------------------------------
\* Slice gives an attempt at least MinSlice, at most AttemptTimeout, and never
\* more than what is left of the budget when at least MinSlice is.
LEMMA SliceInBudget ==
    ASSUME NEW remaining \in Int, MinSlice <= remaining
    PROVE  /\ Slice(remaining) \in MinSlice .. AttemptTimeout
           /\ Slice(remaining) <= remaining
BY RetryAssumption DEF Slice, Larger, Smaller

\* What boundedBackoff returns leaves MinSlice of the budget.
LEMMA BackoffInBudget ==
    ASSUME TypeOK, MinSlice < Remaining, NEW backoff \in BoundedBackoffs(attempt)
    PROVE  backoff \in Nat /\ backoff <= Remaining - MinSlice
<1>1. PICK b \in Backoffs(attempt) : backoff = Larger(0, Smaller(b, Remaining - MinSlice))
  BY DEF BoundedBackoffs
<1>2. b \in Int
  <2>1. CASE b \in 0 .. BackoffMax
    BY <2>1, RetryAssumption
  <2>2. CASE \E advised \in Advice, jitter \in 0..1 : b = Smaller(BackoffMax, advised + jitter)
    BY <2>2, RetryAssumption DEF Smaller
  <2>3. \/ b \in 0 .. BackoffMax
        \/ b \in {Smaller(BackoffMax, advised + jitter) : advised \in Advice, jitter \in 0..1}
    BY ONLY <1>1 DEF Backoffs
  <2>. QED
    BY ONLY <2>1, <2>2, <2>3
<1>. QED
  BY <1>1, <1>2, RetryAssumption DEF TypeOK, Larger, Smaller, Remaining

\* What the limits do not cut is a length of time.
LEMMA UncutNat == Uncut \in Nat
BY RetryAssumption DEF Uncut

-----------------------------------------------------------------------------
LEMMA InitInv == Init => Inv
<1>. SUFFICES ASSUME Init PROVE Inv
  OBVIOUS
<1>1. Slice(Budget) \in MinSlice .. AttemptTimeout /\ Slice(Budget) <= Budget
  BY SliceInBudget, RetryAssumption
<1>2. TypeOK
  <2>1. now \in Nat
    BY DEF Init
  <2>2. attempt \in 1 .. MaxAttempts
    BY RetryAssumption DEF Init
  <2>3. timeout \in MinSlice .. AttemptTimeout
    BY <1>1 DEF Init
  <2>4. until \in Nat
    BY RetryAssumption DEF Init
  <2>5. /\ ok \in BOOLEAN /\ exhausted \in BOOLEAN /\ stopping \in BOOLEAN
        /\ limit \in Nat /\ status \in {"ok", "error"}
    BY DEF Init
  <2>. QED
    BY <2>1, <2>2, <2>3, <2>4, <2>5 DEF Init, TypeOK
<1>3. Deadlines
  BY <1>1, RetryAssumption, UncutNat DEF Init, Deadlines
<1>4. GivesUpOnlyWithoutBudget
  BY DEF Init, GivesUpOnlyWithoutBudget
<1>. QED
  BY <1>2, <1>3, <1>4 DEF Inv

\* The end of a round keeps the invariant if it is right about the reason.
LEMMA ReturnInv ==
    ASSUME Inv, NEW success \in BOOLEAN, NEW outOfBudget \in BOOLEAN,
           Return(success, outOfBudget),
           ~success /\ attempt < MaxAttempts => outOfBudget,
           ~success /\ outOfBudget => Remaining <= MinSlice
    PROVE  Inv'
<1>1. TypeOK'
  <2>1. ok' \in BOOLEAN /\ exhausted' \in BOOLEAN /\ stopping' \in BOOLEAN
    BY DEF Return, Inv, TypeOK
  <2>2. now' \in Nat /\ attempt' \in 1 .. MaxAttempts /\ until' \in Nat
          /\ timeout' \in MinSlice .. AttemptTimeout /\ stage' = "over"
          /\ limit' \in Nat /\ status' \in {"ok", "error"}
    BY DEF Return, Inv, TypeOK
  <2>. QED
    BY <2>1, <2>2 DEF TypeOK
<1>2. Deadlines'
  BY DEF Return, Inv, Deadlines, Uncut
<1>3. GivesUpOnlyWithoutBudget'
  BY DEF Return, GivesUpOnlyWithoutBudget, Remaining
<1>. QED
  BY <1>1, <1>2, <1>3 DEF Inv

LEMMA NextInv == Inv /\ [Next]_vars => Inv'
<1>. SUFFICES ASSUME Inv, [Next]_vars PROVE Inv'
  OBVIOUS
<1>. USE RetryAssumption DEF Inv, TypeOK, Deadlines, GivesUpOnlyWithoutBudget, Remaining
<1>1. CASE Granted
  BY <1>1 DEF Granted, Uncut
<1>9. CASE Connected
  BY <1>9 DEF Connected, Uncut
<1>10. CASE Closes
  <2>1. until' <= Budget + MaxPoolWait + Uncut
    BY <1>10 DEF Closes, Uncut
  <2>. QED
    BY <1>10, <2>1 DEF Closes, Uncut
<1>2. CASE Succeeds
  BY <1>2, ReturnInv DEF Succeeds
<1>3. CASE FailsForGood
  <2>1. CASE attempt >= MaxAttempts /\ Return(FALSE, FALSE)
    <3>1. ~(attempt < MaxAttempts)
      BY <2>1
    <3>. QED
      BY ONLY Inv, <2>1, <3>1, ReturnInv
  <2>2. CASE attempt < MaxAttempts /\ Remaining <= MinSlice /\ Return(FALSE, TRUE)
    BY <2>2, ReturnInv
  <2>. QED
    BY ONLY <1>3, <2>1, <2>2 DEF FailsForGood
<1>4. CASE FailsAndBacksOff
  <2>1. PICK backoff \in BoundedBackoffs(attempt) : until' = now + backoff
    BY <1>4 DEF FailsAndBacksOff
  <2>2. backoff \in Nat /\ backoff <= Remaining - MinSlice
    BY <1>4, <2>1, BackoffInBudget DEF FailsAndBacksOff
  <2>. QED
    BY <1>4, <2>1, <2>2, UncutNat DEF FailsAndBacksOff, Uncut
<1>5. CASE Wakes
  <2>1. CASE Remaining <= MinSlice /\ Return(FALSE, TRUE)
    BY <2>1, ReturnInv
  <2>2. CASE ~(Remaining <= MinSlice /\ Return(FALSE, TRUE))
    <3>1. /\ Remaining > MinSlice /\ stage = "backoff" /\ stage' = "pool"
          /\ attempt' = attempt + 1 /\ timeout' = Slice(Remaining)
          /\ until' = now + MaxPoolWait
      BY <1>5, <2>2 DEF Wakes
    <3>2. UNCHANGED <<now, limit, status, ok, exhausted, stopping>>
      BY <1>5, <2>2 DEF Wakes
    <3>3. Slice(Remaining) \in MinSlice .. AttemptTimeout /\ Slice(Remaining) <= Remaining
      BY <3>1, SliceInBudget
    <3>4. TypeOK'
      <4>1. /\ ok' \in BOOLEAN /\ exhausted' \in BOOLEAN /\ stopping' \in BOOLEAN
            /\ limit' \in Nat /\ status' \in {"ok", "error"}
        BY <3>2
      <4>2. now' \in Nat /\ attempt' \in 1 .. MaxAttempts /\ until' \in Nat
              /\ timeout' \in MinSlice .. AttemptTimeout
        BY <3>1, <3>2, <3>3
      <4>. QED
        BY <3>1, <4>1, <4>2
    <3>5. Deadlines'
      BY <3>1, <3>2, <3>3, UncutNat DEF Uncut
    <3>. QED
      BY <3>1, <3>4, <3>5
  <2>. QED
    BY <2>1, <2>2
<1>6. CASE Stop
  BY <1>6 DEF Stop, Uncut
<1>7. CASE Tick
  BY <1>7 DEF Tick, Uncut
<1>8. CASE UNCHANGED vars
  BY <1>8 DEF vars, Uncut
<1>. QED
  BY <1>1, <1>2, <1>3, <1>4, <1>5, <1>6, <1>7, <1>8, <1>9, <1>10 DEF Next, Advance

-----------------------------------------------------------------------------
\* The state of a round stays well-typed: the number of an attempt never
\* passes maxAttempts, its time limit is never below the minimum slice.
THEOREM RoundTypes == Spec => []TypeOK
<1>1. Inv => TypeOK
  BY DEF Inv
<1>. QED
  BY <1>1, InitInv, NextInv, PTL DEF Spec

\* The overrun of a round past its budget is at most one wait for the pool and
\* what the limit of its last attempt cannot cut: a connection in the making,
\* the first exchange on it and the LOGOUT.
THEOREM OverrunBound == Spec => []OverrunIsBounded
<1>1. Inv => OverrunIsBounded
  BY RetryAssumption DEF Inv, TypeOK, Deadlines, OverrunIsBounded, Uncut
<1>. QED
  BY <1>1, InitInv, NextInv, PTL DEF Spec

\* A round that fails before its last attempt has no slice of budget left.
THEOREM GiveUpReason == Spec => []GivesUpOnlyWithoutBudget
<1>1. Inv => GivesUpOnlyWithoutBudget
  BY DEF Inv
<1>. QED
  BY <1>1, InitInv, NextInv, PTL DEF Spec
=============================================================================
