------------------------ MODULE SyncSchedulerProofs ------------------------
(***************************************************************************)
(* What holds of the three tiers for every set of accounts, every set of   *)
(* bulk calls and their targets, every threshold, enforced or not, and any *)
(* number of restarts; and of the instants that make an account due.       *)
(***************************************************************************)
EXTENDS SyncScheduler, DueTime, FiniteSetTheorems, SequenceSets, TLAPS

\* Nobody waits twice for the same account.
QueuesAreSets == \A a \in Accounts : Distinct(lock[a])

\* The background round is the one that runs in its account, there is at most
\* one, and the tick waits for it.
TickIsServed ==
    /\ \A a \in Running("tick") : Head(lock[a]) = "tick"
    /\ \A a, c \in Running("tick") : a = c
    /\ Running("tick") # {} <=> tick = "round"
    /\ stage = "drained" => tick = "none"

\* The tick never comes back to the account it is syncing, and between two
\* ticks there is nothing ahead.
LeftIsAhead ==
    /\ Running("tick") \intersect left = {}
    /\ tick = "none" => left = {}

\* A bulk call is running exactly while an account has a round of it, so the
\* end of the last one is always noticed.
BulkHasRounds == \A b \in Bulks : bulk[b] = "running" <=> Running(b) # {}

\* The inductive invariant.
Inv ==
    /\ TypeOK /\ QueuesAreSets /\ TickIsServed /\ LeftIsAhead /\ BulkHasRounds
    /\ SuspendedIsNotPolled /\ ShownIsTrue

-----------------------------------------------------------------------------
(* Queues: what joining and leaving them does to Running                   *)

Queues == [Accounts -> Seq(Owners)]

\* One queue: its members, now and when an owner has left or joined it.
LEMMA QueueHead ==
    ASSUME NEW s \in Seq(Owners)
    PROVE  /\ s = <<>> <=> Members(s) = {}
           /\ s # <<>> => Head(s) \in Members(s)
           /\ Members(s) \subseteq Owners
<1>1. s # <<>> => Len(s) >= 1 /\ Head(s) = s[1]
  OBVIOUS
<1>2. s = <<>> => Len(s) = 0
  OBVIOUS
<1>. QED
  BY <1>1, <1>2 DEF Members

LEMMA QueueTail ==
    ASSUME NEW s \in Seq(Owners), s # <<>>, Distinct(s)
    PROVE  /\ Tail(s) \in Seq(Owners) /\ Distinct(Tail(s))
           /\ Members(Tail(s)) = Members(s) \ {Head(s)}
<1>. DEFINE t == Tail(s)
            n == Len(t)
<1>1. /\ t \in Seq(Owners) /\ n \in Nat /\ Len(s) = n + 1 /\ Head(s) = s[1]
      /\ \A i \in 1 .. n : t[i] = s[i + 1]
  OBVIOUS
<1>. HIDE DEF t, n
<1>2. \A i \in 1 .. n : t[i] \in Members(s) \ {Head(s)}
  BY <1>1 DEF Members, Distinct
<1>3. ASSUME NEW e \in Members(s) \ {Head(s)} PROVE e \in {t[i] : i \in 1 .. n}
  <2>1. PICK i \in 1 .. Len(s) : s[i] = e /\ i # 1
    BY <1>1 DEF Members
  <2>2. i - 1 \in 1 .. n /\ t[i - 1] = s[(i - 1) + 1] /\ (i - 1) + 1 = i
    BY <1>1, <2>1
  <2>. QED
    BY <2>1, <2>2
<1>4. ASSUME NEW i \in 1 .. n, NEW j \in 1 .. n, t[i] = t[j] PROVE i = j
  <2>1. s[i + 1] = s[j + 1] /\ i + 1 \in 1 .. Len(s) /\ j + 1 \in 1 .. Len(s)
    BY <1>1, <1>4
  <2>2. i + 1 = j + 1
    BY <2>1 DEF Distinct
  <2>. QED
    BY <2>2
<1>5. Distinct(t)
  BY <1>4 DEF Distinct, n
<1>6. Members(t) = Members(s) \ {Head(s)}
  BY <1>2, <1>3 DEF Members, n
<1>. QED
  BY <1>1, <1>5, <1>6 DEF t

LEMMA QueueAppend ==
    ASSUME NEW s \in Seq(Owners), NEW o \in Owners, Distinct(s), o \notin Members(s)
    PROVE  /\ Append(s, o) \in Seq(Owners) /\ Distinct(Append(s, o))
           /\ Members(Append(s, o)) = Members(s) \union {o}
           /\ Head(Append(s, o)) = IF s = <<>> THEN o ELSE Head(s)
<1>. DEFINE t == Append(s, o)
            n == Len(s)
<1>1. /\ t \in Seq(Owners) /\ n \in Nat /\ Len(t) = n + 1 /\ t[n + 1] = o
      /\ \A i \in 1 .. n : t[i] = s[i]
      /\ Head(t) = t[1]
  OBVIOUS
<1>2. (s # <<>> => n >= 1 /\ Head(s) = s[1]) /\ (s = <<>> => n = 0)
  OBVIOUS
<1>. HIDE DEF t, n
<1>3. \A i \in 1 .. n : t[i] \in Members(s) /\ t[i] # o
  BY <1>1 DEF Members, n
<1>4. Members(t) = Members(s) \union {o}
  BY <1>1, <1>3 DEF Members, n
<1>5. Distinct(t)
  BY <1>1, <1>3 DEF Distinct, n
<1>. QED
  BY <1>1, <1>2, <1>4, <1>5 DEF t

\* Whose round is in the queue of an account, now or after a step.
LEMMA RunningMembers ==
    ASSUME NEW q \in Queues, NEW o
    PROVE  {a \in Accounts : \E i \in DOMAIN q[a] : q[a][i] = o}
             = {a \in Accounts : o \in Members(q[a])}
<1>1. ASSUME NEW a \in Accounts
      PROVE  (\E i \in DOMAIN q[a] : q[a][i] = o) <=> o \in Members(q[a])
  <2>1. q[a] \in Seq(Owners)
    BY DEF Queues
  <2>2. DOMAIN q[a] = 1 .. Len(q[a])
    BY <2>1
  <2>. QED
    BY <2>2 DEF Members
<1>. QED
  BY <1>1

\* An owner joins the queues of the accounts in T, where it is not yet.
Joins(o, T) ==
    lock' = [a \in Accounts |-> IF a \in T THEN Append(lock[a], o) ELSE lock[a]]

LEMMA JoinsQueues ==
    ASSUME lock \in Queues, QueuesAreSets, NEW o \in Owners, NEW T \in SUBSET Accounts,
           Running(o) \intersect T = {}, Joins(o, T)
    PROVE  /\ lock' \in Queues /\ QueuesAreSets'
           /\ Running(o)' = Running(o) \union T
           /\ \A p \in Owners \ {o} : Running(p)' = Running(p)
           /\ \A a \in Accounts : lock[a] # <<>> => Head(lock'[a]) = Head(lock[a])
           /\ \A a \in T : lock[a] = <<>> => Head(lock'[a]) = o
<1>1. ASSUME NEW a \in T
      PROVE  /\ lock'[a] \in Seq(Owners) /\ Distinct(lock'[a])
             /\ Members(lock'[a]) = Members(lock[a]) \union {o}
             /\ Head(lock'[a]) = IF lock[a] = <<>> THEN o ELSE Head(lock[a])
  <2>1. lock[a] \in Seq(Owners) /\ Distinct(lock[a]) /\ lock'[a] = Append(lock[a], o)
    BY DEF Queues, QueuesAreSets, Joins
  <2>2. o \notin Members(lock[a])
    BY RunningMembers DEF Running
  <2>. QED
    BY <2>1, <2>2, QueueAppend
<1>2. ASSUME NEW a \in Accounts \ T PROVE lock'[a] = lock[a]
  BY DEF Joins
<1>3. lock' \in Queues
  <2>1. \A a \in Accounts : lock'[a] \in Seq(Owners)
    BY <1>1, <1>2 DEF Queues
  <2>. QED
    BY <2>1 DEF Queues, Joins
<1>4. QueuesAreSets'
  BY <1>1, <1>2 DEF QueuesAreSets
<1>5. \A p : Running(p)' = {a \in Accounts : p \in Members(lock'[a])}
  BY <1>3, RunningMembers DEF Running
<1>6. \A p : Running(p) = {a \in Accounts : p \in Members(lock[a])}
  BY RunningMembers DEF Running
<1>7. Running(o)' = Running(o) \union T
  BY <1>1, <1>2, <1>5, <1>6
<1>8. \A p \in Owners \ {o} : Running(p)' = Running(p)
  BY <1>1, <1>2, <1>5, <1>6
<1>. QED
  BY <1>1, <1>2, <1>3, <1>4, <1>7, <1>8

\* The round that runs in an account is over and the next one begins.
LEMMA LeavesQueue ==
    ASSUME lock \in Queues, QueuesAreSets, NEW a \in Accounts, lock[a] # <<>>,
           lock' = [lock EXCEPT ![a] = Tail(@)], NEW o, o = Head(lock[a])
    PROVE  /\ lock' \in Queues /\ QueuesAreSets'
           /\ o \in Owners /\ a \in Running(o)
           /\ Running(o)' = Running(o) \ {a}
           /\ \A p \in Owners \ {o} : Running(p)' = Running(p)
           /\ \A c \in Accounts \ {a} : lock'[c] = lock[c]
<1>1. lock[a] \in Seq(Owners) /\ Distinct(lock[a]) /\ lock'[a] = Tail(lock[a])
  BY DEF Queues, QueuesAreSets
<1>2. /\ lock'[a] \in Seq(Owners) /\ Distinct(lock'[a])
      /\ Members(lock[a]) = Members(lock'[a]) \union {o}
      /\ o \notin Members(lock'[a]) /\ o \in Members(lock[a]) /\ o \in Owners
  BY <1>1, QueueTail, QueueHead
<1>3. \A c \in Accounts \ {a} : lock'[c] = lock[c]
  BY DEF Queues
<1>4. lock' \in Queues
  BY <1>2 DEF Queues
<1>5. QueuesAreSets'
  BY <1>2, <1>3 DEF QueuesAreSets
<1>6. \A p : Running(p)' = {c \in Accounts : p \in Members(lock'[c])}
  BY <1>4, RunningMembers DEF Running
<1>7. \A p : Running(p) = {c \in Accounts : p \in Members(lock[c])}
  BY RunningMembers DEF Running
<1>8. Running(o)' = Running(o) \ {a} /\ a \in Running(o)
  BY <1>2, <1>3, <1>6, <1>7
<1>9. \A p \in Owners \ {o} : Running(p)' = Running(p)
  BY <1>2, <1>3, <1>6, <1>7
<1>. QED
  BY <1>2, <1>3, <1>4, <1>5, <1>8, <1>9

\* pauseDepth is zero exactly when no bulk call pauses the tick.
LEMMA PauseIsCounted ==
    ASSUME TypeOK
    PROVE  IsFiniteSet(Pausing) /\ pauseDepth \in Nat /\ (pauseDepth = 0 <=> Pausing = {})
<1>1. IsFiniteSet(Pausing)
  BY FS_Subset, AccountsAssumption DEF Pausing
<1>. QED
  BY <1>1, FS_CardinalityType, FS_EmptySet DEF TypeOK

-----------------------------------------------------------------------------
LEMMA InitInv == Init => Inv
<1>. SUFFICES ASSUME Init PROVE Inv
  OBVIOUS
<1>1. \A o : Running(o) = {}
  BY DEF Init, Running
<1>2. Pausing = {}
  BY DEF Init, Pausing
<1>3. TypeOK
  <2>1. pauseDepth = Cardinality(Pausing)
    BY <1>2, FS_EmptySet DEF Init
  <2>2. lock \in [Accounts -> Seq(Owners)]
    BY DEF Init
  <2>. QED
    BY <2>1, <2>2, PolicyAssumption DEF Init, TypeOK
<1>4. QueuesAreSets
  BY DEF Init, QueuesAreSets, Distinct
<1>5. TickIsServed /\ LeftIsAhead /\ BulkHasRounds /\ SuspendedIsNotPolled /\ ShownIsTrue
  BY <1>1, <1>2
     DEF Init, TickIsServed, LeftIsAhead, BulkHasRounds, SuspendedIsNotPolled, ShownIsTrue
<1>. QED
  BY <1>3, <1>4, <1>5 DEF Inv

-----------------------------------------------------------------------------
(* The background tier                                                     *)

\* The walk keeps the invariant over any candidates that are not suspended.
LEMMA WalkInv ==
    ASSUME Inv, NEW cands \in SUBSET Accounts, Walk(cands),
           \A a \in cands : suspension[a] # "enforced",
           tick # "round", stage = "up" \/ tick # "none",
           UNCHANGED <<due, pauseDepth, bulk, streak, suspension, enabled, stage, restarts>>
    PROVE  Inv'
<1>1. Pausing' = Pausing /\ (pauseDepth = 0 <=> Pausing = {})
  BY PauseIsCounted DEF Inv, Pausing
<1>2. Running("tick") = {} /\ lock \in Queues /\ "tick" \in Owners /\ Bulks \subseteq Owners \ {"tick"}
  BY AccountsAssumption DEF Inv, TypeOK, TickIsServed, Queues, Owners
<1>3. CASE (pauseDepth > 0 \/ Ready(cands) = {}) /\ EndTick
  <2>1. \A o : Running(o)' = Running(o)
    BY <1>3 DEF EndTick, Running
  <2>2. TypeOK' /\ QueuesAreSets'
    BY <1>1, <1>3 DEF Inv, TypeOK, QueuesAreSets, EndTick
  <2>3. TickIsServed' /\ LeftIsAhead' /\ BulkHasRounds' /\ SuspendedIsNotPolled'
    BY <1>2, <1>3, <2>1
       DEF Inv, EndTick, TickIsServed, LeftIsAhead, BulkHasRounds, SuspendedIsNotPolled
  <2>4. ShownIsTrue'
    BY <1>1, <1>3 DEF Inv, TypeOK, EndTick, ShownIsTrue
  <2>. QED
    BY <2>2, <2>3, <2>4 DEF Inv
<1>4. ASSUME NEW a \in Ready(cands), pauseDepth = 0,
             lock' = [lock EXCEPT ![a] = Append(@, "tick")],
             left' = {b \in cands : b > a},
             tick' = "round", shown' = IF tick = "none" THEN "running" ELSE shown
      PROVE  Inv'
  <2>1. a \in Accounts /\ a \in cands /\ a \in Nat /\ lock[a] = <<>>
    BY AccountsAssumption DEF Ready
  <2>2. Joins("tick", {a})
    BY <1>2, <1>4, <2>1 DEF Joins, Queues
  <2>3. /\ lock' \in Queues /\ QueuesAreSets'
        /\ Running("tick")' = {a}
        /\ \A b \in Bulks : Running(b)' = Running(b)
        /\ Head(lock'[a]) = "tick"
    BY <1>2, <2>1, <2>2, JoinsQueues DEF Inv
  <2>4. a \notin left' /\ left' \subseteq cands
    BY <1>4, <2>1
  <2>5. TypeOK'
    BY <1>1, <1>4, <2>3, <2>4 DEF Inv, TypeOK, Queues
  <2>6. TickIsServed'
    BY <1>4, <2>3 DEF Inv, TypeOK, TickIsServed
  <2>7. LeftIsAhead' /\ BulkHasRounds' /\ SuspendedIsNotPolled'
    BY <1>4, <2>1, <2>3, <2>4 DEF Inv, LeftIsAhead, BulkHasRounds, SuspendedIsNotPolled
  <2>8. ShownIsTrue'
    BY <1>1, <1>4 DEF Inv, ShownIsTrue
  <2>. QED
    BY <2>3, <2>5, <2>6, <2>7, <2>8 DEF Inv
<1>. QED
  BY <1>3, <1>4 DEF Walk

LEMMA StartTickInv == ASSUME Inv, StartTick PROVE Inv'
<1>1. Candidates \in SUBSET Accounts /\ \A a \in Candidates : suspension[a] # "enforced"
  BY DEF Candidates
<1>. QED
  BY <1>1, WalkInv DEF StartTick

LEMMA GapEndsInv == ASSUME Inv, GapEnds PROVE Inv'
<1>1. left \in SUBSET Accounts /\ \A a \in left : suspension[a] # "enforced"
  BY DEF Inv, TypeOK, SuspendedIsNotPolled
<1>. QED
  BY <1>1, WalkInv DEF GapEnds

-----------------------------------------------------------------------------
(* Steps that touch no queue                                               *)

\* The account's dueAt, its switch and the decision of its owner to resume it
\* take nothing from the invariant.
LEMMA OwnerInv ==
    ASSUME Inv, NEW a \in Accounts, DueComes(a) \/ Resume(a) \/ SwitchSync(a)
    PROVE  Inv'
<1>1. Pausing' = Pausing /\ \A o : Running(o)' = Running(o)
  BY DEF Pausing, Running, DueComes, Resume, SwitchSync
<1>2. TypeOK'
  <2>1. CASE DueComes(a)
    BY <1>1, <2>1 DEF Inv, TypeOK, DueComes
  <2>2. CASE Resume(a)
    BY <1>1, <2>2, PolicyAssumption DEF Inv, TypeOK, Resume
  <2>3. CASE SwitchSync(a)
    BY <1>1, <2>3 DEF Inv, TypeOK, SwitchSync
  <2>. QED
    BY <2>1, <2>2, <2>3
<1>3. QueuesAreSets' /\ TickIsServed' /\ LeftIsAhead' /\ BulkHasRounds' /\ ShownIsTrue'
  BY <1>1 DEF Inv, QueuesAreSets, TickIsServed, LeftIsAhead, BulkHasRounds, ShownIsTrue,
              DueComes, Resume, SwitchSync
<1>4. SuspendedIsNotPolled'
  BY <1>1 DEF Inv, TypeOK, SuspendedIsNotPolled, DueComes, Resume, SwitchSync
<1>. QED
  BY <1>2, <1>3, <1>4 DEF Inv

LEMMA StopInv == ASSUME Inv, Stop \/ DrainEnds PROVE Inv'
<1>1. Pausing' = Pausing /\ \A o : Running(o)' = Running(o)
  BY DEF Pausing, Running, Stop, DrainEnds
<1>2. TypeOK' /\ QueuesAreSets' /\ LeftIsAhead' /\ BulkHasRounds'
  BY <1>1 DEF Inv, TypeOK, QueuesAreSets, LeftIsAhead, BulkHasRounds, Stop, DrainEnds
<1>3. TickIsServed' /\ SuspendedIsNotPolled' /\ ShownIsTrue'
  BY <1>1 DEF Inv, TickIsServed, SuspendedIsNotPolled, ShownIsTrue, Stop, DrainEnds
<1>. QED
  BY <1>2, <1>3 DEF Inv

-----------------------------------------------------------------------------
(* The tiers a user drives                                                 *)

LEMMA SyncNowInv ==
    ASSUME Inv, NEW a \in Accounts, SyncNow(a)
    PROVE  Inv'
<1>1. lock \in Queues /\ "user" \in Owners /\ "tick" \in Owners \ {"user"} /\ Bulks \subseteq Owners \ {"user"}
  BY AccountsAssumption DEF Inv, TypeOK, Queues, Owners
<1>2. Running("user") \intersect {a} = {}
  BY <1>1, RunningMembers, QueueHead DEF SyncNow, Running
<1>3. Joins("user", {a})
  <2>1. Append(<<>>, "user") = <<"user">>
    OBVIOUS
  <2>. QED
    BY <1>1, <2>1 DEF SyncNow, Joins, Queues
<1>4. /\ lock' \in Queues /\ QueuesAreSets'
      /\ Running("tick")' = Running("tick")
      /\ \A b \in Bulks : Running(b)' = Running(b)
      /\ \A c \in Accounts : lock[c] # <<>> => Head(lock'[c]) = Head(lock[c])
  BY <1>1, <1>2, <1>3, JoinsQueues DEF Inv
<1>5. Pausing' = Pausing
  BY DEF SyncNow, Pausing
<1>6. TypeOK' /\ LeftIsAhead' /\ BulkHasRounds' /\ SuspendedIsNotPolled' /\ ShownIsTrue'
  BY <1>4, <1>5
     DEF Inv, TypeOK, Queues, LeftIsAhead, BulkHasRounds, SuspendedIsNotPolled, ShownIsTrue,
         SyncNow
<1>7. TickIsServed'
  <2>1. \A c \in Running("tick") : lock[c] # <<>>
    BY <1>1, RunningMembers, QueueHead DEF Running
  <2>. QED
    BY <1>4, <2>1 DEF Inv, TickIsServed, SyncNow, Running
<1>. QED
  BY <1>4, <1>6, <1>7 DEF Inv

LEMMA SyncAllInv ==
    ASSUME Inv, NEW b \in Bulks, SyncAll(b)
    PROVE  Inv'
<1>1. /\ lock \in Queues /\ b \in Owners /\ "tick" \in Owners \ {b}
      /\ Bulks \subseteq Owners
      /\ Targets[b] \in SUBSET Accounts /\ Targets[b] # {}
  BY AccountsAssumption DEF Inv, TypeOK, Queues, Owners
<1>2. Running(b) = {}
  BY DEF Inv, BulkHasRounds, SyncAll
<1>3. Joins(b, Targets[b])
  BY DEF SyncAll, Joins
<1>4. /\ lock' \in Queues /\ QueuesAreSets'
      /\ Running(b)' = Targets[b]
      /\ \A p \in Owners \ {b} : Running(p)' = Running(p)
      /\ \A c \in Accounts : lock[c] # <<>> => Head(lock'[c]) = Head(lock[c])
  <2>1. PICK T \in SUBSET Accounts : T = Targets[b]
    BY <1>1
  <2>2. Running(b) \intersect T = {} /\ Joins(b, T) /\ QueuesAreSets
    BY <1>2, <1>3, <2>1 DEF Inv
  <2>3. Running(b)' = Running(b) \union T
    BY <1>1, <2>2, JoinsQueues
  <2>. QED
    BY <1>1, <1>2, <2>1, <2>2, <2>3, JoinsQueues
<1>5. Pausing' = Pausing \union {b} /\ b \notin Pausing
  BY DEF SyncAll, Pausing, Inv, TypeOK
<1>6. pauseDepth' = Cardinality(Pausing') /\ (pauseDepth = 0 <=> Pausing = {})
  BY <1>5, PauseIsCounted, FS_AddElement DEF SyncAll, Pause, Inv, TypeOK
<1>7. TypeOK'
  BY <1>4, <1>6 DEF Inv, TypeOK, Queues, SyncAll, Pause
<1>8. LeftIsAhead' /\ SuspendedIsNotPolled'
  BY <1>1, <1>4 DEF Inv, LeftIsAhead, SuspendedIsNotPolled, SyncAll
<1>9. BulkHasRounds'
  BY <1>1, <1>4 DEF Inv, TypeOK, BulkHasRounds, SyncAll
<1>10. ShownIsTrue'
  BY <1>5, <1>6 DEF Inv, ShownIsTrue, SyncAll, Pause
<1>11. TickIsServed'
  <2>1. \A c \in Running("tick") : lock[c] # <<>>
    BY <1>1, RunningMembers, QueueHead DEF Running
  <2>2. Running("tick") \subseteq Accounts
    BY DEF Running
  <2>. QED
    BY <1>1, <1>4, <2>1, <2>2 DEF Inv, TickIsServed, SyncAll
<1>. QED
  BY <1>4, <1>7, <1>8, <1>9, <1>10, <1>11 DEF Inv

LEMMA ResumeDelayEndsInv ==
    ASSUME Inv, NEW b \in Bulks, ResumeDelayEnds(b)
    PROVE  Inv'
<1>1. \A o : Running(o)' = Running(o)
  BY DEF Running, ResumeDelayEnds
<1>2. Pausing' = Pausing \ {b} /\ b \in Pausing
  BY DEF ResumeDelayEnds, Pausing, Inv, TypeOK
<1>3. IsFiniteSet(Pausing) /\ IsFiniteSet(Pausing') /\ pauseDepth \in Nat \ {0}
        /\ Cardinality(Pausing') = pauseDepth - 1
  BY <1>2, PauseIsCounted, FS_RemoveElement DEF Inv, TypeOK
<1>4. pauseDepth' = Cardinality(Pausing') /\ (pauseDepth <= 1 <=> Pausing' = {})
  BY <1>3, FS_EmptySet DEF ResumeDelayEnds
<1>5. TypeOK'
  BY <1>4 DEF Inv, TypeOK, ResumeDelayEnds
<1>6. QueuesAreSets' /\ TickIsServed' /\ LeftIsAhead' /\ SuspendedIsNotPolled'
  BY <1>1 DEF Inv, QueuesAreSets, TickIsServed, LeftIsAhead, SuspendedIsNotPolled,
              ResumeDelayEnds
<1>7. BulkHasRounds'
  BY <1>1 DEF Inv, TypeOK, BulkHasRounds, ResumeDelayEnds
<1>8. ShownIsTrue'
  BY <1>2, <1>4 DEF Inv, ShownIsTrue, ResumeDelayEnds
<1>. QED
  BY <1>5, <1>6, <1>7, <1>8 DEF Inv

-----------------------------------------------------------------------------
(* The end of a round                                                      *)

LEMMA RoundEndsInv ==
    ASSUME Inv, NEW a \in Accounts, NEW outcome, RoundEnds(a, outcome)
    PROVE  Inv'
<1>. DEFINE owner == Head(lock[a])
<1>1. PICK o : o = owner
  OBVIOUS
<1>2. /\ Settle(a, o, outcome) /\ BulkAfter(a, o, outcome)
      /\ tick' = (IF o = "tick" THEN "gap" ELSE tick)
  BY <1>1 DEF RoundEnds
<1>3. lock \in Queues /\ "tick" \in Owners /\ Bulks \subseteq Owners \ {"tick"}
  BY AccountsAssumption DEF Inv, TypeOK, Queues, Owners
<1>4. /\ lock' \in Queues /\ QueuesAreSets'
      /\ o \in Owners /\ a \in Running(o)
      /\ Running(o)' = Running(o) \ {a}
      /\ \A p \in Owners \ {o} : Running(p)' = Running(p)
      /\ \A c \in Accounts \ {a} : lock'[c] = lock[c]
  BY <1>1, <1>3, LeavesQueue DEF Inv, RoundEnds
<1>. HIDE DEF owner
<1>5. o = "tick" => tick = "round" /\ Running("tick") = {a} /\ Running("tick")' = {}
  BY <1>3, <1>4 DEF Inv, TickIsServed
<1>6. o # "tick" => a \notin Running("tick") /\ Running("tick")' = Running("tick")
  <2>1. ASSUME o # "tick", a \in Running("tick") PROVE FALSE
    BY <1>1, <2>1 DEF Inv, TickIsServed, owner
  <2>. QED
    BY <1>3, <1>4, <2>1
<1>7. bulk' \in [Bulks -> {"idle", "running", "resuming", "over"}] /\ Pausing' = Pausing
  BY <1>2, <1>4 DEF Inv, TypeOK, BulkHasRounds, BulkAfter, Pausing
<1>8. TypeOK'
  <2>1. streak' \in [Accounts -> 0 .. Threshold]
    BY <1>2, PolicyAssumption DEF Inv, TypeOK, Settle
  <2>2. suspension' \in [Accounts -> {"none", "observed", "enforced"}]
    BY <1>2 DEF Inv, TypeOK, Settle
  <2>3. tick' \in {"none", "round", "gap"} /\ due' \in [Accounts -> BOOLEAN]
    BY <1>2 DEF Inv, TypeOK, RoundEnds
  <2>. QED
    BY <1>4, <1>7, <2>1, <2>2, <2>3 DEF Inv, TypeOK, RoundEnds, Queues
<1>9. TickIsServed'
  BY <1>2, <1>4, <1>5, <1>6 DEF Inv, TickIsServed, RoundEnds, Running
<1>10. LeftIsAhead'
  BY <1>2, <1>5, <1>6 DEF Inv, LeftIsAhead, RoundEnds
<1>11. BulkHasRounds'
  BY <1>2, <1>3, <1>4 DEF Inv, TypeOK, BulkHasRounds, BulkAfter
<1>12. SuspendedIsNotPolled'
  <2>1. \A c \in Accounts \ {a} : suspension'[c] = suspension[c]
    BY <1>2 DEF Inv, TypeOK, Settle
  <2>2. o # "tick" => suspension'[a] = suspension[a]
    BY <1>2 DEF Inv, TypeOK, Settle
  <2>. QED
    BY <1>5, <1>6, <2>1, <2>2 DEF Inv, LeftIsAhead, SuspendedIsNotPolled, RoundEnds
<1>13. ShownIsTrue'
  BY <1>2, <1>7 DEF Inv, ShownIsTrue, RoundEnds
<1>. QED
  BY <1>4, <1>8, <1>9, <1>10, <1>11, <1>12, <1>13 DEF Inv

-----------------------------------------------------------------------------
(* The process, and the whole                                              *)

LEMMA RestartInv == ASSUME Inv, Restart PROVE Inv'
<1>1. \A o : Running(o)' = {}
  BY DEF Restart, Running
<1>2. bulk' \in [Bulks -> {"idle", "over"}] /\ Pausing' = {}
  BY DEF Restart, Pausing, Inv, TypeOK
<1>3. TypeOK'
  <2>1. streak' \in [Accounts -> 0 .. Threshold] /\ restarts' \in 0 .. MaxRestarts
    BY PolicyAssumption DEF Inv, TypeOK, Restart
  <2>2. lock' \in [Accounts -> Seq(Owners)]
    BY DEF Restart
  <2>3. pauseDepth' = Cardinality(Pausing')
    BY <1>2, FS_EmptySet DEF Restart
  <2>. QED
    BY <1>2, <2>1, <2>2, <2>3 DEF Inv, TypeOK, Restart
<1>4. QueuesAreSets'
  BY DEF Restart, QueuesAreSets, Distinct
<1>5. TickIsServed' /\ LeftIsAhead' /\ SuspendedIsNotPolled' /\ ShownIsTrue'
  BY <1>1, <1>2 DEF TickIsServed, LeftIsAhead, SuspendedIsNotPolled, ShownIsTrue, Restart
<1>6. BulkHasRounds'
  BY <1>1, <1>2 DEF BulkHasRounds
<1>. QED
  BY <1>3, <1>4, <1>5, <1>6 DEF Inv

LEMMA NextInv == Inv /\ [Next]_vars => Inv'
<1>. SUFFICES ASSUME Inv, [Next]_vars PROVE Inv'
  OBVIOUS
<1>1. CASE StartTick
  BY <1>1, StartTickInv
<1>2. CASE GapEnds
  BY <1>2, GapEndsInv
<1>3. CASE Stop \/ DrainEnds
  BY <1>3, StopInv
<1>4. CASE Restart
  BY <1>4, RestartInv
<1>5. ASSUME NEW a \in Accounts, DueComes(a) \/ Resume(a) PROVE Inv'
  BY <1>5, OwnerInv
<1>6. ASSUME NEW a \in Accounts, SyncNow(a) PROVE Inv'
  BY <1>6, SyncNowInv
<1>7. ASSUME NEW a \in Accounts, AnyRoundEnds(a) PROVE Inv'
  BY <1>7, RoundEndsInv DEF AnyRoundEnds
<1>8. ASSUME NEW a \in Switched, SwitchSync(a) PROVE Inv'
  <2>1. a \in Accounts
    BY AccountsAssumption
  <2>. QED
    BY <1>8, <2>1, OwnerInv
<1>9. ASSUME NEW b \in Bulks, SyncAll(b) PROVE Inv'
  BY <1>9, SyncAllInv
<1>10. ASSUME NEW b \in Bulks, ResumeDelayEnds(b) PROVE Inv'
  BY <1>10, ResumeDelayEndsInv
<1>11. CASE UNCHANGED vars
  <2>1. Pausing' = Pausing /\ \A o : Running(o)' = Running(o)
    BY <1>11 DEF vars, Pausing, Running
  <2>2. TypeOK' /\ QueuesAreSets' /\ TickIsServed' /\ LeftIsAhead'
    BY <1>11, <2>1 DEF vars, Inv, TypeOK, QueuesAreSets, TickIsServed, LeftIsAhead
  <2>3. BulkHasRounds' /\ SuspendedIsNotPolled' /\ ShownIsTrue'
    BY <1>11, <2>1 DEF vars, Inv, BulkHasRounds, SuspendedIsNotPolled, ShownIsTrue
  <2>. QED
    BY <2>2, <2>3 DEF Inv
<1>. QED
  BY <1>1, <1>2, <1>3, <1>4, <1>5, <1>6, <1>7, <1>8, <1>9, <1>10, <1>11 DEF Next

-----------------------------------------------------------------------------
(* Theorems                                                                *)

\* The scheduler's state has its types, and pauseDepth is always the number of
\* bulk calls that pause the tick: no pause is lost and none is undone twice.
THEOREM SchedulerTypes == Spec => []TypeOK
<1>1. Inv => TypeOK
  BY DEF Inv
<1>. QED
  BY <1>1, InitInv, NextInv, PTL DEF Spec

\* The background tier syncs one account at a time, never behind another tier,
\* and is quiet from the moment stop() returns.
THEOREM TickIsSerial == Spec => []BackgroundIsSerial
<1>1. Inv => BackgroundIsSerial
  <2>. SUFFICES ASSUME Inv PROVE BackgroundIsSerial
    OBVIOUS
  <2>1. ASSUME NEW a \in Running("tick")
        PROVE  /\ Head(lock[a]) = "tick"
               /\ "tick" \notin {lock[a][i] : i \in 2 .. Len(lock[a])}
    <3>1. a \in Accounts /\ lock[a] \in Seq(Owners) /\ Distinct(lock[a])
      BY DEF Inv, TypeOK, QueuesAreSets, Running
    <3>2. Head(lock[a]) = "tick"
      BY DEF Inv, TickIsServed
    <3>3. PICK i \in DOMAIN lock[a] : lock[a][i] = "tick"
      BY DEF Running
    <3>4. i \in 1 .. Len(lock[a]) /\ 1 \in 1 .. Len(lock[a]) /\ lock[a][1] = "tick"
      BY <3>1, <3>2, <3>3
    <3>5. ASSUME NEW j \in 2 .. Len(lock[a]), lock[a][j] = "tick" PROVE FALSE
      <4>1. j \in 1 .. Len(lock[a]) /\ j # 1
        BY <3>1
      <4>. QED
        BY <3>1, <3>4, <3>5, <4>1 DEF Distinct
    <3>. QED
      BY <3>2, <3>5
  <2>2. CASE tick = "round"
    <3>1. PICK a : Running("tick") = {a}
      BY <2>2 DEF Inv, TickIsServed
    <3>. QED
      BY <2>1, <2>2, <3>1, FS_Singleton DEF Inv, TickIsServed, BackgroundIsSerial
  <2>3. CASE tick # "round"
    BY <2>1, <2>3, FS_EmptySet DEF Inv, TickIsServed, BackgroundIsSerial
  <2>. QED
    BY <2>2, <2>3
<1>. QED
  BY <1>1, InitInv, NextInv, PTL DEF Spec

\* An account whose suspension is enforced is neither in a background round nor
\* ahead of the tick in progress.
THEOREM SuspensionHolds == Spec => []SuspendedIsNotPolled
<1>1. Inv => SuspendedIsNotPolled
  BY DEF Inv
<1>. QED
  BY <1>1, InitInv, NextInv, PTL DEF Spec

\* The clients are told "paused" exactly while a bulk call pauses the tick, and
\* "running" only while there is one.
THEOREM TierEventsAreTrue == Spec => []ShownIsTrue
<1>1. Inv => ShownIsTrue
  BY DEF Inv
<1>. QED
  BY <1>1, InitInv, NextInv, PTL DEF Spec

\* A bulk call is running exactly as long as one of its rounds is queued or
\* running, so the end of the last of them always schedules its resume.
THEOREM BulkEndsWithItsRounds == Spec => []BulkHasRounds
<1>1. Inv => BulkHasRounds
  BY DEF Inv
<1>. QED
  BY <1>1, InitInv, NextInv, PTL DEF Spec

\* A background round begins in no step of a state where a bulk call, or the
\* delay after it, is in progress.
LEMMA NoRoundWhilePaused ==
    ASSUME Inv, [Next]_vars, Pausing # {}
    PROVE  Running("tick")' \subseteq Running("tick")
<1>1. pauseDepth # 0 /\ lock \in Queues /\ QueuesAreSets
  BY PauseIsCounted DEF Inv, TypeOK, Queues
<1>2. CASE UNCHANGED lock
  BY <1>2 DEF Running
<1>3. CASE StartTick \/ GapEnds
  BY <1>1, <1>2, <1>3 DEF StartTick, GapEnds, Walk, EndTick
<1>4. ASSUME NEW a \in Accounts, SyncNow(a) PROVE Running("tick")' \subseteq Running("tick")
  <2>1. lock'[a] = <<"user">> /\ \A c \in Accounts \ {a} : lock'[c] = lock[c]
    BY <1>1, <1>4 DEF SyncNow, Queues
  <2>2. \A i \in DOMAIN <<"user">> : <<"user">>[i] # "tick"
    OBVIOUS
  <2>. QED
    BY <2>1, <2>2 DEF Running
<1>5. ASSUME NEW b \in Bulks, SyncAll(b) PROVE Running("tick")' \subseteq Running("tick")
  <2>1. PICK T \in SUBSET Accounts : T = Targets[b]
    BY AccountsAssumption
  <2>2. Running(b) \intersect T = {} /\ Joins(b, T)
    BY <1>5, <2>1 DEF Inv, BulkHasRounds, SyncAll, Joins
  <2>3. b \in Owners /\ "tick" \in Owners \ {b}
    BY AccountsAssumption DEF Owners
  <2>. QED
    BY <1>1, <2>2, <2>3, JoinsQueues
<1>6. ASSUME NEW a \in Accounts, AnyRoundEnds(a)
      PROVE  Running("tick")' \subseteq Running("tick")
  <2>1. PICK o : o = Head(lock[a])
    OBVIOUS
  <2>2. lock[a] # <<>> /\ lock' = [lock EXCEPT ![a] = Tail(@)]
    BY <1>6 DEF AnyRoundEnds, RoundEnds
  <2>3. o = "tick" \/ "tick" \in Owners \ {o}
    BY DEF Owners
  <2>. QED
    BY <1>1, <2>1, <2>2, <2>3, LeavesQueue
<1>7. CASE Restart
  BY <1>7 DEF Restart, Running
<1>8. CASE Stop \/ DrainEnds \/ UNCHANGED vars
  BY <1>2, <1>8 DEF Stop, DrainEnds, vars
<1>9. ASSUME NEW a \in Accounts, DueComes(a) \/ Resume(a)
      PROVE  Running("tick")' \subseteq Running("tick")
  BY <1>2, <1>9 DEF DueComes, Resume
<1>10. ASSUME NEW a \in Switched, SwitchSync(a)
       PROVE  Running("tick")' \subseteq Running("tick")
  BY <1>2, <1>10 DEF SwitchSync
<1>11. ASSUME NEW b \in Bulks, ResumeDelayEnds(b)
       PROVE  Running("tick")' \subseteq Running("tick")
  BY <1>2, <1>11 DEF ResumeDelayEnds
<1>. QED
  BY <1>3, <1>4, <1>5, <1>6, <1>7, <1>8, <1>9, <1>10, <1>11 DEF Next

\* However bulk calls overlap, the tick begins no round during one.
THEOREM PauseHolds == Spec => BulkKeepsTheTickOut
<1>1. Inv /\ [Next]_vars => [Pausing # {} => Running("tick")' \subseteq Running("tick")]_vars
  BY NoRoundWhilePaused
<1>. QED
  BY <1>1, InitInv, NextInv, PTL DEF Spec, BulkKeepsTheTickOut

\* A tick that is not over has fewer accounts ahead of it the more rounds it has
\* begun, and each of its rounds is of an account that was still ahead.
TickMovesOn ==
    [][/\ tick # "none" /\ tick' # "none" => left' \subseteq left
       /\ tick = "gap" /\ tick' = "round" => Running("tick")' \subseteq left \ left']_vars

\* The next round of a tick.
LEMMA GapBeginsTheNext ==
    ASSUME Inv, GapEnds, tick' = "round"
    PROVE  left' \subseteq left /\ Running("tick")' \subseteq left \ left'
<1>1. /\ lock \in Queues /\ left \subseteq Accounts /\ Accounts \subseteq Nat /\ Running("tick") = {}
  BY AccountsAssumption DEF Inv, TypeOK, TickIsServed, Queues, GapEnds
<1>2. PICK a \in Ready(left) : lock' = [lock EXCEPT ![a] = Append(@, "tick")] /\ left' = {b \in left : b > a}
  BY DEF GapEnds, Walk, EndTick
<1>3. a \in left /\ a \notin left' /\ left' \subseteq left
  BY <1>1, <1>2 DEF Ready
<1>4. ASSUME NEW c \in Running("tick")' PROVE c = a
  <2>1. c \in Accounts
    BY <1>4 DEF Running
  <2>2. c # a => lock'[c] = lock[c]
    BY <1>1, <1>2, <2>1 DEF Queues
  <2>. QED
    BY <1>1, <1>4, <2>1, <2>2 DEF Running
<1>. QED
  BY <1>3, <1>4

\* A tick comes to its end if its rounds do: it waits for a round only while that
\* round has its account, and no account comes up twice (#runTick), so stop(), which
\* waits for it, does too.
THEOREM TicksComeToTheirEnd == Spec => []TickIsServed /\ TickMovesOn
<1>1. Inv => TickIsServed
  BY DEF Inv
<1>2. Inv /\ [Next]_vars =>
        [/\ tick # "none" /\ tick' # "none" => left' \subseteq left
         /\ tick = "gap" /\ tick' = "round" => Running("tick")' \subseteq left \ left']_vars
  <2>1. SUFFICES ASSUME Inv, Next
                 PROVE  /\ tick # "none" /\ tick' # "none" => left' \subseteq left
                        /\ tick = "gap" /\ tick' = "round" => Running("tick")' \subseteq left \ left'
    OBVIOUS
  <2>2. CASE GapEnds
    <3>1. tick = "gap" /\ (tick' = "round" \/ tick' = "none")
      BY <2>2 DEF GapEnds, Walk, EndTick
    <3>. QED
      BY <2>1, <2>2, <3>1, GapBeginsTheNext
  <2>3. CASE StartTick \/ Restart
    BY <2>3 DEF StartTick, Restart
  <2>4. ASSUME NEW a \in Accounts, AnyRoundEnds(a)
        PROVE  UNCHANGED left /\ (tick = "gap" => tick' = "gap")
    BY <2>4 DEF AnyRoundEnds, RoundEnds
  <2>5. ASSUME ~ GapEnds, ~ StartTick, ~ Restart, \A a \in Accounts : ~ AnyRoundEnds(a)
        PROVE  UNCHANGED <<left, tick>>
    BY <2>1, <2>5 DEF Next, Stop, DrainEnds, DueComes, SyncNow, Resume, SwitchSync, SyncAll, ResumeDelayEnds
  <2>. QED
    BY <2>2, <2>3, <2>4, <2>5
<1>. QED
  BY <1>1, <1>2, InitInv, NextInv, PTL DEF Spec, TickMovesOn

-----------------------------------------------------------------------------
(* The instants of DueTime                                                 *)

(* An interval is positive and at most the longest one, whatever is in the *)
(* database and however long the account has been throttled.               *)
LEMMA IntervalIsBounded ==
    ASSUME NEW seconds \in Nat, NEW multiplier \in Nat \ {0}
    PROVE  Interval(seconds, multiplier) \in 1 .. 1000 * MaxSeconds
  <1> DEFINE s == Smaller(MaxSeconds, Larger(MinSeconds, seconds))
  <1>1. s \in Nat /\ s >= 1
    BY DEF Smaller, Larger, MinSeconds, MaxSeconds
  <1>2. 1000 * s * multiplier \in Nat /\ 1000 * s * multiplier >= 1
    <2>1. \A x, y \in Nat : x >= 1 /\ y >= 1 => x * y \in Nat /\ x * y >= 1
      OBVIOUS
    <2>2. 1000 * s \in Nat /\ 1000 * s >= 1
      BY <1>1
    <2> HIDE DEF s
    <2> QED BY <2>1, <2>2
  <1>3. 1000 * MaxSeconds \in Nat /\ 1000 * MaxSeconds >= 1
    BY DEF MaxSeconds
  <1>4. Interval(seconds, multiplier) = Smaller(1000 * s * multiplier, 1000 * MaxSeconds)
    BY DEF Interval
  <1> HIDE DEF s
  <1> DEFINE product == 1000 * s * multiplier
  <1>5. product \in Nat /\ product >= 1
    BY <1>2
  <1> HIDE DEF product
  <1> QED BY <1>3, <1>4, <1>5 DEF Smaller, product

(* However late a round ends and whatever has become of the cached due     *)
(* time, the account is due after now, and within an interval of it: no    *)
(* tick finds it due again at once, and none waits longer for it.          *)
(* (scheduler.ts:534-535, and resetSchedule during a round.)               *)
THEOREM RescheduledIsAhead ==
    ASSUME NEW seconds \in Nat, NEW multiplier \in Nat \ {0}, NEW now \in Nat,
           NEW previous \in Nat \cup {Unset}, previous <= now
    PROVE  LET interval == Interval(seconds, multiplier)
           IN  /\ FromNow(now, interval) \in now + 1 .. now + 1000 * MaxSeconds
               /\ FromGrid(previous, now, interval) \in now + 1 .. now + 1000 * MaxSeconds
  <1> DEFINE interval == Interval(seconds, multiplier)
  <1>1. interval \in 1 .. 1000 * MaxSeconds
    BY IntervalIsBounded
  <1>2. 1000 * MaxSeconds \in Nat
    BY DEF MaxSeconds
  <1> HIDE DEF interval
  <1>3. FromNow(now, interval) \in now + 1 .. now + 1000 * MaxSeconds
    BY <1>1, <1>2 DEF FromNow
  <1>4. FromGrid(previous, now, interval) \in now + 1 .. now + 1000 * MaxSeconds
    BY <1>1, <1>2, <1>3 DEF FromGrid, Unset
  <1> QED BY <1>3, <1>4 DEF interval

(* A round that ends within an interval of the instant it was due leaves   *)
(* the account on its grid: the period is the interval, and not the        *)
(* interval and the time of the round (scheduler.ts:529-532).              *)
THEOREM PhaseIsKept ==
    ASSUME NEW now \in Nat, NEW previous \in Nat, NEW interval \in Nat \ {0},
           previous <= now, now < previous + interval
    PROVE  FromGrid(previous, now, interval) - previous = interval
  BY DEF FromGrid, Unset
=============================================================================
