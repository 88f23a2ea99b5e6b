-------------------------- MODULE SendServiceProofs --------------------------
(***************************************************************************)
(* What holds of the letters for every set of idempotency keys, any number *)
(* of jobs, every MAX_JOBS and any number of crashes.                      *)
(***************************************************************************)
EXTENDS SendService, TLAPS

\* What one job says agrees: its status with where #run is, its outcome with
\* what the mail server has.
Agrees(r) ==
    /\ r.status = "none" => r = NoJob
    /\ r.status # "none" => r.key # None /\ r.phase # "none"
    /\ r.phase \in {"compose", "smtp"} => r.status = "sending" /\ r.outcome = "none"
    /\ r.phase = "compose" => ~r.handed /\ ~r.open
    /\ r.phase = "saving" => r.status = "sent"
    /\ r.phase = "over" /\ r.status = "sending" => r.crashed
    /\ r.crashed => r.phase = "over" /\ ~r.open
    /\ r.status = "sent" => r.handed
    /\ r.outcome \in {"auth", "refused"} => ~r.handed /\ ~r.open
    /\ r.open => \/ r.phase = "smtp"
                 \/ r.phase = "over" /\ r.status = "failed" /\ r.outcome = "timeout"

\* Why a job may have a successor with its key.
Reason(r) ==
    r.expired \/ r.evicted \/ r.crashed \/ r.outcome \in {"transient", "timeout", "bookkeeping"}

JobsAgree == \A j \in Ids : Agrees(job[j])

\* Ids are given out in order.
IdsInOrder == \A j \in Used : \A i \in Ids : i < j => i \in Used

\* A job the service has forgotten was forgotten for a reason.
ForgottenForAReason == \A j \in Used \ kept : Reason(job[j])

\* The service knows the last job of a key or none of them.
OnlyTheLastIsKept ==
    \A i, j \in Used : i < j /\ job[i].key = job[j].key => i \notin kept

\* A job that is still to meet the mail server is known.
SendersAreKept == \A j \in Ids : job[j].status = "sending" /\ ~job[j].crashed => j \in kept

\* After a drain no job is still to meet the mail server.
NoSenderLeft == proc = "drained" => \A j \in Ids : job[j].phase \notin {"compose", "smtp"}

\* The inductive invariant.
Inv ==
    /\ TypeOK /\ JobsAgree /\ IdsInOrder /\ MapsAgree /\ SendersAreKept
    /\ ForgottenForAReason /\ OnlyTheLastIsKept /\ NoSenderLeft

-----------------------------------------------------------------------------
LEMMA InitInv == Init => Inv
<1>. SUFFICES ASSUME Init PROVE Inv
  OBVIOUS
<1>1. NoJob \in Jobs /\ Agrees(NoJob)
  BY DEF NoJob, Jobs, Agrees
<1>2. \A j \in Ids : job[j] = NoJob
  BY DEF Init
<1>3. Used = {}
  BY <1>2 DEF Used, NoJob
<1>4. TypeOK
  BY <1>1, <1>2, <1>3, SendAssumption DEF Init, TypeOK, NoJob
<1>5. JobsAgree /\ SendersAreKept /\ NoSenderLeft
  BY <1>1, <1>2 DEF Init, JobsAgree, SendersAreKept, NoSenderLeft, NoJob
<1>6. IdsInOrder /\ ForgottenForAReason /\ OnlyTheLastIsKept /\ MapsAgree
  BY <1>3 DEF Init, IdsInOrder, ForgottenForAReason, OnlyTheLastIsKept, MapsAgree
<1>. QED
  BY <1>4, <1>5, <1>6 DEF Inv

-----------------------------------------------------------------------------
(* Steps of one job                                                        *)

\* A job that becomes r keeps the invariant if r agrees with itself, gives no
\* reason back, and does not begin to send.
LEMMA JobBecomes ==
    ASSUME Inv, NEW j \in Used, NEW r \in Jobs, Agrees(r),
           r.status # "none", r.key = job[j].key,
           Reason(job[j]) => Reason(r),
           r.status = "sending" /\ ~r.crashed => job[j].status = "sending" /\ ~job[j].crashed,
           r.phase \in {"compose", "smtp"} => job[j].phase \in {"compose", "smtp"},
           job' = [job EXCEPT ![j] = r], account' \in {"active", "auth_error"},
           UNCHANGED <<kept, byKey, proc, awaited, restarts>>
    PROVE  Inv'
<1>1. /\ j \in Ids /\ job'[j] = r
      /\ \A i \in Ids \ {j} : job'[i] = job[i]
      /\ job' \in [Ids -> Jobs]
  BY DEF Inv, TypeOK, Used
<1>2. Used' = Used /\ \A i \in Used : job'[i].key = job[i].key
  BY <1>1 DEF Used
<1>3. JobsAgree'
  BY <1>1 DEF Inv, JobsAgree
<1>4. TypeOK'
  <2>1. \A i \in Ids :
          /\ job'[i].phase \in {"compose", "smtp"} => job'[i].status = "sending"
          /\ job'[i].phase = "saving" => job'[i].status = "sent"
          /\ job'[i].phase = "over" /\ job'[i].status = "sending" => job'[i].crashed
    BY <1>3 DEF JobsAgree, Agrees
  <2>. QED
    BY <1>1, <1>2, <2>1 DEF Inv, TypeOK
<1>5. IdsInOrder' /\ OnlyTheLastIsKept'
  BY <1>2 DEF Inv, IdsInOrder, OnlyTheLastIsKept
<1>6. MapsAgree'
  BY <1>2, SendAssumption DEF Inv, TypeOK, MapsAgree, Ids
<1>7. SendersAreKept'
  BY <1>1 DEF Inv, SendersAreKept
<1>8. ForgottenForAReason'
  BY <1>1, <1>2 DEF Inv, ForgottenForAReason
<1>9. NoSenderLeft'
  BY <1>1 DEF Inv, NoSenderLeft
<1>. QED
  BY <1>3, <1>4, <1>5, <1>6, <1>7, <1>8, <1>9 DEF Inv

\* A job that has left "none" behind is in use.
LEMMA InUse ==
    ASSUME Inv, NEW j \in Ids, job[j].phase # "none" \/ job[j].status # "none" \/ job[j].open
    PROVE  j \in Used /\ job[j] \in Jobs /\ Agrees(job[j]) /\ account \in {"active", "auth_error"}
BY DEF Inv, TypeOK, JobsAgree, Agrees, Used, NoJob

LEMMA KeyExpiresInv == ASSUME Inv, NEW j \in Ids, KeyExpires(j) PROVE Inv'
<1>. DEFINE r == [job[j] EXCEPT !.expired = TRUE]
<1>1. j \in Used /\ job[j] \in Jobs /\ Agrees(job[j]) /\ account \in {"active", "auth_error"}
  BY InUse DEF KeyExpires, Finished
<1>2. r \in Jobs /\ Agrees(r) /\ r.status # "none" /\ r.key = job[j].key
  BY <1>1 DEF Jobs, Agrees, Used
<1>3. Reason(r) /\ r.status = job[j].status /\ r.crashed = job[j].crashed /\ r.phase = job[j].phase
  BY <1>1 DEF Jobs, Reason
<1>4. job' = [job EXCEPT ![j] = r]
  BY DEF KeyExpires, Inv, TypeOK
<1>. QED
  BY <1>1, <1>2, <1>3, <1>4, JobBecomes DEF KeyExpires

LEMMA ServerAcceptsInv == ASSUME Inv, NEW j \in Ids, ServerAccepts(j) PROVE Inv'
<1>. DEFINE r == [job[j] EXCEPT !.handed = TRUE, !.open = (job[j].phase = "smtp")]
<1>1. j \in Used /\ job[j] \in Jobs /\ Agrees(job[j]) /\ account \in {"active", "auth_error"}
  BY InUse DEF ServerAccepts
<1>2. r \in Jobs /\ Agrees(r) /\ r.status # "none" /\ r.key = job[j].key
  BY <1>1 DEF Jobs, Agrees, Used, ServerAccepts
<1>3. /\ Reason(r) <=> Reason(job[j])
      /\ r.status = job[j].status /\ r.crashed = job[j].crashed /\ r.phase = job[j].phase
  BY <1>1 DEF Jobs, Reason
<1>4. job' = [job EXCEPT ![j] = r]
  BY DEF ServerAccepts, Inv, TypeOK
<1>. QED
  BY <1>1, <1>2, <1>3, <1>4, JobBecomes DEF ServerAccepts

\* A job that is still to meet the mail server has not crashed.
LEMMA NotCrashed ==
    ASSUME NEW r \in Jobs, Agrees(r), r.phase \in {"compose", "smtp"}
    PROVE  r.status = "sending" /\ ~r.crashed /\ r.outcome = "none"
BY DEF Agrees

LEMMA ComposedInv == ASSUME Inv, NEW j \in Ids, Composed(j) PROVE Inv'
<1>. DEFINE r == [job[j] EXCEPT !.phase = "smtp", !.open = TRUE]
<1>1. /\ j \in Used /\ job[j] \in Jobs /\ Agrees(job[j]) /\ account \in {"active", "auth_error"}
      /\ job[j].status = "sending" /\ ~job[j].crashed /\ job[j].outcome = "none"
      /\ job[j].phase = "compose"
  BY InUse, NotCrashed DEF Composed
<1>2. r \in Jobs /\ Agrees(r) /\ r.status # "none" /\ r.key = job[j].key
  BY <1>1 DEF Jobs, Agrees
<1>3. Reason(r) <=> Reason(job[j])
  BY <1>1 DEF Jobs, Reason
<1>4. job' = [job EXCEPT ![j] = r]
  BY DEF Composed, Inv, TypeOK
<1>. QED
  BY <1>1, <1>2, <1>3, <1>4, JobBecomes DEF Composed

LEMMA CannotComposeInv == ASSUME Inv, NEW j \in Ids, CannotCompose(j) PROVE Inv'
<1>. DEFINE r == [job[j] EXCEPT !.phase = "over", !.status = "failed", !.outcome = "refused"]
<1>1. /\ j \in Used /\ job[j] \in Jobs /\ Agrees(job[j]) /\ account \in {"active", "auth_error"}
      /\ job[j].status = "sending" /\ ~job[j].crashed /\ job[j].outcome = "none"
      /\ job[j].phase = "compose"
  BY InUse, NotCrashed DEF CannotCompose
<1>2. r \in Jobs /\ Agrees(r) /\ r.status = "failed" /\ r.phase = "over" /\ r.key = job[j].key
  BY <1>1 DEF Jobs, Agrees, Failures
<1>3. Reason(job[j]) => Reason(r)
  BY <1>1 DEF Jobs, Reason
<1>4. job' = [job EXCEPT ![j] = r]
  BY DEF CannotCompose, Inv, TypeOK
<1>. QED
  BY <1>1, <1>2, <1>3, <1>4, JobBecomes DEF CannotCompose

LEMMA SmtpEndsInv == ASSUME Inv, NEW j \in Ids, SmtpEnds(j) PROVE Inv'
<1>1. /\ j \in Used /\ job[j] \in Jobs /\ Agrees(job[j]) /\ account \in {"active", "auth_error"}
      /\ job[j].status = "sending" /\ ~job[j].crashed /\ job[j].outcome = "none"
      /\ job[j].phase = "smtp"
  BY InUse, NotCrashed DEF SmtpEnds, Delivered, BookkeepingFails, NotDelivered
<1>2. CASE Delivered(j)
  <2>. DEFINE r == [job[j] EXCEPT !.phase = "saving", !.status = "sent", !.outcome = "accepted",
                                  !.open = FALSE]
  <2>1. r \in Jobs /\ Agrees(r) /\ r.status = "sent" /\ r.phase = "saving" /\ r.key = job[j].key
    BY <1>1, <1>2 DEF Jobs, Agrees, Delivered
  <2>2. Reason(job[j]) => Reason(r)
    BY <1>1 DEF Jobs, Reason
  <2>3. job' = [job EXCEPT ![j] = r]
    BY <1>2 DEF Delivered, Inv, TypeOK
  <2>. QED
    BY <1>1, <1>2, <2>1, <2>2, <2>3, JobBecomes DEF Delivered
<1>3. CASE BookkeepingFails(j)
  <2>. DEFINE r == [job[j] EXCEPT !.phase = "over", !.status = "failed", !.outcome = "bookkeeping",
                                  !.open = FALSE]
  <2>1. r \in Jobs /\ Agrees(r) /\ r.status = "failed" /\ r.phase = "over" /\ r.key = job[j].key
    BY <1>1 DEF Jobs, Agrees
  <2>2. Reason(job[j]) => Reason(r)
    BY <1>1 DEF Jobs, Reason
  <2>3. job' = [job EXCEPT ![j] = r]
    BY <1>3 DEF BookkeepingFails, Inv, TypeOK
  <2>. QED
    BY <1>1, <1>3, <2>1, <2>2, <2>3, JobBecomes DEF BookkeepingFails
<1>4. ASSUME NEW o \in Failures, NotDelivered(j, o) PROVE Inv'
  <2>. DEFINE r == [job[j] EXCEPT !.phase = "over", !.status = "failed", !.outcome = o,
                                  !.open = (o = "timeout")]
  <2>1. r \in Jobs /\ r.status = "failed" /\ r.phase = "over" /\ r.key = job[j].key
          /\ r.outcome = o /\ (r.open <=> o = "timeout") /\ r.handed = job[j].handed
          /\ ~r.crashed
    BY <1>1 DEF Jobs
  <2>2. Agrees(r)
    BY <1>4, <2>1, <1>1 DEF Agrees, NotDelivered, Jobs, Failures
  <2>3. Reason(job[j]) => Reason(r)
    BY <1>1 DEF Jobs, Reason
  <2>4. job' = [job EXCEPT ![j] = r]
    BY <1>4 DEF NotDelivered, Inv, TypeOK
  <2>5. account' \in {"active", "auth_error"}
    BY <1>1, <1>4 DEF NotDelivered, RecordSmtpHealth
  <2>. QED
    BY <1>1, <1>4, <2>1, <2>2, <2>3, <2>4, <2>5, JobBecomes DEF NotDelivered
<1>. QED
  BY <1>2, <1>3, <1>4 DEF SmtpEnds

LEMMA SaveEndsInv == ASSUME Inv, NEW j \in Ids, SaveEnds(j) PROVE Inv'
<1>. DEFINE r == [job[j] EXCEPT !.phase = "over"]
<1>1. /\ j \in Used /\ job[j] \in Jobs /\ Agrees(job[j]) /\ account \in {"active", "auth_error"}
      /\ job[j].phase = "saving"
  BY InUse DEF SaveEnds
<1>2. r \in Jobs /\ Agrees(r) /\ r.status = "sent" /\ r.phase = "over" /\ r.key = job[j].key
  BY <1>1 DEF Jobs, Agrees
<1>3. Reason(r) <=> Reason(job[j])
  BY <1>1 DEF Jobs, Reason
<1>4. job' = [job EXCEPT ![j] = r]
  BY DEF SaveEnds, Inv, TypeOK
<1>. QED
  BY <1>1, <1>2, <1>3, <1>4, JobBecomes DEF SaveEnds

-----------------------------------------------------------------------------
(* Accepting a letter                                                      *)

\* What #purge takes away is finished, and a note of its reason is left.
LEMMA PurgedHaveReasons ==
    ASSUME Inv
    PROVE  /\ Purged \subseteq Finished
           /\ Noted \in [Ids -> Jobs]
           /\ \A j \in Ids :
                    /\ Agrees(Noted[j])
                    /\ Noted[j].status = job[j].status /\ Noted[j].key = job[j].key
                    /\ Noted[j].phase = job[j].phase /\ Noted[j].crashed = job[j].crashed
                    /\ Reason(job[j]) => Reason(Noted[j])
           /\ \A j \in Purged : Reason(Noted[j])
<1>1. Purged \subseteq Finished /\ Finished \subseteq Used /\ Evicted \subseteq Finished
  BY DEF Purged, Evicted, Finished, Inv, TypeOK
<1>2. ASSUME NEW j \in Ids
      PROVE  /\ Noted[j] \in Jobs /\ Agrees(Noted[j])
             /\ Noted[j].status = job[j].status /\ Noted[j].key = job[j].key
             /\ Noted[j].phase = job[j].phase /\ Noted[j].crashed = job[j].crashed
             /\ Noted[j].expired = job[j].expired
             /\ Reason(job[j]) => Reason(Noted[j])
             /\ j \in Evicted => Reason(Noted[j])
  <2>1. job[j] \in Jobs /\ Agrees(job[j])
    BY DEF Inv, TypeOK, JobsAgree
  <2>2. CASE j \in Evicted
    <3>1. Noted[j] = [job[j] EXCEPT !.evicted = TRUE]
      BY <2>2 DEF Noted
    <3>2. job[j].status # "none"
      BY <1>1, <2>2 DEF Used
    <3>. QED
      BY <2>1, <3>1, <3>2 DEF Jobs, Agrees, Reason
  <2>3. CASE j \notin Evicted
    <3>1. Noted[j] = job[j]
      BY <2>3 DEF Noted
    <3>. QED
      BY <2>1, <2>3, <3>1
  <2>. QED
    BY <2>2, <2>3
<1>3. Noted \in [Ids -> Jobs]
  BY <1>2 DEF Noted
<1>4. \A j \in Purged : Reason(Noted[j])
  BY <1>1, <1>2 DEF Purged, Used, Reason
<1>. QED
  BY <1>1, <1>2, <1>3, <1>4

\* What is left when the finished jobs in js are dropped: #drop takes the key
\* of a job with it, and no other.
LEMMA WhatIsLeft ==
    ASSUME Inv, NEW js, Purged \subseteq js, js \subseteq Finished,
           \A j \in js \ Purged : MayRepeat(j)
    PROVE  /\ kept \ js \subseteq Used
           /\ Without(byKey, js) \in [Keys -> Ids \union {None}]
           /\ \A j \in kept \ js : Without(byKey, js)[job[j].key] = j /\ job[j].key \in Keys
           /\ \A k \in Keys : Without(byKey, js)[k] # None =>
                  /\ Without(byKey, js)[k] \in kept \ js
                  /\ job[Without(byKey, js)[k]].key = k
           /\ \A j \in Used \ (kept \ js) : Reason(Noted[j])
           /\ \A j \in Ids : job[j].status = "sending" /\ ~job[j].crashed => j \in kept \ js
<1>1. \A j \in Used : job[j] \in Jobs /\ job[j].key \in Keys /\ j \in Ids
  BY DEF Inv, TypeOK, JobsAgree, Agrees, Used, Jobs
<1>2. kept \subseteq Used /\ js \subseteq kept /\ None \notin kept
  BY SendAssumption DEF Inv, TypeOK, Finished, Ids, Used
<1>3. Without(byKey, js) \in [Keys -> Ids \union {None}]
  BY DEF Without, Inv, TypeOK
<1>4. \A j \in kept \ js : Without(byKey, js)[job[j].key] = j
  BY <1>1, <1>2 DEF Without, Inv, MapsAgree
<1>5. \A k \in Keys : Without(byKey, js)[k] # None =>
         /\ Without(byKey, js)[k] \in kept \ js
         /\ job[Without(byKey, js)[k]].key = k
  BY DEF Without, Inv, MapsAgree
<1>6. ASSUME NEW j \in Used \ (kept \ js) PROVE Reason(Noted[j])
  <2>1. CASE j \notin kept
    BY <1>1, <2>1, PurgedHaveReasons DEF Inv, ForgottenForAReason
  <2>2. CASE j \in Purged
    BY <2>2, PurgedHaveReasons
  <2>3. CASE j \in js \ Purged
    <3>1. Reason(job[j])
      BY <2>3 DEF MayRepeat, Retryable, Reason
    <3>. QED
      BY <1>1, <3>1, PurgedHaveReasons
  <2>. QED
    BY <1>6, <2>1, <2>2, <2>3
<1>7. \A j \in Ids : job[j].status = "sending" /\ ~job[j].crashed => j \in kept \ js
  BY DEF Inv, SendersAreKept, Finished
<1>. QED
  BY <1>1, <1>2, <1>3, <1>4, <1>5, <1>6, <1>7

\* A request that starts no job.
LEMMA DropInv ==
    ASSUME Inv, NEW js, Purged \subseteq js, js \subseteq Finished,
           \A j \in js \ Purged : MayRepeat(j),
           kept' = kept \ js, byKey' = Without(byKey, js), job' = Noted,
           UNCHANGED <<account, proc, awaited, restarts>>
    PROVE  Inv'
<1>1. /\ job' \in [Ids -> Jobs]
      /\ \A j \in Ids :
               /\ Agrees(job'[j])
               /\ job'[j].status = job[j].status /\ job'[j].key = job[j].key
               /\ job'[j].phase = job[j].phase /\ job'[j].crashed = job[j].crashed
  BY PurgedHaveReasons
<1>2. Used' = Used /\ Used \subseteq Ids
  BY <1>1 DEF Used
<1>3. JobsAgree' /\ NoSenderLeft'
  BY <1>1 DEF JobsAgree, Inv, NoSenderLeft
<1>4. kept' \subseteq Used' /\ byKey' \in [Keys -> Ids \union {None}]
  BY <1>2, WhatIsLeft
<1>5. TypeOK'
  BY <1>1, <1>4 DEF Inv, TypeOK
<1>6. MapsAgree'
  BY <1>1, <1>2, <1>4, WhatIsLeft, SendAssumption DEF MapsAgree, Ids
<1>7. SendersAreKept'
  BY <1>1, WhatIsLeft DEF SendersAreKept
<1>8. ForgottenForAReason'
  BY <1>2, WhatIsLeft DEF ForgottenForAReason
<1>9. IdsInOrder' /\ OnlyTheLastIsKept'
  BY <1>1, <1>2 DEF Inv, IdsInOrder, OnlyTheLastIsKept
<1>. QED
  BY <1>3, <1>5, <1>6, <1>7, <1>8, <1>9 DEF Inv

\* A request that starts a job for a key that now leads nowhere.
LEMMA StartInv ==
    ASSUME Inv, NEW js, Purged \subseteq js, js \subseteq Finished,
           \A j \in js \ Purged : MayRepeat(j),
           NEW k \in Keys, Without(byKey, js)[k] = None, proc = "up",
           NEW n \in Ids \ Used, \A i \in Ids \ Used : n <= i,
           kept' = (kept \ js) \union {n}, byKey' = [Without(byKey, js) EXCEPT ![k] = n],
           job' = [Noted EXCEPT ![n] = NewJob(k)],
           UNCHANGED <<account, proc, awaited, restarts>>
    PROVE  Inv'
<1>1. /\ NewJob(k) \in Jobs /\ Agrees(NewJob(k)) /\ NewJob(k).status = "sending"
      /\ NewJob(k).key = k /\ NewJob(k).phase = "compose" /\ ~NewJob(k).crashed
  BY SendAssumption DEF NewJob, NoJob, Jobs, Agrees
<1>2. /\ job' \in [Ids -> Jobs] /\ job'[n] = NewJob(k)
      /\ \A j \in Ids \ {n} : job'[j] = Noted[j]
      /\ \A j \in Ids \ {n} :
            /\ Agrees(job'[j])
            /\ job'[j].status = job[j].status /\ job'[j].key = job[j].key
            /\ job'[j].phase = job[j].phase /\ job'[j].crashed = job[j].crashed
  BY <1>1, PurgedHaveReasons
<1>3. Used' = Used \union {n} /\ Used \subseteq Ids /\ n \notin Used
  BY <1>1, <1>2 DEF Used
<1>4. \A i \in Ids : i \in Used <=> i < n
  <2>1. ASSUME NEW i \in Ids, i < n PROVE i \in Used
    BY <2>1 DEF Ids
  <2>2. ASSUME NEW i \in Used PROVE i < n
    BY <1>3, <2>2, SendAssumption DEF Inv, IdsInOrder, Ids
  <2>. QED
    BY <2>1, <2>2
<1>5. JobsAgree' /\ NoSenderLeft'
  BY <1>1, <1>2 DEF JobsAgree, Inv, NoSenderLeft
<1>6. kept' \subseteq Used' /\ byKey' \in [Keys -> Ids \union {None}]
  BY <1>3, WhatIsLeft
<1>7. TypeOK'
  <2>1. \A i \in Ids :
          /\ job'[i].phase \in {"compose", "smtp"} => job'[i].status = "sending"
          /\ job'[i].phase = "saving" => job'[i].status = "sent"
          /\ job'[i].phase = "over" /\ job'[i].status = "sending" => job'[i].crashed
    BY <1>5 DEF JobsAgree, Agrees
  <2>. QED
    BY <1>2, <1>6, <2>1 DEF Inv, TypeOK
<1>8. ASSUME NEW j \in kept \ js PROVE j # n /\ j \in Ids /\ job[j].key # k
  <2>1. j \in Used /\ Without(byKey, js)[job[j].key] = j
    BY WhatIsLeft
  <2>2. j # None
    BY <1>3, <2>1, SendAssumption DEF Ids
  <2>. QED
    BY <1>3, <2>1, <2>2
<1>9. MapsAgree'
  <2>1. ASSUME NEW j \in kept' PROVE byKey'[job'[j].key] = j
    <3>1. CASE j = n
      BY <1>1, <1>2, <3>1, WhatIsLeft
    <3>2. CASE j \in kept \ js
      BY <1>2, <1>8, <3>2, WhatIsLeft
    <3>. QED
      BY <2>1, <3>1, <3>2
  <2>2. ASSUME NEW q \in Keys, byKey'[q] # None
        PROVE  byKey'[q] \in kept' /\ job'[byKey'[q]].key = q
    <3>1. CASE q = k
      BY <1>1, <1>2, <3>1, WhatIsLeft
    <3>2. CASE q # k
      <4>1. byKey'[q] = Without(byKey, js)[q]
        BY <3>2, WhatIsLeft
      <4>2. byKey'[q] \in kept \ js /\ job[byKey'[q]].key = q
        BY <2>2, <4>1, WhatIsLeft
      <4>. QED
        BY <1>2, <1>8, <4>2
    <3>. QED
      BY <3>1, <3>2
  <2>. QED
    BY <2>1, <2>2 DEF MapsAgree
<1>10. SendersAreKept'
  BY <1>1, <1>2, WhatIsLeft DEF SendersAreKept
<1>11. ForgottenForAReason'
  BY <1>2, <1>3, WhatIsLeft DEF ForgottenForAReason
<1>12. IdsInOrder'
  BY <1>3, <1>4 DEF Inv, IdsInOrder, Ids
<1>13. OnlyTheLastIsKept'
  <2>1. SUFFICES ASSUME NEW i \in Used', NEW j \in Used', i < j, job'[i].key = job'[j].key
                 PROVE  i \notin kept'
    BY DEF OnlyTheLastIsKept
  <2>2. i \in Used /\ i # n
    BY <1>3, <1>4, <2>1 DEF Ids
  <2>3. CASE j = n
    BY <1>1, <1>2, <1>3, <1>8, <2>1, <2>2, <2>3
  <2>4. CASE j # n
    BY <1>2, <1>3, <2>1, <2>2, <2>4 DEF Inv, OnlyTheLastIsKept
  <2>. QED
    BY <2>3, <2>4
<1>. QED
  BY <1>5, <1>7, <1>9, <1>10, <1>11, <1>12, <1>13 DEF Inv

LEMMA SubmitInv == ASSUME Inv, NEW k \in Keys, NEW valid \in BOOLEAN, Submit(k, valid) PROVE Inv'
<1>. DEFINE keys == Without(byKey, Purged)
            old == keys[k]
            dropped == Purged \union ({old} \ {None})
<1>1. Purged \subseteq Finished
  BY PurgedHaveReasons
<1>2. old # None => old \notin Purged
  BY DEF Without
<1>3. CASE kept' = kept \ Purged /\ byKey' = keys /\ job' = Noted
  BY <1>1, <1>3, DropInv DEF Submit
<1>4. ASSUME old = None \/ MayRepeat(old)
      PROVE  /\ dropped \subseteq Finished /\ \A j \in dropped \ Purged : MayRepeat(j)
             /\ Without(byKey, dropped)[k] = None
  BY <1>1, <1>2, <1>4 DEF MayRepeat, Without
<1>5. CASE /\ old = None \/ MayRepeat(old)
           /\ kept' = kept \ dropped /\ byKey' = Without(byKey, dropped) /\ job' = Noted
  <2>. HIDE DEF dropped
  <2>1. Purged \subseteq dropped
    BY DEF dropped
  <2>. QED
    BY <1>4, <1>5, <2>1, DropInv DEF Submit
<1>6. ASSUME old = None \/ MayRepeat(old),
             NEW n \in Ids \ Used, \A i \in Ids \ Used : n <= i,
             job' = [Noted EXCEPT ![n] = NewJob(k)],
             kept' = (kept \ dropped) \union {n},
             byKey' = [Without(byKey, dropped) EXCEPT ![k] = n]
      PROVE  Inv'
  <2>. HIDE DEF dropped
  <2>1. Purged \subseteq dropped
    BY DEF dropped
  <2>. QED
    BY <1>4, <1>6, <2>1, StartInv DEF Submit
<1>. QED
  BY <1>3, <1>5, <1>6 DEF Submit

-----------------------------------------------------------------------------
(* The process, and the whole                                              *)

LEMMA ProcessInv ==
    ASSUME Inv, Shutdown \/ DrainEnds \/ DrainExpires \/ Reauthorize
    PROVE  Inv'
<1>1. UNCHANGED <<job, kept, byKey, restarts>> /\ Used' = Used
  BY DEF Shutdown, DrainEnds, DrainExpires, Reauthorize, Used
<1>2. TypeOK'
  <2>1. InFlight \subseteq Ids
    BY DEF InFlight, Inv, TypeOK, Used
  <2>2. /\ proc' \in {"up", "draining", "drained", "gaveUp"} /\ awaited' \subseteq Ids
        /\ account' \in {"active", "auth_error"}
    BY <2>1 DEF Shutdown, DrainEnds, DrainExpires, Reauthorize, Inv, TypeOK
  <2>. QED
    BY <1>1, <2>2 DEF Inv, TypeOK
<1>3. JobsAgree' /\ IdsInOrder' /\ MapsAgree'
  BY <1>1 DEF Inv, JobsAgree, IdsInOrder, MapsAgree
<1>4. SendersAreKept' /\ ForgottenForAReason' /\ OnlyTheLastIsKept'
  BY <1>1 DEF Inv, SendersAreKept, ForgottenForAReason, OnlyTheLastIsKept
<1>5. NoSenderLeft'
  <2>1. CASE InFlight = {}
    <3>1. ASSUME NEW j \in Ids, job[j].phase \in {"compose", "smtp"} PROVE FALSE
      <4>1. job[j].status = "sending" /\ ~job[j].crashed
        BY <3>1 DEF Inv, JobsAgree, Agrees
      <4>. QED
        BY <2>1, <4>1 DEF Inv, SendersAreKept, InFlight
    <3>. QED
      BY <1>1, <3>1 DEF NoSenderLeft
  <2>2. CASE InFlight # {}
    BY <1>1, <2>2 DEF Inv, NoSenderLeft, Shutdown, DrainEnds, DrainExpires, Reauthorize
  <2>. QED
    BY <2>1, <2>2
<1>. QED
  BY <1>2, <1>3, <1>4, <1>5 DEF Inv

LEMMA RestartInv == ASSUME Inv, Restart PROVE Inv'
<1>. DEFINE Left(j) == [NoJob EXCEPT !.key = job[j].key, !.status = job[j].status,
                                     !.phase = "over", !.handed = job[j].handed,
                                     !.crashed = TRUE]
<1>1. ASSUME NEW j \in Used
      PROVE  /\ job'[j] \in Jobs /\ Agrees(job'[j]) /\ Reason(job'[j])
             /\ job'[j].status = job[j].status /\ job'[j].key = job[j].key
             /\ job'[j].phase = "over" /\ job'[j].crashed /\ job'[j].status # "none"
  <2>1. j \in Ids /\ job[j] \in Jobs /\ Agrees(job[j]) /\ job[j].status # "none"
    BY DEF Inv, TypeOK, JobsAgree, Used
  <2>2. job'[j] = Left(j)
    BY <2>1 DEF Restart
  <2>. QED
    BY <2>1, <2>2 DEF Jobs, NoJob, Agrees, Reason
<1>2. ASSUME NEW j \in Ids \ Used
      PROVE  job'[j] = NoJob /\ NoJob \in Jobs /\ Agrees(NoJob) /\ NoJob.status = "none"
             /\ NoJob.phase = "none"
  BY DEF Restart, NoJob, Jobs, Agrees
<1>3. job' \in [Ids -> Jobs]
  <2>1. \A j \in Ids : job'[j] \in Jobs
    BY <1>1, <1>2
  <2>. QED
    BY <2>1 DEF Restart
<1>4. Used' = Used
  BY <1>1, <1>2 DEF Used
<1>5. JobsAgree'
  BY <1>1, <1>2 DEF JobsAgree
<1>6. TypeOK'
  <2>1. \A i \in Ids :
          /\ job'[i].phase \in {"compose", "smtp"} => job'[i].status = "sending"
          /\ job'[i].phase = "saving" => job'[i].status = "sent"
          /\ job'[i].phase = "over" /\ job'[i].status = "sending" => job'[i].crashed
    BY <1>5 DEF JobsAgree, Agrees
  <2>2. restarts' \in 0 .. MaxRestarts
    <3>1. restarts \in 0 .. MaxRestarts /\ MaxRestarts \in Nat
      BY SendAssumption DEF Inv, TypeOK
    <3>2. restarts < MaxRestarts /\ restarts' = restarts + 1
      BY DEF Restart
    <3>. QED
      BY <3>1, <3>2
  <2>. QED
    BY <1>3, <2>1, <2>2 DEF Restart, Inv, TypeOK
<1>7. IdsInOrder' /\ ForgottenForAReason'
  BY <1>1, <1>4 DEF Inv, IdsInOrder, ForgottenForAReason
<1>8. MapsAgree' /\ OnlyTheLastIsKept' /\ NoSenderLeft'
  BY DEF Restart, MapsAgree, OnlyTheLastIsKept, NoSenderLeft
<1>9. SendersAreKept'
  BY <1>1, <1>2 DEF SendersAreKept
<1>. QED
  BY <1>5, <1>6, <1>7, <1>8, <1>9 DEF Inv

LEMMA NextInv == Inv /\ [Next]_vars => Inv'
<1>. SUFFICES ASSUME Inv, [Next]_vars PROVE Inv'
  OBVIOUS
<1>1. CASE Shutdown \/ DrainEnds \/ DrainExpires \/ Reauthorize
  BY <1>1, ProcessInv
<1>2. CASE Restart
  BY <1>2, RestartInv
<1>3. ASSUME NEW k \in Keys, NEW valid \in BOOLEAN, Submit(k, valid) PROVE Inv'
  BY <1>3, SubmitInv
<1>4. ASSUME NEW j \in Ids, KeyExpires(j) \/ ServerAccepts(j) PROVE Inv'
  BY <1>4, KeyExpiresInv, ServerAcceptsInv
<1>5. ASSUME NEW j \in Ids, Step(j) PROVE Inv'
  BY <1>5, ComposedInv, CannotComposeInv, SmtpEndsInv, SaveEndsInv DEF Step
<1>6. CASE UNCHANGED vars
  <2>1. Used' = Used
    BY <1>6 DEF vars, Used
  <2>2. TypeOK' /\ JobsAgree' /\ IdsInOrder' /\ MapsAgree'
    BY <1>6, <2>1 DEF vars, Inv, TypeOK, JobsAgree, IdsInOrder, MapsAgree
  <2>3. SendersAreKept' /\ ForgottenForAReason' /\ OnlyTheLastIsKept' /\ NoSenderLeft'
    BY <1>6, <2>1
       DEF vars, Inv, SendersAreKept, ForgottenForAReason, OnlyTheLastIsKept, NoSenderLeft
  <2>. QED
    BY <2>2, <2>3 DEF Inv
<1>. QED
  BY <1>1, <1>2, <1>3, <1>4, <1>5, <1>6 DEF Next

-----------------------------------------------------------------------------
(* Theorems                                                                *)

\* The service's state has its types, and a job that is told to be "sending"
\* has #run ahead of it or died with its process.
THEOREM SendTypes == Spec => []TypeOK
<1>1. Inv => TypeOK
  BY DEF Inv
<1>. QED
  BY <1>1, InitInv, NextInv, PTL DEF Spec

\* #jobs and #byKey always lead to each other, whatever #purge and #drop take.
THEOREM KeysLeadToJobs == Spec => []MapsAgree
<1>1. Inv => MapsAgree
  BY DEF Inv
<1>. QED
  BY <1>1, InitInv, NextInv, PTL DEF Spec

\* A letter that is being sent is known to the service, and no other letter
\* under its key is being sent.
THEOREM OneLetterAtATime == Spec => []OneSenderPerKey
<1>1. Inv => OneSenderPerKey
  BY DEF Inv, MapsAgree, SendersAreKept, InFlight, OneSenderPerKey
<1>. QED
  BY <1>1, InitInv, NextInv, PTL DEF Spec

\* A letter is never handed over twice under a key unless the first was
\* forgotten for one of the four reasons; in fact no second job begins.
THEOREM NoSecondLetter == Spec => []SecondLetterHasAReason
<1>1. Inv => SecondLetterHasAReason
  BY DEF Inv, OnlyTheLastIsKept, ForgottenForAReason, Reason, SecondLetterHasAReason
<1>. QED
  BY <1>1, InitInv, NextInv, PTL DEF Spec

\* When drain() is satisfied no job is between its letter and the mail server,
\* and only an abandoned session, whose client knows of the time-out, may still
\* hand one over.
THEOREM DrainIsComplete == Spec => []DrainLeavesTimedOutOnly
<1>1. Inv => DrainLeavesTimedOutOnly
  BY DEF Inv, JobsAgree, Agrees, NoSenderLeft, DrainLeavesTimedOutOnly
<1>. QED
  BY <1>1, InitInv, NextInv, PTL DEF Spec

\* What the client is told of its letter is true: the server has a letter that
\* was "sent", and a refusal that is final is of a letter that the server does
\* not have and that no session can still hand over.
ToldTheTruth ==
    \A j \in Ids :
        /\ job[j].status = "sent" => job[j].handed
        /\ job[j].outcome \in {"auth", "refused"} => ~job[j].handed /\ ~job[j].open

\* So it is in every reachable state, be the session one that timed out.
THEOREM ResultsAreTrue == Spec => []ToldTheTruth
<1>1. Inv => ToldTheTruth
  BY DEF Inv, JobsAgree, Agrees, ToldTheTruth
<1>. QED
  BY <1>1, InitInv, NextInv, PTL DEF Spec

\* No step takes back what a client was told.
LEMMA NothingTakenBack ==
    ASSUME Inv, [Next]_vars, NEW j \in Ids, job[j].status \in {"sent", "failed"}
    PROVE  job'[j].status = job[j].status
<1>1. /\ job \in [Ids -> Jobs] /\ job[j] \in Jobs /\ j \in Used
      /\ job[j].phase \notin {"compose", "smtp"}
  BY DEF Inv, TypeOK, JobsAgree, Agrees, Used
<1>2. CASE UNCHANGED job
  BY <1>2
<1>3. CASE Restart
  BY <1>1, <1>3 DEF Restart, NoJob
<1>4. ASSUME NEW k \in Keys, NEW valid \in BOOLEAN, Submit(k, valid)
      PROVE  job'[j].status = job[j].status
  <2>1. Noted \in [Ids -> Jobs] /\ Noted[j].status = job[j].status
    BY PurgedHaveReasons
  <2>2. CASE job' = Noted
    BY <2>1, <2>2
  <2>3. ASSUME NEW n \in Ids \ Used, job' = [Noted EXCEPT ![n] = NewJob(k)]
        PROVE  job'[j].status = job[j].status
    BY <1>1, <2>1, <2>3
  <2>. QED
    BY <1>4, <2>2, <2>3 DEF Submit
<1>5. ASSUME NEW i \in Ids, KeyExpires(i) \/ ServerAccepts(i) \/ SaveEnds(i)
      PROVE  job'[j].status = job[j].status
  BY <1>1, <1>5 DEF KeyExpires, ServerAccepts, SaveEnds, Jobs
<1>6. ASSUME NEW i \in Ids, Composed(i) \/ CannotCompose(i) \/ SmtpEnds(i)
      PROVE  job'[j].status = job[j].status
  <2>1. i # j
    BY <1>1, <1>6 DEF Composed, CannotCompose, SmtpEnds, Delivered, BookkeepingFails, NotDelivered
  <2>. QED
    BY <1>1, <1>6, <2>1
       DEF Composed, CannotCompose, SmtpEnds, Delivered, BookkeepingFails, NotDelivered
<1>7. CASE Shutdown \/ DrainEnds \/ DrainExpires \/ Reauthorize \/ UNCHANGED vars
  BY <1>2, <1>7 DEF Shutdown, DrainEnds, DrainExpires, Reauthorize, vars
<1>. QED
  BY <1>3, <1>4, <1>5, <1>6, <1>7 DEF Next, Step

\* What a client has been told of a letter is final.
THEOREM ResultsAreFinal == Spec => StatusIsFinal
<1>1. Inv /\ [Next]_vars =>
        [\A j \in Ids : job[j].status \in {"sent", "failed"} => job'[j].status = job[j].status]_vars
  BY NothingTakenBack
<1>. QED
  BY <1>1, InitInv, NextInv, PTL DEF Spec, StatusIsFinal
=============================================================================
