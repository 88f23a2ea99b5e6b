----------------------------- MODULE SendService -----------------------------
(***************************************************************************)
(* SendService: a letter is accepted at once (202) and sent by a job in    *)
(* the background: compose, the SMTP session, then the copy in "Sent".     *)
(* Idempotency keys keep a repeated request from sending a second letter;  *)
(* drain() lets the jobs finish when the server stops.                     *)
(*                                                                         *)
(* The mail server is the environment: "handed" says that it has taken     *)
(* responsibility for the letter of a job, which the client of an SMTP     *)
(* session that breaks or times out cannot know.                           *)
(***************************************************************************)
EXTENDS Integers, FiniteSets

CONSTANTS
    Keys,           \* idempotency keys, given by the client or fingerprints
    MaxJobs,        \* bound on the jobs of a behaviour
    MaxKept,        \* MAX_JOBS
    MaxRestarts,    \* bound on crashes and restarts of the server
    None

ASSUME SendAssumption ==
    /\ None \notin Keys \union (1 .. MaxJobs)
    /\ MaxJobs \in Nat /\ MaxKept \in Nat /\ MaxRestarts \in Nat

VARIABLES
    job,            \* every job of the behaviour, in the order of their ids
    kept,           \* #jobs: the ids the service still knows
    byKey,          \* #byKey
    account,        \* accounts.status, persisted
    proc,           \* the process: "up", "draining", "drained", "gaveUp"
    awaited,        \* the jobs drain() is waiting for
    restarts

vars == <<job, kept, byKey, account, proc, awaited, restarts>>

Ids == 1 .. MaxJobs

\* A job: its key, what the client is told, where #run is, the outcome of the
\* SMTP session, whether the server has the letter, whether sendMail may still
\* hand it over, whether its key has expired, whether it was evicted at
\* the limit, and whether the process died after it was accepted.
NoJob == [key |-> None, status |-> "none", phase |-> "none", outcome |-> "none",
          handed |-> FALSE, open |-> FALSE, expired |-> FALSE, evicted |-> FALSE, crashed |-> FALSE]

NewJob(k) == [NoJob EXCEPT !.key = k, !.status = "sending", !.phase = "compose"]

Used == {j \in Ids : job[j].status # "none"}

\* #inFlight
InFlight == {j \in kept : job[j].status = "sending"}

Finished == {j \in kept : job[j].status \in {"sent", "failed"}}

\* classifySmtpError: the failures a client may repeat under the same key.  The
\* others are "auth", a rejected credential, and "refused", all that is final
\* (recipients, submission switched off, a letter that cannot be composed).
Retryable(outcome) == outcome \in {"transient", "timeout", "bookkeeping"}

Init ==
    /\ job = [j \in Ids |-> NoJob]
    /\ kept = {}
    /\ byKey = [k \in Keys |-> None]
    /\ account = "active"
    /\ proc = "up"
    /\ awaited = {}
    /\ restarts = 0

-----------------------------------------------------------------------------
(* Accepting a letter                                                      *)

\* Faulty: at the limit the oldest jobs are forgotten, running or not.
EvictedWithRunning ==
    LET rest == {j \in kept : ~job[j].expired}
    IN {j \in rest : Cardinality({i \in rest : i < j}) < Cardinality(rest) - MaxKept}

\* The second loop of #purge: above MAX_JOBS, the oldest finished jobs.
Evicted ==
    LET rest == {j \in kept : ~job[j].expired}
        finished == rest \intersect Finished
        excess == Cardinality(rest) - MaxKept
    IN {j \in finished : Cardinality({i \in finished : i < j}) < excess}

\* #purge: the finished jobs whose key has expired, and the evicted ones.
Purged == {j \in Finished : job[j].expired} \union Evicted

\* The jobs, with a note of why the evicted ones are no longer known.
Noted == [j \in Ids |-> IF j \in Evicted THEN [job[j] EXCEPT !.evicted = TRUE] ELSE job[j]]

\* Faulty: the keys of the jobs that are dropped stay behind.
WithKeysLeft(keys, js) == keys

\* #drop, for a set of jobs.
Without(keys, js) == [k \in Keys |-> IF keys[k] \in js THEN None ELSE keys[k]]

\* Faulty: whatever has ended may be sent again.
RepeatAnyFinished(j) == j \in Finished

\* A request with the key of a job of this kind sends the letter again.
MayRepeat(j) == j \in Finished /\ job[j].status = "failed" /\ Retryable(job[j].outcome)

\* submit: purge; replay the known result, or drop what may be repeated,
\* validate, and start a job.
Submit(k, valid) ==
    LET keys == Without(byKey, Purged)
        old == keys[k]
        dropped == Purged \union ({old} \ {None})
    IN
    /\ proc = "up"
    /\ \/ /\ old # None /\ ~MayRepeat(old)
          /\ kept' = kept \ Purged /\ byKey' = keys
          /\ job' = Noted
       \/ /\ old = None \/ MayRepeat(old)
          /\ account # "active" \/ ~valid
          /\ kept' = kept \ dropped /\ byKey' = Without(byKey, dropped)
          /\ job' = Noted
       \/ /\ old = None \/ MayRepeat(old)
          /\ account = "active" /\ valid
          /\ \E j \in Ids \ Used :
                /\ \A i \in Ids \ Used : j <= i
                /\ job' = [Noted EXCEPT ![j] = NewJob(k)]
                /\ kept' = (kept \ dropped) \union {j}
                /\ byKey' = [Without(byKey, dropped) EXCEPT ![k] = j]
    /\ UNCHANGED <<account, proc, awaited, restarts>>

\* The lifetime of a key (24 hours, 5 minutes for a fingerprint) is over; it
\* counts only once the job has finished.
KeyExpires(j) ==
    /\ j \in Finished /\ ~job[j].expired
    /\ job' = [job EXCEPT ![j].expired = TRUE]
    /\ UNCHANGED <<kept, byKey, account, proc, awaited, restarts>>

-----------------------------------------------------------------------------
(* The background job                                                      *)

\* The letter is composed, and the SMTP session begins.
Composed(j) ==
    /\ job[j].phase = "compose"
    /\ job' = [job EXCEPT ![j].phase = "smtp", ![j].open = TRUE]
    /\ UNCHANGED <<kept, byKey, account, proc, awaited, restarts>>

\* Faulty: #run gives up without a word.
CannotComposeSilently(j) ==
    /\ job[j].phase = "compose"
    /\ job' = [job EXCEPT ![j].phase = "over"]
    /\ UNCHANGED <<kept, byKey, account, proc, awaited, restarts>>

\* #fail for a letter that cannot be composed (an attachment is gone).
CannotCompose(j) ==
    /\ job[j].phase = "compose"
    /\ job' = [job EXCEPT ![j].phase = "over", ![j].status = "failed", ![j].outcome = "refused"]
    /\ UNCHANGED <<kept, byKey, account, proc, awaited, restarts>>

\* External: the mail server accepts the letter of a session that is open, be
\* it one whose deadline has passed: withDeadline abandons sendMail and
\* transporter.close() does not stop it.
ServerAccepts(j) ==
    /\ job[j].open /\ ~job[j].handed
    /\ job' = [job EXCEPT ![j].handed = TRUE, ![j].open = (job[j].phase = "smtp")]
    /\ UNCHANGED <<kept, byKey, account, proc, awaited, restarts>>

\* The session ends well, the health of the account is written, and the copy
\* in "Sent" is next.
Delivered(j) ==
    /\ job[j].phase = "smtp" /\ job[j].handed
    /\ job' = [job EXCEPT ![j].phase = "saving", ![j].status = "sent",
                          ![j].outcome = "accepted", ![j].open = FALSE]
    /\ UNCHANGED <<kept, byKey, account, proc, awaited, restarts>>

\* The same, but writing the health throws: submit's catch reports a failure.
BookkeepingFails(j) ==
    /\ job[j].phase = "smtp" /\ job[j].handed
    /\ job' = [job EXCEPT ![j].phase = "over", ![j].status = "failed",
                          ![j].outcome = "bookkeeping", ![j].open = FALSE]
    /\ UNCHANGED <<kept, byKey, account, proc, awaited, restarts>>

\* #recordSmtpHealth: what it does to the account.  (The account's SMTP health
\* is written too; nothing but the user reads it.)
RecordSmtpHealth(outcome) ==
    account' = IF outcome = "auth" THEN "auth_error" ELSE account

\* The session fails.  After "auth" and "refused" the server has answered no;
\* a transient failure or a timeout leaves open whether it has the letter, and
\* the session that timed out goes on.
NotDelivered(j, outcome) ==
    /\ job[j].phase = "smtp"
    /\ outcome \in {"auth", "refused"} => ~job[j].handed
    /\ job' = [job EXCEPT ![j].phase = "over", ![j].status = "failed",
                          ![j].outcome = outcome, ![j].open = (outcome = "timeout")]
    /\ RecordSmtpHealth(outcome)
    /\ UNCHANGED <<kept, byKey, proc, awaited, restarts>>

\* Faulty: a copy that cannot be saved turns the letter into a failed one.
SaveFailsLoudly(j) ==
    /\ job[j].phase = "saving"
    /\ \/ job' = [job EXCEPT ![j].phase = "over"]
       \/ job' = [job EXCEPT ![j].phase = "over", ![j].status = "failed"]
    /\ UNCHANGED <<kept, byKey, account, proc, awaited, restarts>>

\* #saveToSent and the job are over: the copy is appended to "Sent" and its row
\* written, no copy is due (Gmail, no "Sent" folder), or one of the two failed,
\* which is only logged.
SaveEnds(j) ==
    /\ job[j].phase = "saving"
    /\ job' = [job EXCEPT ![j].phase = "over"]
    /\ UNCHANGED <<kept, byKey, account, proc, awaited, restarts>>

\* External: the device code flow makes the account active again.
Reauthorize ==
    /\ account = "auth_error"
    /\ account' = "active"
    /\ UNCHANGED <<job, kept, byKey, proc, awaited, restarts>>

-----------------------------------------------------------------------------
(* The process                                                             *)

\* stopAccepting() and the first look of drain(), in one turn of shutdown().
Shutdown ==
    /\ proc = "up"
    /\ awaited' = InFlight
    /\ proc' = IF InFlight = {} THEN "drained" ELSE "draining"
    /\ UNCHANGED <<job, kept, byKey, account, restarts>>

\* Faulty: drain() looks at nothing.
DrainEndsAtOnce ==
    /\ proc = "draining"
    /\ proc' = "drained"
    /\ UNCHANGED <<job, kept, byKey, account, awaited, restarts>>

\* The jobs drain() waits for have settled; it looks again and finds none,
\* as nothing is accepted any more.
DrainEnds ==
    /\ proc = "draining"
    /\ \A j \in awaited : job[j].phase = "over"
    /\ InFlight = {}
    /\ proc' = "drained"
    /\ UNCHANGED <<job, kept, byKey, account, awaited, restarts>>

\* 80 per cent of the shutdown timeout have passed.
DrainExpires ==
    /\ proc = "draining"
    /\ proc' = "gaveUp"
    /\ UNCHANGED <<job, kept, byKey, account, awaited, restarts>>

\* The process ends, after its drain or by a crash, and a new one starts: its
\* jobs, keys and sessions are gone; what is left of a job is the letter the
\* server may have and what the client was told last.
Restart ==
    /\ restarts < MaxRestarts
    /\ restarts' = restarts + 1
    /\ job' = [j \in Ids |->
                 IF j \in Used
                 THEN [NoJob EXCEPT !.key = job[j].key, !.status = job[j].status,
                                    !.phase = "over", !.handed = job[j].handed,
                                    !.crashed = TRUE]
                 ELSE NoJob]
    /\ kept' = {}
    /\ byKey' = [k \in Keys |-> None]
    /\ proc' = "up"
    /\ awaited' = {}
    /\ UNCHANGED account

-----------------------------------------------------------------------------
Failures == {"refused", "auth", "transient", "timeout"}

SmtpEnds(j) == Delivered(j) \/ BookkeepingFails(j) \/ \E o \in Failures : NotDelivered(j, o)

Step(j) == Composed(j) \/ CannotCompose(j) \/ SmtpEnds(j) \/ SaveEnds(j)

Next ==
    \/ Shutdown \/ DrainEnds \/ DrainExpires \/ Restart \/ Reauthorize
    \/ \E k \in Keys, valid \in BOOLEAN : Submit(k, valid)
    \/ \E j \in Ids : KeyExpires(j) \/ ServerAccepts(j) \/ Step(j)

Spec == Init /\ [][Next]_vars

-----------------------------------------------------------------------------
(* Properties                                                              *)

Jobs == [key : Keys \union {None}, status : {"none", "sending", "sent", "failed"},
         phase : {"none", "compose", "smtp", "saving", "over"},
         outcome : Failures \union {"none", "accepted", "bookkeeping"},
         handed : BOOLEAN, open : BOOLEAN, expired : BOOLEAN, evicted : BOOLEAN,
         crashed : BOOLEAN]

\* The types of the service's state.  A job the service knows is a real one, and
\* the status a client polls says where #run is: no job hangs as "sending".
TypeOK ==
    /\ job \in [Ids -> Jobs]
    /\ \A j \in Ids :
         /\ job[j].phase \in {"compose", "smtp"} => job[j].status = "sending"
         /\ job[j].phase = "saving" => job[j].status = "sent"
         /\ job[j].phase = "over" /\ job[j].status = "sending" => job[j].crashed
    /\ kept \subseteq Used
    /\ byKey \in [Keys -> Ids \union {None}]
    /\ account \in {"active", "auth_error"}
    /\ proc \in {"up", "draining", "drained", "gaveUp"}
    /\ awaited \subseteq Ids
    /\ restarts \in 0 .. MaxRestarts

\* The two maps agree: the key of a kept job leads to it and to no other, so
\* dropping a job never forgets the key of its successor.
MapsAgree ==
    /\ \A j \in kept : byKey[job[j].key] = j
    /\ \A k \in Keys : byKey[k] # None => byKey[k] \in kept /\ job[byKey[k]].key = k

\* A letter that is being sent can be polled, and answers any repeated request:
\* a key never has two jobs that are sending.
OneSenderPerKey ==
    /\ \A j \in Ids : job[j].status = "sending" /\ ~job[j].crashed => j \in kept
    /\ \A i, j \in InFlight : i # j => job[i].key # job[j].key

\* What a second letter under one key takes: its predecessor's key had
\* expired, was evicted at the limit, or was lost with the process, or the
\* predecessor ended in a way that hides whether the letter was handed over.
SecondLetterHasAReason ==
    \A i, j \in Used :
        i < j /\ job[i].key = job[j].key /\ job[i].handed /\ job[j].handed =>
            \/ job[i].expired \/ job[i].evicted \/ job[i].crashed
            \/ job[i].outcome \in {"transient", "timeout", "bookkeeping"}

\* What a client has been told of a letter is final: trouble with its copy
\* never makes a letter that was sent look like one to send again.
StatusIsFinal ==
    [][\A j \in Ids : job[j].status \in {"sent", "failed"} => job'[j].status = job[j].status]_vars

\* When drain() is satisfied no job is still to meet the mail server, and a
\* session that may yet hand its letter over belongs to a job that is over,
\* whose client has been told of the time-out: drain() does not wait for the
\* sendMail that withDeadline has abandoned.
DrainLeavesTimedOutOnly ==
    proc = "drained" => \A j \in Ids :
        job[j].phase \in {"compose", "smtp"} \/ job[j].open =>
            job[j].phase = "over" /\ job[j].status = "failed" /\ job[j].outcome = "timeout"

\* Said by the comment of drain(): it waits so that no letter is delivered and
\* then absent from every folder, its copy and its row not written.
DrainSavesTheCopy ==
    proc = "drained" => \A j \in Ids : job[j].phase # "saving"
=============================================================================
