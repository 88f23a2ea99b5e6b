---------------------------- MODULE EventStream ----------------------------
(***************************************************************************)
(* What a browser shows of the rounds of one account: the rounds publish   *)
(* (sse/syncEvents.ts), the hub carries and replays (EventHub), the client *)
(* reconnects (EventClient), and the page keeps the cached queries and the *)
(* activity entry of the account (server-events-provider.tsx,              *)
(* lib/activity.ts, use-sync-mutation.ts).  Between client and hub is a    *)
(* wire that can be cut with or without an error.                          *)
(***************************************************************************)
EXTENDS EventHub, EventClient

CONSTANTS MaxRounds,       \* bound: clicks and background rounds together
          MaxDisturbances  \* bound: failed attempts, cuts, restarts, ...

VARIABLES wire,      \* idle, calling, up, refused (an error will come), silent
          round,     \* of each tier: none, waiting for the account, running
          found,     \* the running attempt has stored mail
          request,   \* the user's POST under way: none, single or bulk
          running,   \* the activity entry runs: there is one, and it is
                     \* neither settled nor marked stale
          refetch,   \* queries are invalidated and not yet refetched
          stale,     \* the mail has changed since the queries were fetched
          excused,   \* ghost: ... and nobody was there to be told of it
          foreign,   \* ghost: lastId was given by an earlier process
          thrown,    \* ghost: seq when a user's round last threw (0: none did)
          work, disturbances   \* what the bounds count

app == <<round, found, request, running>>
view == <<refetch, stale, excused, foreign, thrown>>
bounds == <<work, disturbances>>
vars == <<hub, client, wire, app, view, bounds>>

Busy == \E t \in Tiers : round[t] = "running"

Init ==
    /\ HubInit /\ ClientInit
    /\ wire = "idle"
    /\ round = [t \in Tiers |-> "none"]
    /\ found = FALSE
    /\ request = "none"
    /\ running = FALSE
    /\ refetch = FALSE
    /\ stale = FALSE
    /\ excused = FALSE
    /\ foreign = FALSE
    /\ thrown = 0
    /\ work = 0 /\ disturbances = 0

Disturb == disturbances < MaxDisturbances /\ disturbances' = disturbances + 1
Worked == work < MaxRounds /\ work' = work + 1 /\ UNCHANGED disturbances

-----------------------------------------------------------------------------
(* The rounds of the account. *)

(* tryRunRound() of the background tier: start is published before the     *)
(* lock is asked for, and the lock is free.                                *)
BackgroundRound ==
    /\ ~Busy
    /\ Worked
    /\ round' = [round EXCEPT !["background"] = "running"]
    /\ Publish("start", "background")
    /\ UNCHANGED <<window, attached, halfOpen, client, wire, found, request, running, view>>

(* runRound() of a tier the user started: start is published at once, even *)
(* if the round then waits for the account behind another.                 *)
UserRound ==
    /\ round["user"] = "none"
    /\ round' = [round EXCEPT !["user"] = IF Busy THEN "waiting" ELSE "running"]
    /\ Publish("start", "user")
    /\ UNCHANGED <<window, attached, halfOpen>>

(* An attempt stores new mail. *)
Stores ==
    /\ Busy /\ ~found
    /\ found' = TRUE
    /\ stale' = TRUE
    /\ UNCHANGED <<hub, client, wire, round, request, running, refetch,
                   excused, foreign, thrown, bounds>>

(* The attempt fails and is repeated: sync:retry.  The mail it stored is   *)
(* in no result: the next attempt does not find it new.                    *)
Retries(t) ==
    /\ round[t] = "running"
    /\ Disturb
    /\ Publish("retry", t)
    /\ found' = FALSE
    /\ excused' = (excused \/ found)
    /\ UNCHANGED <<window, attached, halfOpen, client, wire, round, request, running,
                   refetch, stale, foreign, thrown, work>>

(* The round is over, and the lock passes to one that waits. *)
Leaves(t) ==
    /\ round[t] = "running"
    /\ round' = [u \in Tiers |->
                   IF u = t THEN "none"
                   ELSE IF round[u] = "waiting" THEN "running" ELSE round[u]]
    /\ found' = FALSE

(* #emitResult: done or error at once, message:new through the window. *)
RoundEnds(t) ==
    /\ Leaves(t)
    /\ Publish("done", t)
    /\ window' = (window \/ found)
    /\ UNCHANGED <<attached, halfOpen, client, wire, request, running, view, bounds>>

(* The round throws (its bookkeeping cannot be written): #emitResult is     *)
(* skipped, so the start that was published gets no end, and what was       *)
(* stored is not announced.  The caller logs it.                            *)
RoundThrows(t) ==
    /\ Leaves(t)
    /\ Disturb
    /\ excused' = (excused \/ found)
    /\ thrown' = IF t = "user" THEN seq ELSE thrown
    /\ UNCHANGED <<hub, client, wire, request, running, refetch, stale, foreign, work>>

(* #emitResult itself throws after the end was published: the ids of the   *)
(* new mail cannot be read.                                                *)
AnnouncementFails(t) ==
    /\ Leaves(t)
    /\ Disturb
    /\ found
    /\ Publish("done", t)
    /\ excused' = TRUE
    /\ UNCHANGED <<window, attached, halfOpen, client, wire, request, running,
                   refetch, stale, foreign, thrown, work>>

(* A page that has never had a stream has no refetch to come. *)
Flushes ==
    /\ WindowEnds
    /\ excused' = (excused \/ (~everOpen /\ ~attached))
    /\ UNCHANGED <<client, wire, app, refetch, stale, foreign, thrown, bounds>>

-----------------------------------------------------------------------------
(* The user's click. *)

(* onMutate: the entry runs before the request is sent. *)
Click(kind) ==
    /\ request = "none"
    /\ Worked
    /\ request' = kind
    /\ running' = TRUE
    /\ UNCHANGED <<hub, client, wire, round, found, view>>

(* POST /accounts/:id/sync of an account that is syncing: 202, and no      *)
(* round of its own.  onSuccess has nothing to settle.                     *)
AlreadyRunning ==
    /\ request = "single" /\ Busy
    /\ request' = "none"
    /\ UNCHANGED <<hub, client, wire, round, found, running, view, bounds>>

(* ... of one that is not, or POST /accounts/sync: 202, and a round. *)
Accepted ==
    /\ request = "bulk" \/ (request = "single" /\ ~Busy)
    /\ request' = "none"
    /\ UserRound
    /\ UNCHANGED <<client, wire, found, view>>

Answered == Accepted /\ UNCHANGED <<running, bounds>>

(* onError settles the entry, whether the request was lost on its way or   *)
(* its answer on the way back.                                             *)
AnswerLost == Accepted /\ Disturb /\ running' = FALSE /\ UNCHANGED work

RequestFails ==
    /\ request # "none"
    /\ Disturb
    /\ request' = "none"
    /\ running' = FALSE
    /\ UNCHANGED <<hub, client, wire, round, found, view, work>>

-----------------------------------------------------------------------------
(* The stream. *)

TicketComes ==
    /\ Ticket
    /\ wire' = "calling"
    /\ UNCHANGED <<hub, app, view, bounds>>

StrayComes == StrayAnswer /\ UNCHANGED <<hub, wire, app, view, bounds>>

TicketFails ==
    /\ Disturb
    /\ NoTicket
    /\ UNCHANGED <<hub, wire, app, view, work>>

Reconnects == TimerFires /\ UNCHANGED <<hub, wire, app, view, bounds>>

(* GET /events with a good ticket. *)
Registers ==
    /\ wire = "calling"
    /\ Add(lastId)
    /\ wire' = "up"
    /\ UNCHANGED <<client, app, view, bounds>>

(* ... when the user has as many streams as allowed: 429. *)
IsTurnedAway ==
    /\ wire = "calling"
    /\ ~HasRoom
    /\ wire' = "refused"
    /\ UNCHANGED <<hub, client, app, view, bounds>>

(* Faulty: a reconnection relies on the replay alone. *)
OpensQuietly ==
    /\ wire = "up"
    /\ Opened
    /\ UNCHANGED <<hub, wire, app, view, bounds>>

(* onopen, with onReconnected if it is not the first. *)
Opens ==
    /\ wire = "up"
    /\ Opened
    /\ refetch' = (refetch \/ everOpen)
    /\ UNCHANGED <<hub, wire, app, stale, excused, foreign, thrown, bounds>>

(* An event is read: the entry follows those that are not background's     *)
(* (activityFromEvent), the queries those that tell of mail.               *)
Reads ==
    /\ channel # <<>>
    /\ LET event == Head(channel)
       IN  /\ Receive(event.id)
           /\ running' = IF event.tier = "user" /\ event.kind \in {"start", "done"}
                         THEN event.kind = "start" ELSE running
           /\ refetch' = (refetch \/ event.kind = "new")
    /\ channel' = Tail(channel)
    /\ foreign' = FALSE
    /\ UNCHANGED <<seq, history, window, attached, halfOpen, wire, round, found, request,
                   stale, excused, thrown, bounds>>

(* invalidateQueries() has fetched what is there now. *)
Refetches ==
    /\ refetch
    /\ refetch' = FALSE
    /\ stale' = FALSE
    /\ excused' = FALSE
    /\ UNCHANGED <<hub, client, wire, app, foreign, thrown, bounds>>

(* What a stream that is gone takes along, if nothing will refetch it. *)
Untold == ~everOpen /\ \E i \in DOMAIN channel : channel[i].kind = "new"

(* The wire is cut: the browser is told (refused) or not (silent). *)
Cut(how) ==
    /\ wire \in {"calling", "up"}
    /\ Disturb
    /\ wire' = how
    /\ Abandon
    /\ excused' = (excused \/ Untold)
    /\ UNCHANGED <<client, app, refetch, stale, foreign, thrown, work>>

(* onerror, or no heartbeat on a wire that is silent. *)
GivesUp ==
    /\ wire \in {"refused", "silent"}
    /\ GiveUp
    /\ wire' = "idle"
    /\ UNCHANGED <<hub, app, view, bounds>>

Notices == Notice /\ UNCHANGED <<client, wire, app, view, bounds>>

(* The server stops, its rounds with it, and starts again. *)
Crash ==
    /\ Disturb
    /\ Restart
    /\ wire' = IF wire \in {"calling", "up"} THEN "refused" ELSE wire
    /\ round' = [t \in Tiers |-> "none"]
    /\ found' = FALSE
    /\ excused' = (excused \/ (~everOpen /\ stale))
    /\ foreign' = (foreign \/ lastId # NoId)
    /\ thrown' = 0
    /\ UNCHANGED <<client, request, running, refetch, stale, work>>

-----------------------------------------------------------------------------
(* The page. *)

(* The tab has been hidden for HIDDEN_DISCONNECT_MS. *)
Disconnects ==
    /\ ~stopped
    /\ Disturb
    /\ Stop
    /\ wire' = "idle"
    /\ Abandon
    /\ excused' = (excused \/ Untold)
    /\ UNCHANGED <<app, refetch, stale, foreign, thrown, work>>

(* It is visible again: start(), and a refetch of everything.  (A return   *)
(* before that calls retryNow(), which at most fires the timer early.)     *)
Restarts ==
    /\ Start
    /\ refetch' = TRUE
    /\ UNCHANGED <<hub, wire, app, stale, excused, foreign, thrown, bounds>>

(* tick(), when the link has been offline: the entry becomes stale.        *)
(* A stale or settled entry goes away in time.                             *)
GoesStale ==
    /\ source # "open"
    /\ running
    /\ running' = FALSE
    /\ UNCHANGED <<hub, client, wire, round, found, request, view, bounds>>

-----------------------------------------------------------------------------
Ends == \E t \in Tiers : RoundEnds(t)
Server ==
    \/ BackgroundRound \/ Stores \/ Flushes \/ Notices \/ Crash
    \/ Ends \/ \E t \in Tiers : Retries(t) \/ RoundThrows(t) \/ AnnouncementFails(t)

User ==
    \/ \E kind \in {"single", "bulk"} : Click(kind)
    \/ AlreadyRunning \/ Answered \/ AnswerLost \/ RequestFails
    \/ Disconnects \/ Restarts

(* The way to a stream: at most one of these is possible at a time. *)
Advances ==
    \/ TicketComes \/ Reconnects \/ Registers \/ IsTurnedAway \/ Opens \/ GivesUp

Stream ==
    \/ Advances \/ StrayComes \/ TicketFails
    \/ Reads \/ Refetches \/ GoesStale
    \/ \E how \in {"refused", "silent"} : Cut(how)

Next == Server \/ User \/ Stream

(* Timers fire, requests and rounds end, what was written arrives on a     *)
(* wire that holds, and the server notices dead sockets (keepalive, or the *)
(* next heartbeat's write).  Nobody has to click, hide or return.          *)
Fairness ==
    /\ WF_vars(Ends) /\ WF_vars(Notices)
    /\ WF_vars(AlreadyRunning \/ Answered)
    /\ WF_vars(Advances) /\ WF_vars(Reads) /\ WF_vars(GoesStale)

Spec == Init /\ [][Next]_vars /\ Fairness
-----------------------------------------------------------------------------
(* Types of the hub, the client and the page; the streams of a user stay   *)
(* within the limit (hub.ts:147), and the wire is up when the hub says so. *)
TypeOK ==
    /\ HubTypeOK /\ ClientTypeOK
    /\ wire \in {"idle", "calling", "up", "refused", "silent"}
    /\ wire = "up" <=> attached
    /\ wire = "idle" <=> source = "none"
    /\ round \in [Tiers -> {"none", "waiting", "running"}]
    /\ \A t, u \in Tiers : round[t] = "running" /\ round[u] = "running" => t = u
    /\ request \in {"none", "single", "bulk"}
    /\ {found, running, refetch, stale, excused, foreign} \subseteq BOOLEAN
    /\ thrown \in Nat

(* A page with a stream, with nothing under way that would tell it, shows  *)
(* the mail there is, however the wire was cut, the server restarted or    *)
(* the page hidden; but for mail of an attempt that was repeated, of a      *)
(* round that threw or could not announce it, and mail announced before    *)
(* the page's first stream (hub.ts:140-143 and                             *)
(* server-events-provider.tsx:139: the replay and the refetch complement   *)
(* each other).                                                            *)
NothingMissed ==
    /\ source = "open" /\ wire = "up"
    /\ ~refetch /\ ~window /\ ~found
    /\ \A i \in DOMAIN channel : channel[i].kind # "new"
    => (stale => excused)

(* An end of the user's round is still to come to this page. *)
Settles(event) == event.kind = "done" /\ event.tier = "user"
OnItsWay ==
    \/ request \in {"single", "bulk"}
    \/ round["user"] # "none"
    \/ IF wire = "up" THEN \E i \in DOMAIN channel : Settles(channel[i])
       ELSE \E i \in DOMAIN Replay(lastId) : Settles(Replay(lastId)[i])

Lost == running /\ ~OnItsWay

(* The history reaches back to the last event the browser has read. *)
Resumable == lastId # NoId /\ ~foreign /\ seq - lastId <= Len(history)

(* The start of a user's round that ended by throwing is read. *)
ReadsOrphan == Reads /\ Head(channel).kind = "start" /\ Head(channel).id <= thrown

(* A running entry is left without its end in three ways: the click joined *)
(* a background round, whose end the activity list ignores; the round      *)
(* threw, and there is none (or its start is read afterwards); or the      *)
(* browser cannot resume: it has read no event yet, or none of this        *)
(* process, or the history has dropped one since.                          *)
LostForAReason ==
    [][~Lost /\ Lost' =>
         AlreadyRunning \/ RoundThrows("user") \/ ReadsOrphan \/ ~Resumable']_vars

(* Any other entry stops running (hub.ts:140-142, activity.ts:98-110).     *)
EntriesEnd == running ~> (~running \/ Lost)

SpinnerEnds == LostForAReason /\ EntriesEnd
=============================================================================
