# FireMail v2: a verification project in TLA+

FireMail v2 is a self-hosted mail client: a Node server that keeps a local mirror of many
IMAP accounts in SQLite, sends mail over SMTP, and pushes what changes to a React front end
over server-sent events. This directory holds TLA+ modules that model its core, TLC
configurations that check them on small instances, and TLAPS proofs of the properties that
matter most for every instance. Paths below are relative to `apps/server/src/` unless they
start with `apps/`, `packages/` or `docs/`.

How to read it: `PROJECT.json` lists components, runs, mutants, findings, hazards, theorems and,
under `map`, the source lines each definition models. Operators whose comment begins with
`Faulty:` are plausible bugs of the code beside them; a run with one in place must violate the
property it is listed for. No specification uses them.

## 1. The system

One Node process. JavaScript runs one job at a time, so shared state changes only between
awaits; every hazard comes from what happens at an await, from time-outs, from network peers,
and from the end of the process. SQLite is used synchronously: a transaction is atomic.

| Component | State | Operations | Talks to |
|---|---|---|---|
| Execution layer (`sync/runner.ts`, `concurrency.ts`) | per-account lock chains, the count and the queue of the connection pool | `runRound`, `tryRunRound` | scheduler above, `syncAccount` below |
| Retry loop (`sync/attempts.ts`, `policy.ts`) | one round's attempt number, deadline | `runRound` | pool, `syncAccount`, sleep |
| Scheduler (`sync/scheduler.ts`, `escalation.ts`, `suspension.ts`, `cooldown.ts`) | tick in progress, pause depth, resume delays, due times, streaks; in SQLite: suspensions, `sync_enabled` | `start`, `stop`, `tick`, `syncAll`, `syncNow`, `resume`, `resetSchedule` | routes, runner, SSE hub |
| Account sync (`sync/accountSync.ts`, `authStrikes.ts`) | account status, last error, strikes, `sync_runs` | `syncAccount`, `recordSyncFailure` | IMAP, token service |
| Folders and messages (`sync/folderSync.ts`, `folders.ts`, `messageStore.ts`) | folder cursor (UIDVALIDITY), message rows with UID and flags | scan, fetch, relink, flag, mark vanished | IMAP, SQLite |
| Message actions (`services/messages.ts`, `routes/messages.ts`) | the same rows | flag, move, delete, restore | IMAP, SSE hub |
| Send (`services/send.ts`) | jobs, idempotency keys, accepting or not | `submit`, `get`, `drain` | SMTP, IMAP APPEND, accounts |
| OAuth (`auth/oauth/*`) | tokens in SQLite, refreshes in flight, device flows | `getAccessToken`, `forceRefresh`, `start`, `cancel`, poll | Microsoft |
| Events (`sse/*`, `apps/web/src/lib/sse.ts`, providers) | clients, coalescing windows, history, tickets; in the browser: connection, last id, activity entries | `publish`, `publishCoalesced`, `connect` with replay; `connect`, `stop`, heartbeat, backoff | rounds, browser |
| Mail actions of the page (`apps/web/src/hooks/mail/*`, `lib/mail/cache.ts`) | the query cache, requests under way, toasts | mark, move, undo, retry, roll back, read an event | routes, events |
| Sessions, users, accounts, attachments, search, mime, providers, crypto, db, config, web views | mostly SQLite rows or nothing | CRUD, pure functions | |

What is hard, and what makes each part correct:

- **Execution layer.** The semaphore frees a slot in one microtask and the waiter takes it in
  another; queues are both FIFO and priority; a lock spans retries and sleeps. Correct means: the
  connection limit and per-account exclusion hold, no wake-up is lost, an interactive round is
  first, a failure is reported once and only when the round is over, every round ends.
- **Retry loop.** Three clocks (budget, attempt, backoff) and a stop that cuts sleeps short.
  Correct means: the budget, and the few exchanges nothing cuts, bound what a round costs its neighbours,
  and a round gives up for a reason that it states.
- **Scheduler.** Three tiers that interleave, bulk calls that overlap, a candidate list that goes
  stale, a persisted decision beside an in-memory streak, a stop in the middle of everything.
  Correct means: the background tier is serial and stays out while a bulk call runs, nobody is
  starved, only background failures suspend, what is announced is true, stop returns.
- **Send.** The client retries, SMTP time-outs do not stop the session, keys expire or are evicted,
  the process dies. Correct means: a second letter always has one of a known list of reasons, a
  status once told is final, the maps agree, a drain leaves behind only the sessions of letters that have
  timed out.
- **Mirror of the mailbox.** Local state read before an await and used after it, user actions racing
  the sync, a folder rebuilt under a new UIDVALIDITY, a crash between the detached UIDs and the
  cursor. Correct means: a round nobody disturbs makes the rows what the server has, whatever came
  before; counters follow rows; a row's content is never replaced by another letter's.
- **OAuth.** One refresh for all callers, rotation of the refresh token, a device flow and pasted
  tokens that replace the row under a refresh, rounds that write their verdict over whatever is
  there. Correct means: the server never spends a token it has rotated itself, a red mark has a
  reason and goes when the reason has gone, no flow polls for ever.
- **Events.** Coalescing, bounded history, ids that restart with the server, a connection that dies
  silently, two sides that find out at different times. Correct means: one connection at a time, no new
  letter the page is not told of without a known reason, and no entry that "runs" for ever without one.
- **Mail actions of the page.** The change is shown before it is asked for; its answer, its event, a
  refetch and the next action all write to one cache. Correct means: when all has come back, the
  screen shows what the server has; what is taken back has not happened.

The hazards are listed one by one, at their lines, in `PROJECT.json`.

## 2. Modules

```
SyncGate            abstract promise of the execution layer
  ^ refined by
SyncPool            locks, semaphore, attempts; microtask order         MCSyncPool
  ^ proofs          SyncPoolProofs
RetryRound          the clock of one round                              RetryRoundProofs
SyncScheduler       the three tiers; a round is one step                MCSyncScheduler
  ^ proofs          SyncSchedulerProofs
SequenceSets        the members and the order of a queue, for these two proofs
DueTime             the instants behind SyncScheduler's "due"; operators, proved about there too
MailboxSync         folders, their rows, a round, requests              MCMailboxSync
  ^ proofs          MailboxSyncProofs
AccountTokens       the grant and the status of one account             AccountTokensProofs
SendService         jobs, keys, SMTP sessions, shutdown                 MCSendService
  ^ proofs          SendServiceProofs
EventHub            the server's end of the event stream   \
EventClient         the browser's end of it                 > composed by EventStream
EventStream         rounds, wire, activity list            /            EventStreamProofs
MailActions         optimistic actions, routes, events, query cache     MailActionsProofs
```

A module without an MC module is instantiated by its `.cfg` alone.

**SyncPool** has one action per promise reaction. `micro` is the microtask queue: actions
of the environment (a request, the end of the network exchange, a timer) need it empty, a
microtask action needs its round at the head. `chain` is the promise chain of `KeyedMutex`,
`waiting` and `active` are the semaphore's fields. `AttemptEnds` is the whole of `syncAccount`
seen from outside: ok, an error it reports, or an exception. The retry budget is a choice: a
background round may find its budget used up at the two points where the code tests it.
Interactive and bulk rounds have an infinite budget.

**RetryRound** has what SyncPool leaves out: the instants. The wait for the pool is any delay up
to `MaxPoolWait`, the backoff any value `computeBackoffMs` can return, including the server's own
advice; `Stop` cuts any sleep short, once and for all. An attempt connects, syncs and closes. Its
limit closes the connection there is (`accountSync.ts` 71-76), so while one is still awaited it closes
nothing, and it fires once: connecting takes any time up to `MaxConnect` (token, TCP and greeting have
time-outs of their own), and what follows a limit that has passed, and a LOGOUT, up to `MaxExchange`
each. That an exchange nobody cuts ends at all is an assumption about the network, or ImapFlow's socket
time-out.

**SyncScheduler** takes a round as one step (SyncPool justifies it: the account's lock is held from
the first attempt to the last). `lock` is the chain of the mutex with the tier that owns each
round; `Walk` is the loop of `#runTick` from one await to the next and reads `left`, the rows
the tick read when it began. Time is the Boolean `due` of each account. `Restart` may happen at
any moment and keeps what is in SQLite.

**SendService** has `job`, a record per accepted letter, with the phase of `#run`; `handed` and
`open` belong to the mail server: whether it has taken the letter, and whether a session may still
hand it over, which goes on after the deadline of the client and after a drain. `expired`, `evicted` and `crashed`
note why a job is no longer known; nothing but the properties reads the last two. The APPEND to
"Sent" is one step, `SaveEnds`.

**MailboxSync** sets the server's folders (`box`, `uidNext`, `validity`) beside SQLite (`rows`, `cursor`,
`unread`). A step is what the code does between two exchanges with the server, and the server's
answer is a step of its own, so everything the code read before an exchange is old when it is
used. The round is `Select` (the server's answer to SELECT), `Open` (UIDs are detached under a new
UIDVALIDITY, the local UIDs are read, a full scan is decided on or not), `Scan`, `FetchAndStore` (a batch; a row
without UID is claimed by Message-ID), `NothingNew` with its conclusion (vanished rows, flags,
cursor, counters). Requests (`Ask`, `ServerActs`, `WriteBack`, `MarkDeleted`) are the message actions
and the APPEND of a sent letter. `quiet`, `crossed` and `lagging` are ghosts: which folders a round
has had to itself, which rows carry a UID of another UIDVALIDITY, which counters a broken round
left behind.

**AccountTokens** has one row, Microsoft's view of every refresh token (`fate`), the refresh each caller
leads or waits for, the round, the strikes, the device flows. `Exchanged` is the token endpoint: it
rotates, keeps, refuses, or its reply is lost after the exchange. `Paste`, `Switch`, `Remove`, `Revoke`
and `Crash` may come at any moment, and so may `SmtpRefused`, the verdict of `send.ts` 508-513: it writes
the same status after a single refusal, and no strike. A round that is refused when the connection
stands already brings an error without the mark that the credentials were in hand (`round.resolved`).
A round is one attempt; time is counted in polling intervals.

**EventStream** joins `EventHub` (ids, history, windows, connections counted against the limit, tickets)
and `EventClient` (generation, ticket request, stream, heartbeat, backoff) over a wire that can be cut
with or without an error, and adds the rounds that publish, the user's clicks, and the activity entry of
the account. A round that throws after its `sync:start` (`RoundThrows`; the mirror is written by then, as far
as it came) or whose result cannot be announced (`AnnouncementFails`) leaves no end and no `message:new`
behind: `syncEvents.ts` 64-71 and 81-96 have neither `catch` nor `finally`, and the routes log the error only.
`excused`, `foreign` and `thrown` are ghosts.

**MailActions** has the server's rows (`truth`), the cached list of each view and the cached letters
(`lists`, `details`), the fetch of the shown list, the actions the user has set off (`plans`) and the
events the hub still holds back (`windows`). `Mutate` is `onMutate` with the first request, `Hear` an answer
with what follows it (next request, `onSuccess`, or `onError` with the rollback, then `onSettled`),
`ReadEvent` the end of a window and `useMailEvents`. A request that is lost may have reached the server, which does
not follow the client's signal (`services/messages.ts` 290-292): it is `Abandoned`, and `ServeLate` carries it out at
any later moment, with its event and without a refetch. The cache is react-query's as the code uses it
(external): `setQueryData` clears the invalid mark, `invalidateQueries` refetches the list on the screen
only, `cancelQueries` drops an answer that was on its way.

**DueTime** has no behaviour: `Interval`, `DueFor`, `FromGrid` and `FromNow` are the functions the scheduler
computes with, and the theorems about them in SyncSchedulerProofs say why SyncScheduler may treat an account as due or not due.

**SyncGate** is what callers may rely on: a round asks, owns its account, connects and disconnects,
is blamed, leaves; at most `Limit` are connected. Queues, microtasks and retries are invisible.

## 3. Runs

| Run | Instance | Shows |
|---|---|---|
| `sync_pool` | 4 rounds, 3 accounts, limit 1, 2 attempts | 6 invariants, every round ends, SyncGate is implemented |
| `retry_round` | budget 12, slice 2, attempt 8, 3 attempts, pool wait up to 3, connecting up to 4, an uncut exchange 1 | 3 invariants, a round ends |
| `scheduler` | 2 accounts, 2 overlapping bulk calls, 1 restart, threshold 2 | 4 invariants, 1 action property, 3 liveness properties |
| `scheduler_stop` | the same, no restart | *violation*: `stop()` does not wait for interactive and bulk rounds |
| `send_service` | 2 keys, 3 jobs, `MAX_JOBS` 1, 1 restart | 5 invariants, statuses are final |
| `send_drain` | the same | *violation*: the drain does not wait for the copy in "Sent" |
| `mailbox_sync` | 2 folders, 2 letters (one without Message-ID), 2 requests, 3 disturbances | a quiet round repairs, counters follow rows, content is kept |
| `account_tokens` | round and one other caller, 2 flows, 2 attempts, threshold 2, 3 disturbances (a flow that starts is one) | rotation is safe, red is deserved or of a named kind, flows end, and undeserved red while rounds come |
| `account_switch` | the same | *violation*: a round switches an account on that its owner has switched off |
| `event_stream` | history 2, 2 connections, 2 rounds, 2 disturbances | one way at a time, nothing missed and entries end, but for named reasons |
| `mail_actions` | 2 letters, 2 actions, 2 views, 1 disturbance | the screen is true when all has come back, but for named cases |
| `mail_rollback` | 2 letters, 1 action | *violation*: a rollback takes back what has happened |

What the less obvious properties say, and the exceptions TLC made them name:

- `QuietRoundRepairs`: not the content of a row whose UID was given under another UIDVALIDITY
  (`crossed`: message actions do not check UIDVALIDITY, so a UID a move has just been given may be
  written after the folder was rebuilt), and flags only of folders that are small or have UID gaps:
  others are not reconciled in a round. The proof found two more exceptions. In a folder that is not reconciled, a
  row with a foreign UID counts like any other in the comparison of the numbers of letters, and so can hide that a
  letter is still to be fetched. And two letters with one Message-ID cannot be told apart (`SameLetter`):
  a row may be claimed for the other one.
- `CountsFollowRows`: not after a round that broke off, nor when a request has read one folder and its row
  has moved to another meanwhile (`#setFlag` refreshes the folder it read).
- `OverrunIsBounded`: not the budget alone. An attempt's limit is computed before the wait for the pool, so that wait
  is added; and `Uncut` is: the LOGOUT, or, if connecting can outlast the shortest limit, the rest of the connecting, the
  exchange after it and the LOGOUT.
- `DrainLeavesTimedOutOnly`: a drain waits for jobs, not for the `sendMail` that `withDeadline` has left behind. A session
  that is open afterwards is one of a letter whose client has been told of the time-out, and may still deliver it.
- `RedIsDeserved`: three marks do not wait for `Threshold` refusals, and each is named. A late terminal verdict on a
  replaced token (`AboutAnother`): a refresh keeps the token it loaded through its retries. A refusal in mid-session
  (`LateRefusal`). A refusal by the SMTP server (`SmtpRefused`). So what the strikes protect from is the refusal
  at the door of the mailbox, and no more. `EndsByItself` shows that an undeserved mark heals, on the condition that is
  in the property: that rounds begin again and again. A disabled account, or one whose suspension keeps it out, stays red.
  Its other half is that every flow ends, the one that a second start has made unreachable included.
- `NothingMissed`: but mail of an attempt that failed and was repeated (no result has it), mail of a round that threw or
  could not be announced, and mail announced before the first stream (a client that has read no event is
  replayed nothing, and the first open does not refetch).
- `SpinnerEnds`: an entry can lose its end when the click was answered `already_running` by a background
  round, whose `sync:done` the activity list ignores; when the history cannot be resumed: dropped, or of
  an earlier process, since ids start again at 1; or when the round threw, which has published its start
  and never an end. Such an entry goes only when the link goes offline, or with the end of a later round.
- `ScreenIsTrue`: not a list opened from the cache and not fetched since (`unsure`), not a letter whose row a late
  event has changed after the last fetch (`astray`), not one that an abandoned request has changed behind a fetch's
  answer, or brought into the view on the screen, since the last fetch (`overtaken`: the event of a move adds no row),
  and, for the cached letters, which nothing fetches again within a minute, not after a partial failure, an overlapping
  rollback or a late event (`doubtful`).

Bounds, and why they suffice. `sync_pool`: one slot makes every second round wait, and four rounds
give a pool queue with both priorities and an account queue at once; two attempts are one retry,
and a third adds nothing but the same step again; the invariants are proved for all values
anyway. `retry_round`: the numbers are not in proportion to the real ones but in their order, slice < attempt
< budget, with a backoff that fits and one that is clipped, and connecting can outlast the shortest limit. `scheduler`: two accounts are what the
tick needs to have a next one; the two bulk calls overlap on an account and not on the other;
the streak stops at its threshold, from which every failure decides the same. `send_service`:
three jobs are an original and two repeats, or two letters of one key and one of another, above
a limit of one; requests, keys and jobs are otherwise unconstrained.
`mailbox_sync`: two folders are what a move needs, and the trash and the sent folder have rules of
their own; `MaxUid` 2 leaves room for one letter more than a folder begins with, so for a gap, a
collision and a claim; `MaxValidity` 2 is one rebuild; `BatchSize` 1 makes two letters two batches;
`ReconcileMax` 1 puts a folder on either side of the limit; three disturbances are two requests and
one thing that goes wrong, or a request, a rebuild and a crash (2.6 million states). `account_tokens`: two
attempts are one retry, two strikes are a threshold, `Deadline` 2 with one tolerated failure is a
flow that slows down and one that runs out; two flows are a second start, which leaves the first one an
orphan; six tokens are more than three disturbances can use up (197,000 states). `event_stream`: a history of 2 is overrun by the three events of a round, two connections
are a dead one and its successor; two rounds are a click and a background round (923,000 states).
`mail_actions`: two letters are a selection that succeeds in part, two actions are an action and its undo,
its retry or one that overlaps it; one disturbance is a refusal, a loss (with the request carried out later, or not at all) or
a failed fetch (3.6 million states).
Deadlock is checked in the runs of `MailActions` only: rounds, letters, streams and the process really come to an
end in the others.

Fairness. `SyncPool`: microtasks run, timers fire, and an attempt ends: its deadline closes the
connection (`accountSync.ts` 71), and while it connects, or when the deadline has passed unheard, the time-outs of
the provider and of the IMAP client end it. `RetryRound`: time passes and what is due happens.
`SyncScheduler`: the interval timer, the gap and the resume delay fire, an account's due time comes, and a
round ends, which is what `EveryRoundEnds` establishes one level below. No fairness is
assumed of users, of a stop or of a restart. `EveryAccountIsPolled` holds because the
bulk calls of a behaviour are finitely many: a user who never stops calling `syncAll` does keep
the background tier out for ever, and that is the intention of the code.
`AccountTokens`: requests to Microsoft are answered or time out, timers of a flow fire, and a round that runs
ends. That one begins is not assumed: the property that needs rounds says so.
`EventStream`: rounds and requests end, the client's timers and its ticket request end, what was written
arrives on a wire that holds, the server notices a dead socket at its next write, the activity list's
timer ticks. `MailboxSync` and `MailActions` state no fairness: their properties are safety, of the moments
when nothing is under way.

## 4. Findings

1. **`scheduler.ts` 200** (`scheduler_stop`). `stop()` waits for the tick and the resume delays only, while the
   shutdown (`index.ts` 86) says it waits for the syncs that are running before it closes the database.
2. **`send.ts` 282** (`send_drain`). A drain that begins after the delivery and before the copy is saved does
   not wait, which is the case its own comment (245-247) gives as its purpose.
3. **`accountSync.ts` 274** (`account_switch`). A round that was under way when the owner switched the account off
   writes `active`, `error` or `auth_error` at its end and so switches it on; `sync/suspension.ts` 10-12 and
   `tokenStore.ts` 176 say it stays off.
4. **`apps/web/src/hooks/mail/use-message-actions.ts` 329** (`mail_rollback`). A move over several accounts is one
   request for each; when a later one is refused as a whole, the error ends the loop and everything is
   rolled back, what has moved too, and "retry" repeats all of it. The comment on line 337 and
   `routes/messages.ts` 118 say that a rollback means that nothing happened.

Met while modelling, and not the subject of a run:

- `attempts.ts` 119 clips a backoff so that exactly `MIN_ATTEMPT_SLICE_MS` is left, and line 87 gives up at `<=`:
  after a clipped backoff no attempt follows, though line 105 says the rest is for the next one.
- `scheduler.ts` 366: a success ends the streak and leaves the persisted suspension, though the table in
  `docs/architecture.md` (line 157) can be read as saying that it lifts it.
- `scheduler.ts` 417-430: a `resetSchedule` during the account's round is lost, for the round reschedules at its end
  from the row it began with; and so is one that comes while a tick holds the row it read (292-300): the due time is
  computed again, from the old interval.
- `accountSync.ts` 71-76: the signal that limits an attempt closes `client`, which is null while `deps.connect` is awaited, and
  its listener is used up by then. The round overruns its budget by what connecting and listing take.
- `accountSync.ts` 267-270: an authentication error in mid-session has no `credentialsResolved` mark, which only the failures of
  `connectImap` get, and marks the account red at once, although `providers/failures.ts` 167-171 takes the absence of the mark
  to mean that the grant itself was refused, and `authStrikes.ts` 6-12 says that one refusal proves nothing.
- `services/send.ts` 512: one refusal by the SMTP server writes `auth_error` for the whole account, past the strikes and, like a
  round, over a `disabled` of the owner.
- `sse/syncEvents.ts` 64-71, 81-96: a round that throws has published `sync:start` and publishes no end; mail it had stored is
  not announced, by this round or a later one.
- `services/messages.ts` 290-292: a request whose exchange broke is carried out all the same, after the page has rolled it back; the
  event of a move takes a row out of a list and never puts one in (`lib/mail/cache.ts` 90-100), so a letter that comes
  back into the view on the screen is missing there until the next fetch.
- `services/send.ts` 573-588: a `sendMail` that has timed out goes on after the drain, and may deliver a letter that is
  reported as failed.
- `services/messages.ts` 338-339: a row whose new UID collided stays without UID; no later sync claims it,
  for the letter it would be claimed for is stored already.
- A row deleted into the trash is hidden by the request and shown again by the trash's next round.
- `services/accounts.ts` 239: a rotation under way overwrites a grant pasted meanwhile.
- `auth/oauth/deviceCode.ts` 159: a flow cancelled while its code is redeemed stores its tokens all the same; two
  starts at once leave one flow that nobody can cancel, which polls until its deadline.
- `sse.ts` (web) 205-208: the ticket request has no time-out of its own.
- `lib/undo.ts`: toasts of one kind replace each other, so "undo" takes back the last of them only.
- `use-message-actions.ts` 106-108 calls the invalidation the safety net, but an event that is read after it takes
  the mark off the list that is not on the screen (`setQueryData`): opened within 15 s, that list is shown
  from the cache, without a letter that has moved into it.

## 5. Proofs

TLAPS proves, for every value of the constants that meets the named assumptions:

| Module | Theorems |
|---|---|
| `SyncPoolProofs` | types, `ConnectionBound`, `NoIdleSlot`, `OneRoundPerAccount`, `FailureOnlyAtRoundEnd`, `InteractiveFirst`, and that SyncPool implements SyncGate |
| `RetryRoundProofs` | types, `OverrunIsBounded`, `GivesUpOnlyWithoutBudget` |
| `SyncSchedulerProofs` | types with the pause depth, `BackgroundIsSerial`, `SuspendedIsNotPolled`, `ShownIsTrue`, `BulkKeepsTheTickOut`; and `BulkHasRounds`, `TickIsServed` and `TickMovesOn`, which no run lists; of the operators of `DueTime`, for any instants: `RescheduledIsAhead`, `PhaseIsKept` |
| `SendServiceProofs` | types, `MapsAgree`, `OneSenderPerKey`, `SecondLetterHasAReason`, `DrainLeavesTimedOutOnly`, `StatusIsFinal`; and `ToldTheTruth`, which no run lists |
| `EventStreamProofs` | types with the limit of streams, `OneWayForward`, `NothingMissed`, and the safety half of `SpinnerEnds` (`LostForAReason`) |
| `AccountTokensProofs` | types, `RotationIsSafe`, `RedIsDeserved`; and `RefreshOK`, `PendingFlowsPoll` and `FlowsMoveOn`, which no run lists |
| `MailActionsProofs` | types, `ScreenIsTrue`; and `DetailsExplained` and `AloneIsAlone`, which no run lists |
| `MailboxSyncProofs` | types with the unique UID, `QuietRoundRepairs`, `CountsFollowRows`, `ContentIsKept`; and that UIDs lead to their letters (`RowsAreTrue`, `RequestIsTrue`), which no run lists |

Every safety argument has one shape: an invariant `Inv` that holds at first (`InitInv`) and in every step (`NextInv`),
each action with a case or a lemma of its own, and the property as a consequence. TLC has checked the parts
that are new in `Inv` on the run's instance before they were proved. What each `Inv` adds to the property, and why:

**SyncPool.** None of the pool's invariants is inductive alone.

- `MicroInv`: the microtask queue holds exactly the rounds that are between two awaits, once each, and a
  woken waiter is always next to run. Without it an `Acquire` could run between a release and the
  resumption it caused, and the limit would not follow.
- `WaitingInv`: the pool's queue holds exactly the rounds that wait, once each.
- `ChainInv`: an account's chain holds exactly its rounds that are asked for and not over, once each, and
  the first of them, and no other, has the account; exclusion is a consequence.
- `SlotInv`: `ConnectionBound` and `NoIdleSlot` together; neither is preserved without the other, for
  a release may hand its slot to a waiter or leave it free.
- `BlameInv`: a failed round is blamed from the moment it is over, and not before.

`InteractiveFirst` is inductive beside `Inv` and stays out of it. The refinement proof maps a state to SyncGate's
through `PhaseOf` and shows one lemma per kind of step: a round asks, connects, disconnects, is blamed, leaves, or
nothing visible happens. What is said of a queue (its members, that they are distinct, their priority order) is defined in
`SequenceSets`, which the scheduler's proofs use too; the lemmas on what `Head`, `Tail`, `Append` and a push in front do to it
are the first section of `SyncPoolProofs`, and the three of them the scheduler needs are in its own.

**RetryRound.** `Deadlines`: in each stage, when it began and how long it may last. While it connects the attempt began its whole
time limit before `limit`, and that limit is within the budget and the wait; so only what lies behind `limit` is
overrun: the rest of the connecting, and exchanges that no limit cuts.

**SyncScheduler.** `QueuesAreSets`: nobody is queued twice for an account, so leaving a queue takes an owner out of
it. `TickIsServed`: the tick's round is at the head of its queue, it is the only one, and the tick waits for it
exactly while there is one; so a success or a failure that arrives belongs to that account. `LeftIsAhead`: the loop
never comes back to the account it is syncing, which `SuspendedIsNotPolled` needs when a failure suspends that
account: it is not ahead a second time. `BulkHasRounds`: a bulk call runs exactly while one of its rounds is queued
or running; this needs every bulk call to have an account (`syncAll` with none begins nothing), which
`AccountsAssumption` says. `TickMovesOn` is what `StopReturns` rests on: each round of a tick takes an account out of `left`.

**SendService.** `Agrees` relates the fields of one job (status, phase of `#run`, outcome, what the mail server has).
`IdsInOrder` and `OnlyTheLastIsKept`: `#byKey` can only lead to the last job of a key, so if a second letter begins,
the first is out of the map, and `ForgottenForAReason` says why. `SendersAreKept`: neither `#purge` nor `#drop` takes a
job that is still to meet the mail server. A session is open only while its job talks to the mail server, or when the job is over
by time-out (`Agrees`), which is all a drain can leave. They give `SecondLetterHasAReason` more than it asks for: without a
reason no second *job* begins. `SendAssumption` says that `None`, the absence of a key or an id, is neither.

**EventStream.** `NothingMissed` speaks of moments when nothing is on its way; `WillBeTold` is what makes it hold: mail the page
does not show is excused, or something is left that will make the page fetch it (the end of the attempt, the window, an
unread event, a refetch, the next opening). An event on a cut wire is one of these only if the replay after the next
opening finds it or the hub says that it cannot, hence `HistoryRuns` (ids without gaps up to `seq`), `ChannelRuns` (the
unread part of the stream agrees with the history where both have an event) and `ReadInOrder` (what will be read is
newer than `lastId`, unless that id is of an earlier process). `EndsAreRead`: after the start of a user's round there is
its end, in the history and on the wire, or the round goes on, or it threw (`thrown` is no earlier than that start);
`LostForAReason` follows from it. `LinkOK` ties the client's stream
to the wire. Histories of length 0 are included.

**AccountTokens.** `RotationIsSafe` needs to know which tokens are in hand. `RefreshOK`: one refresh at most is under way,
it can be joined, and it is waited for. `HeldTokens`: its token has been rotated only if the answer it holds brings
the successor. `RowIsKnown`: the same of the row's token. `VerdictOK`: what a failed round says of a token is
true for good (a dead token stays dead), and `refusals` is never behind the strikes; `RedIsDeserved` follows, but for the
three marks it names, which rest on neither.
`FlowsOK`: one flow can be cancelled, and it has a code. `FlowsMoveOn` is the measure behind `FlowsEnd`: each step leaves a flow
where it is, ends it, or brings it one stage on, and a further sleep uses up more of the finite deadline.

**MailboxSync.** Nothing in the property says where a UID leads, and everything rests on it. `RowsAreTrue`: a UID of a row
that belongs to the present numbering of its folder (`Current`) was given before `uidNext`, and is on the server the letter
of the row, or is on it no more; the server's half of this is `Onward`, that a UID is given once per
UIDVALIDITY. `RequestIsTrue`: the same of the UID a request has read and of the one it was told, as long as the UIDVALIDITY
it remembers is the folder's. `CursorOK`: the cursor is never ahead of the server, and a settled folder has the
server's. `QuietRound` says for each stage of an undisturbed round what it has made true already: the numbers of the SELECT
are still right; `local` is what the table has; the scan's answer is what the server has, in full or above the highest known UID;
what has been fetched is shown with the scanned flags and what has not is in `todo`. A round that scans only new UIDs
needs more: `PartIsEnough`, that equal numbers and the absence of a gap leave no letter unread, which `NumbersTell` gets
from `RowsAreTrue` by counting: UIDs without gap are 1 .. n, and n different ones among them are all of them. For
`CountsFollowRows` one fact about each write suffices: the folders whose rows change are among those that are counted again
or put into `lagging` (`CountsAfter`). The invariant's parts are kept together, for each needs the others; a lemma each says what
keeps a part when a step has nothing to do with it (`RowStays`, `RequestStays`, `ViewStays`, `AsideKeepsRounds`), and one lemma
per action the rest. A batch of letters is a fold over the UIDs (`written` in `WriteMessages`): `StoresAll` shows what
it has done after n of them, by the least n that is a counterexample (`InductionOn`), since the library's rule of induction has an
operator for a parameter.

**MailActions.** `ScreenIsTrue` speaks of moments of rest; the invariant says what is so before. `DetailsExplained`: wherever a
cached letter differs from the server's, in its mark or in its place, an event that will set it is held back, or a plan
under way has set it and the server is still to be told of this value, or a plan has been refused it and will leave it to
`doubtful`. Each step hands a difference from one of these reasons to the next: a request that is carried out turns "still to
be told" into an event (or finds the server as the plan wants it, and publishes none), a refusal into "refused", an event that is read
takes the difference away or was late. `Divided`, that a letter of a plan is in one part of it only, keeps
these reasons apart. `AloneIsAlone` is for rollbacks: what an action took its snapshot of is still true, outside `doubtful`, if it began at
rest with no abandoned request left and has been the only one, and then only its own success can change it. A request that
is carried out late turns what it changes into an event as well, and nothing else: no plan that is alone is under way
while one is abandoned. `AnswerIsFresh`: an answer that waits to be read is what the server has, but for `overtaken`,
unless an action is under way, whose end fetches again. `ListIsRight` is what that gives when the answer arrives, and
what late requests leave of it: a row that ought to be there is there, and a row that is not true has an event
held back that will change it or take it away; nothing would bring a row, which is why the letters that come into the
view this way are the exception. An event that is not late does not disturb it (`Patches`), and at rest no event is held back.

The proofs assume the constants' assumptions (`RoundsAssumption`, `BoundsAssumption`, `RetryAssumption`,
`AccountsAssumption`, `SendAssumption`, `TokensAssumption`, `MailboxAssumption`, `ActionsAssumption`, and those of the
events' modules), which TLC evaluates in the runs. They are types and lower bounds, such as one attempt or one
connection, that `None` is not one of the others, that folders and letters are finitely many and that `seen` is a flag.

Three definitions are written as they are so that they can be reasoned about, with the meaning they had: the first rows of
MailboxSync are the letters of its synchronised folders in some order, the hub's `After(id)` names the part of the
history that both replay functions filter out, and `FlowGoesOn` chooses the next state of a flow from a set. `Remembered` says that a history of length 0 keeps nothing, as `hub.ts` 247 does.

Model-checked only: all liveness (`EveryRoundEnds`, `RoundEnds`, `BaselineResumes`, `EveryAccountIsPolled`, `StopReturns`,
`EndsByItself`, the other half of `SpinnerEnds`). Liveness under fairness is out of the prover's reach; TLC has checked it, and each of
these properties has a mutant that breaks it. The properties of the runs that expect a violation are false.

## 6. Not modelled, and the plan

Not modelled for good: MIME parsing and composing, HTML sanitising, providers, crypto, configuration,
search, logs, the image proxy and most React views (text, I/O, or no behaviour over time); sessions, users and
accounts as tables (every operation is one synchronous transaction); attachments (fetched under the
lock SyncPool models, written to a temporary file and renamed); the migration tool.

Left out of the modules there are:

- MailboxSync: one row a request, `\Deleted` as a flag of the server, the list of folders (LIST, folders
  that vanish or are no longer subscribed), totals, texts; a batch is one fetch and one transaction; a
  letter composed here always has a Message-ID.
- AccountTokens: suspension of the account, `sync_runs`, SMTP health.
- EventStream: the capacity of the ticket store, ping frames, the history's TTL on replay,
  `sync:tier` and `account:status` events, the list of ids that are syncing.
- MailActions: each letter has an account of its own; delete, star, the summary counts, threads, searches and
  smart views are left out; a request is one step of the server; one tab; the retries of a fetch are part of its
  answer, and what was held back is delivered when its window ends (EventStream is where it can be lost).
- SendService: composing and attachments are one outcome.

Every safety property that a run checks and finds true has a theorem, and so has the safety half of `SpinnerEnds`, of
`FlowsEnd` and of `StopReturns` (as far as the tick goes). What is worth proving next is that half for the others: that a
round of the pool that waits and a bulk call that pauses the tick always have a step of the pool or a timer to wait for, and
that a round has finitely many attempts left (`EveryRoundEnds`, `BaselineResumes`, `RoundEnds`).
