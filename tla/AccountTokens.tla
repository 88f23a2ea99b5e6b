---------------------------- MODULE AccountTokens ----------------------------
(***************************************************************************)
(* AccountTokens: the OAuth grant of one account and the health shown for  *)
(* it.  Everything that talks to the mailbox asks OAuthTokenService for an *)
(* access token; a stale one is renewed with the refresh token of the row, *)
(* by one caller for all.  The device flow stores a grant of its own, the  *)
(* user may paste one, switch the account off or remove it, the sync round *)
(* writes its verdict at its end and a letter whose SMTP login is refused  *)
(* writes one at once, all to the same row and none aware of the rest.     *)
(*                                                                         *)
(* Microsoft rotates: a renewed refresh token is good for nothing any      *)
(* more.  A round is one attempt here (RetryRound is what repeats it), and *)
(* one runs at a time (SyncPool).                                          *)
(***************************************************************************)
EXTENDS Naturals, FiniteSets

CONSTANTS
    Round,              \* the sync round, as a caller of getAccessToken
    Others,             \* other callers: message actions, attachments, sending
    Flows,              \* device code flows, numbered in the order they begin
    MaxAttempts,        \* of a refresh, the first one included
    Threshold,          \* DEFAULT_AUTH_STRIKE_THRESHOLD
    MaxTransientPolls,
    Deadline,           \* of a flow, in polling intervals
    MaxTokens,          \* bound on the tokens Microsoft issues
    MaxEvents           \* bound on what goes wrong and on what the user changes

ASSUME TokensAssumption ==
    /\ Round \notin Others
    /\ Flows \subseteq Nat /\ IsFiniteSet(Flows) /\ IsFiniteSet(Others)
    /\ \A n \in {MaxAttempts, Threshold, MaxTokens} : n \in Nat \ {0}
    /\ \A n \in {MaxTransientPolls, Deadline, MaxEvents} : n \in Nat

Callers == {Round} \union Others
Tokens == 1..MaxTokens
None == 0

VARIABLES
    row,            \* the account's row: its tokens and its status
    fate,           \* what became of each refresh token, at Microsoft
    leader,         \* #inFlight: whether a refresh can be joined, and whose it is
    refreshes,      \* the refresh each caller leads
    round,          \* where the sync round is, or how its attempt failed
    strikes,        \* AuthStrikes
    refusals,       \* rounds that ended with a refusal since one last succeeded
    flows,          \* the device code flows
    current,        \* #flows: the flow that is registered
    events          \* what has gone wrong or was changed so far, counted

vars == <<row, fate, leader, refreshes, round, strikes, refusals, flows, current, events>>

\* "removed" stands for a row that is no more.
Statuses == {"active", "error", "auth_error", "disabled", "removed"}
Fates == {"unborn", "alive", "rotated", "lost", "revoked"}
NoReply == [kind |-> "none", token |-> None]
Replies ==
    [kind : {"none", "soft", "terminal"}, token : {None}]
        \union [kind : {"ok", "kept"}, token : Tokens]

NoRefresh == [phase |-> "none", token |-> None, attempt |-> 0, reply |-> NoReply, waiting |-> {}]
Idle == [phase |-> "idle", kind |-> "none", resolved |-> FALSE, about |-> None]
NoFlow == [phase |-> "none", status |-> "none", cancelled |-> FALSE, waited |-> 0,
           interval |-> 1, transient |-> 0]

Init ==
    /\ row = [refresh |-> 1, fresh |-> FALSE, status |-> "active"]
    /\ fate = [t \in Tokens |-> IF t = 1 THEN "alive" ELSE "unborn"]
    /\ leader = {}
    /\ refreshes = [c \in Callers |-> NoRefresh]
    /\ round = Idle
    /\ strikes = 0
    /\ refusals = 0
    /\ flows = [f \in Flows |-> NoFlow]
    /\ current = {}
    /\ events = 0

Exists == row.status # "removed"

\* UPDATE of the account: there may be nothing left to update.
Updated(patch) == IF Exists THEN patch ELSE row

-----------------------------------------------------------------------------
(* Microsoft's token endpoint, and the row                                 *)

Disturbed == events < MaxEvents /\ events' = events + 1
Undisturbed == UNCHANGED events

\* The next token Microsoft would issue.
Unborn(t) == fate[t] = "unborn" /\ \A u \in 1..(t - 1) : fate[u] # "unborn"

\* What Microsoft does with a refresh token: a live one is exchanged for a new
\* one, or kept beside a new access token; any other is refused for good.  Once
\* in a while it cannot say, or its reply is lost after the exchange.
Exchanged(token, reply) ==
    \/ /\ fate[token] = "alive"
       /\ reply = [kind |-> "kept", token |-> token]
       /\ UNCHANGED fate /\ Undisturbed
    \/ /\ fate[token] = "alive"
       /\ \E t \in Tokens :
            /\ Unborn(t)
            /\ \/ /\ reply = [kind |-> "ok", token |-> t]
                  /\ fate' = [fate EXCEPT ![token] = "rotated", ![t] = "alive"]
                  /\ Undisturbed
               \/ /\ reply = [kind |-> "soft", token |-> None]
                  /\ fate' = [fate EXCEPT ![token] = "lost", ![t] = "alive"]
                  /\ Disturbed
    \/ /\ fate[token] # "alive"
       /\ reply = [kind |-> "terminal", token |-> None]
       /\ UNCHANGED fate /\ Undisturbed
    \/ /\ reply = [kind |-> "soft", token |-> None]
       /\ UNCHANGED fate /\ Disturbed

\* persistTokenSet: the new tokens replace those of the row, whatever these are
\* by now, in one transaction; only an authentication failure ends with it.
Stored(reply) ==
    [refresh |-> IF reply.kind = "ok" THEN reply.token ELSE row.refresh,
     fresh |-> TRUE,
     status |-> IF row.status = "auth_error" THEN "active" ELSE row.status]

-----------------------------------------------------------------------------
(* OAuthTokenService                                                       *)

\* A round's attempt that failed: of which kind, with the credentials in hand
\* or not, and (a ghost) about which refresh token that says anything.
Failed(kind, resolved, about) ==
    [phase |-> "failed", kind |-> kind, resolved |-> resolved, about |-> about]

\* The round goes on when it was among the callers that waited.
RoundGets(waiting, outcome) ==
    round' = IF Round \in waiting THEN outcome ELSE round

\* One more, counted up to Threshold: beyond it the number tells nothing.
OneMore(n) == IF n < Threshold THEN n + 1 ELSE n

Connecting == [Idle EXCEPT !.phase = "connecting"]
Waiting == [Idle EXCEPT !.phase = "waiting"]

\* Callers whose promise has not settled.
Pending == UNION {refreshes[c].waiting : c \in Callers}

\* Faulty: every caller refreshes for itself.
JoinableNever == {}

\* #inFlight.get(accountId): the refresh a caller can join.
Joinable == leader

\* #refreshSingleFlight, up to the request: the refresh token is loaded once,
\* for all the attempts.
Refresh(c) ==
    \/ /\ Joinable # {}
       /\ refreshes' = [l \in Callers |->
            IF l \in leader THEN [refreshes[l] EXCEPT !.waiting = @ \union {c}] ELSE refreshes[l]]
       /\ UNCHANGED leader
    \/ /\ Joinable = {}
       /\ leader' = {c}
       /\ refreshes' = [refreshes EXCEPT ![c] =
            [NoRefresh EXCEPT !.phase = "sent", !.token = row.refresh, !.waiting = {c}]]

\* Another caller asks; a fresh token is simply returned.
Ask(c) ==
    /\ c \in Others \ Pending
    /\ refreshes[c].phase = "none"
    /\ Exists /\ ~ row.fresh
    /\ Refresh(c)
    /\ UNCHANGED <<row, fate, round, strikes, refusals, flows, current, events>>

\* A round begins, with the token of the row or with a refresh.  (One that begins
\* with an account that has just been removed fails at once and writes nothing.)
BeginRound ==
    /\ Exists
    /\ round.phase = "idle"
    /\ refreshes[Round].phase = "none"
    /\ \/ /\ row.fresh
          /\ round' = Connecting
          /\ UNCHANGED <<refreshes, leader>>
       \/ /\ ~ row.fresh
          /\ round' = Waiting
          /\ Refresh(Round)
    /\ UNCHANGED <<row, fate, strikes, refusals, flows, current, events>>

\* Microsoft handles the request of c.
Exchange(c) ==
    /\ refreshes[c].phase = "sent"
    /\ \E reply \in Replies :
        /\ Exchanged(refreshes[c].token, reply)
        /\ refreshes' = [refreshes EXCEPT ![c].phase = "answered", ![c].reply = reply]
    /\ UNCHANGED <<row, leader, round, strikes, refusals, flows, current>>

\* Faulty: the entry of #inFlight stays.
SettlesKeeping(c) ==
    /\ refreshes' = [refreshes EXCEPT ![c] = NoRefresh]
    /\ UNCHANGED leader

\* The promise settles and the entry of #inFlight goes.
Settles(c) ==
    /\ refreshes' = [refreshes EXCEPT ![c] = NoRefresh]
    /\ leader' = {}

\* The tokens are stored first and given to the callers then.
Renewed(c) ==
    /\ refreshes[c].reply.kind \in {"ok", "kept"} /\ Exists
    /\ row' = Stored(refreshes[c].reply)
    /\ RoundGets(refreshes[c].waiting, Connecting)
    /\ Settles(c)
    /\ UNCHANGED <<fate, refusals>> /\ Undisturbed

\* They cannot be stored, or there is no row for them: what Microsoft has
\* rotated is lost.
NotStored(c) ==
    /\ refreshes[c].reply.kind \in {"ok", "kept"}
    /\ fate' = [fate EXCEPT ![refreshes[c].token] =
                    IF refreshes[c].reply.kind = "ok" /\ @ = "rotated" THEN "lost" ELSE @]
    /\ RoundGets(refreshes[c].waiting, Failed("unknown", FALSE, None))
    /\ Settles(c)
    /\ UNCHANGED <<row, refusals>>
    /\ IF Exists THEN Disturbed ELSE Undisturbed

\* markAuthError: Microsoft has refused the token that was loaded.
Refused(c) ==
    /\ refreshes[c].reply.kind = "terminal"
    /\ row' = Updated([row EXCEPT !.status = "auth_error"])
    /\ RoundGets(refreshes[c].waiting, Failed("auth", FALSE, refreshes[c].token))
    /\ refusals' = IF Round \in refreshes[c].waiting THEN OneMore(refusals) ELSE refusals
    /\ Settles(c)
    /\ UNCHANGED fate /\ Undisturbed

\* A passing failure: another attempt after the backoff, or all callers fail.
PutOff(c) ==
    /\ refreshes[c].reply.kind = "soft"
    /\ \/ /\ refreshes[c].attempt < MaxAttempts - 1
          /\ refreshes' = [refreshes EXCEPT ![c].phase = "backoff", ![c].reply = NoReply]
          /\ UNCHANGED <<leader, round>>
       \/ /\ refreshes[c].attempt >= MaxAttempts - 1
          /\ RoundGets(refreshes[c].waiting, Failed("transient", FALSE, None))
          /\ Settles(c)
    /\ UNCHANGED <<row, fate, refusals>> /\ Undisturbed

Settle(c) ==
    /\ refreshes[c].phase = "answered"
    /\ Renewed(c) \/ NotStored(c) \/ Refused(c) \/ PutOff(c)
    /\ UNCHANGED <<strikes, flows, current>>

\* The backoff is over: the same refresh token again.
Resend(c) ==
    /\ refreshes[c].phase = "backoff"
    /\ refreshes' = [refreshes EXCEPT ![c].phase = "sent", ![c].attempt = @ + 1]
    /\ UNCHANGED <<row, fate, leader, round, strikes, refusals, flows, current, events>>

-----------------------------------------------------------------------------
(* The round's verdict                                                     *)

\* updateAccountHealth after a success, at once.
Synced ==
    /\ round.phase = "connecting"
    /\ round' = Idle
    /\ row' = Updated([row EXCEPT !.status = "active"])
    /\ strikes' = 0
    /\ refusals' = 0
    /\ UNCHANGED <<fate, leader, refreshes, flows, current, events>>

\* The mailbox turns a valid token away at the door, or ends the session with
\* an authentication failure later on; or something else goes wrong.
NotSynced ==
    /\ round.phase = "connecting"
    /\ \/ /\ \E resolved \in BOOLEAN : round' = Failed("auth", resolved, None)
          /\ refusals' = OneMore(refusals)
       \/ /\ \E kind \in {"transient", "unknown"} : round' = Failed(kind, TRUE, None)
          /\ UNCHANGED refusals
    /\ Disturbed
    /\ UNCHANGED <<row, fate, leader, refreshes, strikes, flows, current>>

\* AuthStrikes.record after a failure.
Counted == IF round.kind = "auth" THEN OneMore(strikes) ELSE strikes

\* Faulty: one refusal by the mailbox is a verdict.
DeadAtOnce == round.kind = "auth"

\* judgeAuth: the credentials themselves were refused, or the mailbox has
\* refused them often enough.
Dead == round.kind = "auth" /\ (~ round.resolved \/ Counted >= Threshold)

\* recordSyncFailure, at the end of the round: healthPatch.
RecordFailure ==
    /\ round.phase = "failed"
    /\ strikes' = Counted
    /\ row' = Updated([row EXCEPT !.status =
                CASE Dead -> "auth_error"
                  [] round.kind = "unknown" -> "error"
                  [] OTHER -> @])
    /\ round' = Idle
    /\ UNCHANGED <<fate, leader, refreshes, refusals, flows, current, events>>

\* The SMTP server refuses the login of a letter that is being sent: marked red
\* at once, whatever the row's status is by then (#recordSmtpHealth).
SmtpRefused ==
    /\ Exists
    /\ row' = [row EXCEPT !.status = "auth_error"]
    /\ Disturbed
    /\ UNCHANGED <<fate, leader, refreshes, round, strikes, refusals, flows, current>>

-----------------------------------------------------------------------------
(* DeviceCodeService                                                       *)

\* A flow that is over; only its status is looked at.
Over(status) == [NoFlow EXCEPT !.phase = "over", !.status = status]

\* Faulty: polls as long as nobody cancels.
NextPollForEver(fl) ==
    IF fl.cancelled THEN Over(fl.status)
    ELSE [fl EXCEPT !.phase = "asleep"]

\* The head of #poll's loop, up to its sleep.
NextPoll(fl) ==
    IF fl.cancelled THEN Over(fl.status)
    ELSE IF fl.waited + fl.interval > Deadline THEN Over("failed")
    ELSE [fl EXCEPT !.phase = "asleep", !.waited = @ + fl.interval]

\* cancel(): a pending flow of the account is told to stop, and has failed.
Cancelled ==
    [f \in Flows |-> IF f \in current /\ flows[f].status = "pending"
                     THEN [flows[f] EXCEPT !.cancelled = TRUE, !.status = "failed"]
                     ELSE flows[f]]

\* start(), up to the request for a device code.
StartFlow(f) ==
    /\ Exists
    /\ flows[f].phase = "none"
    /\ \A g \in Flows : g < f => flows[g].phase # "none"
    /\ flows' = [Cancelled EXCEPT ![f].phase = "asking"]
    /\ Disturbed
    /\ UNCHANGED <<row, fate, leader, refreshes, round, strikes, refusals, current>>

\* The code is there: the flow takes the place of any other, and polls.
FlowBegins(f) ==
    /\ flows[f].phase = "asking"
    /\ flows' = [flows EXCEPT ![f] = NextPoll([@ EXCEPT !.status = "pending"])]
    /\ current' = {f}
    /\ UNCHANGED <<row, fate, leader, refreshes, round, strikes, refusals, events>>

\* Or it is not, and there is no flow.
NoCode(f) ==
    /\ flows[f].phase = "asking"
    /\ flows' = [flows EXCEPT ![f] = Over("none")]
    /\ Disturbed
    /\ UNCHANGED <<row, fate, leader, refreshes, round, strikes, refusals, current>>

\* The sleep is over: break, or redeem the code.
Wake(f) ==
    /\ flows[f].phase = "asleep"
    /\ flows' = [flows EXCEPT ![f] = IF @.cancelled THEN Over(@.status) ELSE [@ EXCEPT !.phase = "redeeming"]]
    /\ UNCHANGED <<row, fate, leader, refreshes, round, strikes, refusals, current, events>>

\* Microsoft has issued tokens for the code, for the user has approved: they are
\* stored, cancelled or not, or the flow has failed with them.
FlowStores(f) ==
    /\ \E t \in Tokens :
        /\ Unborn(t)
        /\ fate' = [fate EXCEPT ![t] = "alive"]
        /\ \/ /\ Exists
              /\ row' = Stored([kind |-> "ok", token |-> t])
              /\ flows' = [flows EXCEPT ![f] = Over("success")]
              /\ Undisturbed
           \/ /\ flows' = [flows EXCEPT ![f] = Over("failed")]
              /\ UNCHANGED row
              /\ IF Exists THEN Disturbed ELSE Undisturbed

\* #classifyPoll: not approved yet, slow down, refused, or no answer.
FlowGoesOn(f) ==
    LET fl == flows[f]
        slower == [fl EXCEPT !.interval = @ + 1]
        unheard == IF fl.transient >= MaxTransientPolls THEN Over("failed")
                   ELSE NextPoll([fl EXCEPT !.transient = @ + 1])
    IN  /\ \/ /\ \E next \in {NextPoll(fl), NextPoll(slower)} : flows' = [flows EXCEPT ![f] = next]
              /\ Undisturbed
           \/ /\ \E next \in {Over("failed"), unheard} : flows' = [flows EXCEPT ![f] = next]
              /\ Disturbed
        /\ UNCHANGED <<row, fate>>

FlowHears(f) ==
    /\ flows[f].phase = "redeeming"
    /\ FlowStores(f) \/ FlowGoesOn(f)
    /\ UNCHANGED <<leader, refreshes, round, strikes, refusals, current>>

\* DELETE /accounts/:id/reauth: cancel, then forget.
CancelFlow ==
    /\ Exists /\ current # {}
    /\ flows' = Cancelled
    /\ current' = {}
    /\ UNCHANGED <<row, fate, leader, refreshes, round, strikes, refusals, events>>

-----------------------------------------------------------------------------
(* What else happens to the account                                        *)

\* Within the safety margin of its expiry, an access token is stale.
GoStale ==
    /\ Exists /\ row.fresh
    /\ row' = [row EXCEPT !.fresh = FALSE]
    /\ Disturbed
    /\ UNCHANGED <<fate, leader, refreshes, round, strikes, refusals, flows, current>>

\* The password was changed: every token is worth nothing.
Revoke ==
    /\ \E t \in Tokens : fate[t] = "alive"
    /\ fate' = [t \in Tokens |-> IF fate[t] = "alive" THEN "revoked" ELSE fate[t]]
    /\ Disturbed
    /\ UNCHANGED <<row, leader, refreshes, round, strikes, refusals, flows, current>>

\* PUT /accounts/:id with a refresh token obtained elsewhere.
Paste ==
    /\ Exists
    /\ \E t \in Tokens :
        /\ Unborn(t)
        /\ fate' = [fate EXCEPT ![t] = "alive"]
        /\ row' = [row EXCEPT !.refresh = t, !.fresh = FALSE]
    /\ Disturbed
    /\ UNCHANGED <<leader, refreshes, round, strikes, refusals, flows, current>>

\* PUT /accounts/:id with a status: the owner switches the account off or on.
Switch ==
    /\ Exists
    /\ row' = [row EXCEPT !.status = IF @ = "disabled" THEN "active" ELSE "disabled"]
    /\ Disturbed
    /\ UNCHANGED <<fate, leader, refreshes, round, strikes, refusals, flows, current>>

\* DELETE /accounts/:id: the row goes.  What is under way for it is not told, and
\* nobody can cancel its device flow any more.
Remove ==
    /\ Exists
    /\ row' = [row EXCEPT !.status = "removed"]
    /\ Disturbed
    /\ UNCHANGED <<fate, leader, refreshes, round, strikes, refusals, flows, current>>

\* The process dies: what Microsoft has answered is lost with it.
Crash ==
    /\ fate' = [t \in Tokens |->
         IF \E c \in Callers : refreshes[c].reply.kind = "ok" /\ refreshes[c].token = t /\ fate[t] = "rotated"
         THEN "lost" ELSE fate[t]]
    /\ leader' = {}
    /\ refreshes' = [c \in Callers |-> NoRefresh]
    /\ round' = Idle
    /\ strikes' = 0
    /\ flows' = [f \in Flows |-> IF flows[f].phase = "none" THEN NoFlow
                                 ELSE Over("none")]
    /\ current' = {}
    /\ Disturbed
    /\ UNCHANGED <<row, refusals>>

Working(c) == Exchange(c) \/ Settle(c) \/ Resend(c)
Rounding == BeginRound \/ Synced \/ RecordFailure
Polling(f) == FlowBegins(f) \/ Wake(f) \/ FlowHears(f)

Next ==
    \/ \E c \in Callers : Ask(c) \/ Working(c)
    \/ Rounding \/ NotSynced \/ SmtpRefused
    \/ \E f \in Flows : StartFlow(f) \/ NoCode(f) \/ Polling(f)
    \/ CancelFlow
    \/ GoStale \/ Revoke \/ Paste \/ Switch \/ Remove \/ Crash

\* What the process does by itself: timers fire, requests are answered or time
\* out, and a round that has begun ends.  Nothing makes a round begin.
Fairness ==
    /\ \A c \in Callers : WF_vars(Working(c))
    /\ WF_vars(Synced) /\ WF_vars(RecordFailure)
    /\ \A f \in Flows : WF_vars(Polling(f))

Spec == Init /\ [][Next]_vars /\ Fairness

-----------------------------------------------------------------------------
(* Properties                                                              *)

\* The state is well formed: at most one refresh can be joined and it is under
\* way, a caller waits for one promise, and the registered flow has a status.
TypeOK ==
    /\ row \in [refresh : Tokens, fresh : BOOLEAN, status : Statuses]
    /\ fate \in [Tokens -> Fates]
    /\ leader \subseteq Callers /\ Cardinality(leader) <= 1
    /\ \A c \in leader : refreshes[c].phase # "none"
    /\ \A c \in Callers :
        /\ refreshes[c] \in [phase : {"none", "sent", "answered", "backoff"},
                             token : Tokens \union {None}, attempt : 0..(MaxAttempts - 1),
                             reply : Replies, waiting : SUBSET Callers]
        /\ refreshes[c].phase # "none" <=> refreshes[c].waiting # {}
        /\ \A d \in Callers \ {c} : refreshes[c].waiting \intersect refreshes[d].waiting = {}
    /\ round \in [phase : {"idle", "waiting", "connecting", "failed"},
                  kind : {"none", "auth", "transient", "unknown"},
                  resolved : BOOLEAN, about : Tokens \union {None}]
    /\ round.phase = "waiting" <=> Round \in Pending
    /\ strikes \in 0..Threshold /\ refusals \in 0..Threshold
    /\ flows \in [Flows ->
        [phase : {"none", "asking", "asleep", "redeeming", "over"},
         status : {"none", "pending", "success", "failed"},
         cancelled : BOOLEAN, waited : 0..Deadline,
         interval : 1..(Deadline + 1), transient : 0..MaxTransientPolls]]
    /\ current \subseteq Flows /\ Cardinality(current) <= 1
    /\ \A f \in current : flows[f].status # "none"
    /\ events \in 0..MaxEvents

\* A refresh token that Microsoft has rotated and whose successor was not lost
\* is never sent again: however the callers, the device flow and the user
\* interleave, nobody invalidates the token another one is about to use.
RotationIsSafe ==
    \A c \in Callers : refreshes[c].phase = "sent" => fate[refreshes[c].token] # "rotated"

\* The verdict is about a token that is no longer the row's: a refresh had
\* loaded it before a flow or the user replaced it.
AboutAnother ==
    \/ \E c \in Callers : refreshes'[c] # refreshes[c] /\ refreshes[c].token # row.refresh
    \/ round' # round /\ round.about \notin {None, row.refresh}

\* One refusal by a mailbox to which the connection stood already: only the
\* failures of connectImap carry the mark that the credentials were in hand.
LateRefusal == RecordFailure /\ round.kind = "auth" /\ ~ round.resolved /\ round.about = None

\* An account whose stored refresh token works is marked auth_error only when
\* Threshold rounds have been refused since one last succeeded, or by one of
\* the three that do not wait for so many: a verdict about a token that has
\* been replaced meanwhile, a refusal in mid-session, and one by the SMTP
\* server.  A refusal at the door of the mailbox is never enough by itself.
RedIsDeserved ==
    [][row.status # "auth_error" /\ row'.status = "auth_error" =>
        \/ fate[row.refresh] # "alive"
        \/ refusals >= Threshold
        \/ AboutAnother \/ LateRefusal \/ SmtpRefused]_vars

\* Every flow that polls comes to an end, whatever the user does: one that nobody
\* can reach, after a second start or the removal of its account, too.
FlowsEnd == <>[](\A f \in Flows : flows[f].status # "pending")

\* An account that is polled again and again, so neither switched off nor held
\* back by its suspension for good, does not stay red while its refresh token
\* works, whoever marked it.
RedHeals ==
    []<><<BeginRound>>_vars =>
        (row.status = "auth_error" /\ fate[row.refresh] = "alive"
            ~> row.status # "auth_error" \/ fate[row.refresh] # "alive")

\* Nothing hangs for ever: neither a flow nor, while rounds come, the red mark of
\* a sound account.
EndsByItself == FlowsEnd /\ RedHeals

\* The user's word stands: an account its owner has switched off stays off
\* until its owner switches it on.
DisabledStaysOff ==
    [][row.status = "disabled" /\ row'.status # "disabled" => Switch \/ Remove]_vars
=============================================================================
