-------------------------- MODULE AccountTokensProofs --------------------------
(***************************************************************************)
(* What holds of an account's grant and of the health shown for it for any *)
(* number of callers, device flows and tokens, any threshold and deadline, *)
(* and however often Microsoft, the network, the process or the user       *)
(* disturbs it.                                                            *)
(***************************************************************************)
EXTENDS AccountTokens, FiniteSetTheorems, TLAPS

Rows == [refresh : Tokens, fresh : BOOLEAN, status : Statuses]
RefreshStates ==
    [phase : {"none", "sent", "answered", "backoff"},
     token : Tokens \union {None}, attempt : 0 .. (MaxAttempts - 1),
     reply : Replies, waiting : SUBSET Callers]
RoundStates ==
    [phase : {"idle", "waiting", "connecting", "failed"},
     kind : {"none", "auth", "transient", "unknown"},
     resolved : BOOLEAN, about : Tokens \union {None}]
FlowStates ==
    [phase : {"none", "asking", "asleep", "redeeming", "over"},
     status : {"none", "pending", "success", "failed"},
     cancelled : BOOLEAN, waited : 0 .. Deadline,
     interval : 1 .. (Deadline + 1), transient : 0 .. MaxTransientPolls]

\* One refresh is under way at most, and it is the one that can be joined; whoever
\* leads it waits for it, and the round is waiting exactly while it does.
RefreshOK ==
    /\ refreshes \in [Callers -> RefreshStates]
    /\ leader = {c \in Callers : refreshes[c].phase # "none"}
    /\ \A c, d \in leader : c = d
    /\ \A c \in Callers : refreshes[c].phase # "none" <=> refreshes[c].waiting # {}
    /\ \A c \in Callers : refreshes[c].phase = "backoff" => refreshes[c].attempt < MaxAttempts - 1
    /\ round \in RoundStates
    /\ round.phase = "waiting" <=> \E c \in Callers : Round \in refreshes[c].waiting

\* A refresh has loaded a token that Microsoft has issued.  It has been rotated
\* only if the answer that is in hand brings its successor.
HeldTokens ==
    \A c \in leader :
        /\ refreshes[c].token \in Tokens /\ fate[refreshes[c].token] # "unborn"
        /\ refreshes[c].phase = "answered" <=> refreshes[c].reply.kind # "none"
        /\ refreshes[c].reply.kind # "ok" => fate[refreshes[c].token] # "rotated"
        /\ refreshes[c].reply.kind = "ok"
              => fate[refreshes[c].reply.token] \notin {"unborn", "rotated"}
        /\ refreshes[c].reply.kind = "terminal" => fate[refreshes[c].token] # "alive"

\* The same of the token in the row: its successor is on its way to it.
RowIsKnown ==
    /\ fate[row.refresh] # "unborn"
    /\ fate[row.refresh] = "rotated" =>
        \E c \in leader : refreshes[c].reply.kind = "ok" /\ refreshes[c].token = row.refresh

GrantOK == row \in Rows /\ fate \in [Tokens -> Fates] /\ HeldTokens /\ RowIsKnown

\* What a failed round says of a token is true for good, and the rounds that
\* were refused are no fewer than the strikes.
VerdictOK ==
    /\ strikes \in 0 .. Threshold /\ refusals \in 0 .. Threshold
    /\ round.about # None => round.phase = "failed" /\ fate[round.about] \notin {"alive", "unborn"}
    /\ refusals >= IF round.phase = "failed" THEN Counted ELSE strikes

\* A flow has a status once it has a code, and has waited for its last interval.
FlowsOK ==
    /\ flows \in [Flows -> FlowStates]
    /\ current \subseteq Flows
    /\ \A f, g \in current : f = g
    /\ \A f \in current : flows[f].status # "none"
    /\ \A f \in Flows :
        /\ flows[f].phase \in {"none", "asking"} => flows[f].status = "none"
        /\ flows[f].phase \in {"asleep", "redeeming"} => flows[f].interval <= flows[f].waited

\* The inductive invariant.
Inv == RefreshOK /\ GrantOK /\ VerdictOK /\ FlowsOK /\ events \in 0 .. MaxEvents

-----------------------------------------------------------------------------
(* Facts about the constants                                               *)

LEMMA Bounds ==
    /\ MaxAttempts \in Nat \ {0} /\ Threshold \in Nat \ {0} /\ MaxTokens \in Nat \ {0}
    /\ MaxTransientPolls \in Nat /\ Deadline \in Nat /\ MaxEvents \in Nat
    /\ Flows \subseteq Nat
    /\ 1 \in Tokens /\ None \notin Tokens
    /\ Round \in Callers /\ Others \subseteq Callers /\ Round \notin Others
  BY TokensAssumption DEF Tokens, None, Callers

LEMMA Singles ==
    ASSUME NEW S, \A x, y \in S : x = y
    PROVE  Cardinality(S) <= 1
<1>1. CASE S = {}
  BY <1>1, FS_EmptySet
<1>2. CASE S # {}
  <2>1. PICK x : S = {x}
    BY <1>2
  <2>. QED
    BY <2>1, FS_Singleton
<1>. QED
  BY <1>1, <1>2

LEMMA InitInv == Init => Inv
<1>. SUFFICES ASSUME Init PROVE Inv
  OBVIOUS
<1>. USE Bounds DEF Init
<1>1. NoReply \in Replies
  BY DEF NoReply, Replies
<1>2. NoRefresh \in RefreshStates
  BY <1>1 DEF NoRefresh, RefreshStates
<1>3. Idle \in RoundStates /\ Idle.phase = "idle" /\ Idle.about = None
  BY DEF Idle, RoundStates
<1>4. RefreshOK
  BY <1>2, <1>3 DEF RefreshOK, NoRefresh
<1>5. GrantOK
  BY DEF GrantOK, HeldTokens, RowIsKnown, Rows, Statuses, Fates
<1>6. VerdictOK
  BY <1>3 DEF VerdictOK
<1>7. NoFlow \in FlowStates
  BY DEF NoFlow, FlowStates
<1>8. FlowsOK
  BY <1>7 DEF FlowsOK, NoFlow
<1>. QED
  BY <1>4, <1>5, <1>6, <1>8 DEF Inv

LEMMA InvTypes == Inv => TypeOK
<1>. SUFFICES ASSUME Inv PROVE TypeOK
  OBVIOUS
<1>1. RefreshOK /\ GrantOK /\ VerdictOK /\ FlowsOK /\ events \in 0 .. MaxEvents
  BY DEF Inv
<1>2. Cardinality(leader) <= 1 /\ leader \subseteq Callers
  BY <1>1, Singles DEF RefreshOK
<1>3. Cardinality(current) <= 1
  BY <1>1, Singles DEF FlowsOK
<1>4. \A c \in Callers :
        /\ refreshes[c] \in RefreshStates
        /\ refreshes[c].phase # "none" <=> refreshes[c].waiting # {}
        /\ \A d \in Callers \ {c} : refreshes[c].waiting \intersect refreshes[d].waiting = {}
  BY <1>1 DEF RefreshOK
<1>5. \A c \in leader : refreshes[c].phase # "none"
  BY <1>1 DEF RefreshOK
<1>6. Round \in Pending <=> \E c \in Callers : Round \in refreshes[c].waiting
  BY DEF Pending
<1>. QED
  BY <1>1, <1>2, <1>3, <1>4, <1>5, <1>6
     DEF TypeOK, RefreshOK, GrantOK, VerdictOK, FlowsOK, Rows, RefreshStates, RoundStates, FlowStates

-----------------------------------------------------------------------------
(* The device flows                                                        *)

LEMMA OverIsOK ==
    ASSUME NEW status \in {"none", "pending", "success", "failed"}
    PROVE  Over(status) \in FlowStates /\ Over(status).phase = "over" /\ Over(status).status = status
<1>1. NoFlow \in FlowStates
  BY Bounds DEF NoFlow, FlowStates
<1>. QED
  BY <1>1 DEF Over, FlowStates

\* The next sleep fits into the deadline, or the flow is over; and a flow that
\* has a status keeps one.
LEMMA NextPollIsOK ==
    ASSUME NEW fl \in FlowStates
    PROVE  /\ NextPoll(fl) \in FlowStates
           /\ NextPoll(fl).phase \in {"asleep", "over"}
           /\ NextPoll(fl).phase = "asleep" => NextPoll(fl).interval <= NextPoll(fl).waited
           /\ fl.status # "none" => NextPoll(fl).status # "none"
<1>. DEFINE slept == [fl EXCEPT !.phase = "asleep", !.waited = @ + fl.interval]
<1>1. fl.status \in {"none", "pending", "success", "failed"}
  BY DEF FlowStates
<1>2. CASE fl.cancelled
  BY <1>1, <1>2, OverIsOK DEF NextPoll
<1>3. CASE ~ fl.cancelled /\ fl.waited + fl.interval > Deadline
  BY <1>3, OverIsOK DEF NextPoll
<1>4. CASE ~ fl.cancelled /\ ~ fl.waited + fl.interval > Deadline
  <2>1. NextPoll(fl) = slept
    BY <1>4 DEF NextPoll
  <2>2. slept.waited \in 0 .. Deadline /\ slept.interval <= slept.waited
    BY <1>4, Bounds DEF FlowStates
  <2>3. slept \in FlowStates /\ slept.phase = "asleep" /\ slept.status = fl.status
    BY <2>2 DEF FlowStates
  <2>. QED
    BY <2>1, <2>2, <2>3
<1>. QED
  BY <1>2, <1>3, <1>4

\* What a step makes of one flow is all there is to show.
FlowIsOK(f, fl) ==
    /\ fl \in FlowStates
    /\ f \in current => fl.status # "none"
    /\ fl.phase \in {"none", "asking"} => fl.status = "none"
    /\ fl.phase \in {"asleep", "redeeming"} => fl.interval <= fl.waited

LEMMA OneFlowChanges ==
    ASSUME FlowsOK, NEW f \in Flows, NEW fl, flows' = [flows EXCEPT ![f] = fl],
           FlowIsOK(f, fl), UNCHANGED current
    PROVE  FlowsOK'
BY DEF FlowsOK, FlowIsOK

\* A redeeming flow whose poll goes on, with one of its counters raised.
LEMMA PollsAgain ==
    ASSUME FlowsOK, NEW f \in Flows, flows[f].phase = "redeeming", NEW fl \in FlowStates,
           fl.status = flows[f].status
    PROVE  FlowIsOK(f, NextPoll(fl))
<1>1. f \in current => fl.status # "none"
  BY DEF FlowsOK
<1>. QED
  BY <1>1, NextPollIsOK DEF FlowIsOK

LEMMA FlowsStep == ASSUME Inv, Next PROVE FlowsOK'
<1>. USE Bounds
<1>1. FlowsOK /\ \A f \in Flows : FlowIsOK(f, flows[f])
  BY DEF Inv, FlowsOK, FlowIsOK
<1>2. CASE UNCHANGED <<flows, current>>
  BY <1>1, <1>2 DEF FlowsOK
<1>4. Cancelled \in [Flows -> FlowStates] /\ \A f \in Flows : FlowIsOK(f, Cancelled[f])
  <2>1. ASSUME NEW f \in Flows PROVE Cancelled[f] \in FlowStates /\ FlowIsOK(f, Cancelled[f])
    <3>1. CASE f \in current /\ flows[f].status = "pending"
      <4>1. Cancelled[f] = [flows[f] EXCEPT !.cancelled = TRUE, !.status = "failed"]
        BY <3>1 DEF Cancelled
      <4>2. FlowIsOK(f, flows[f]) /\ flows[f].phase \notin {"none", "asking"}
        BY <1>1, <3>1 DEF FlowIsOK
      <4>. QED
        BY <4>1, <4>2 DEF FlowIsOK, FlowStates
    <3>2. CASE ~ (f \in current /\ flows[f].status = "pending")
      <4>1. Cancelled[f] = flows[f]
        BY <3>2, Zenon DEF Cancelled
      <4>. QED
        BY <1>1, <4>1 DEF FlowIsOK
    <3>. QED
      BY <3>1, <3>2
  <2>. QED
    BY <2>1 DEF Cancelled
<1>5. ASSUME NEW f \in Flows, StartFlow(f) PROVE FlowsOK'
  <2>. DEFINE fl == [Cancelled[f] EXCEPT !.phase = "asking"]
  <2>1. f \notin current /\ flows[f].status = "none" /\ Cancelled[f] = flows[f]
    BY <1>1, <1>5 DEF StartFlow, FlowsOK, Cancelled
  <2>2. FlowIsOK(f, fl)
    BY <1>4, <2>1 DEF FlowIsOK, FlowStates
  <2>3. flows' = [Cancelled EXCEPT ![f] = fl] /\ UNCHANGED current
    BY <1>5 DEF StartFlow
  <2>. QED
    BY <1>1, <1>4, <2>2, <2>3 DEF FlowsOK, FlowIsOK
<1>6. ASSUME NEW f \in Flows, FlowBegins(f) PROVE FlowsOK'
  <2>. DEFINE fl == [flows[f] EXCEPT !.status = "pending"]
  <2>1. fl \in FlowStates /\ fl.status # "none"
    BY <1>1 DEF FlowsOK, FlowStates
  <2>2. NextPoll(fl).status # "none" /\ FlowIsOK(f, NextPoll(fl))
    BY <2>1, NextPollIsOK DEF FlowIsOK
  <2>3. flows' = [flows EXCEPT ![f] = NextPoll(fl)] /\ current' = {f}
    BY <1>6 DEF FlowBegins
  <2>. HIDE DEF fl
  <2>. QED
    BY <1>1, <2>2, <2>3 DEF FlowsOK, FlowIsOK
<1>7. ASSUME NEW f \in Flows, NoCode(f) PROVE FlowsOK'
  <2>1. f \notin current
    BY <1>1, <1>7 DEF NoCode, FlowsOK
  <2>. QED
    BY <1>1, <1>7, <2>1, OverIsOK, OneFlowChanges DEF NoCode, FlowIsOK
<1>8. ASSUME NEW f \in Flows, Wake(f) PROVE FlowsOK'
  <2>1. FlowIsOK(f, Over(flows[f].status)) /\ FlowIsOK(f, [flows[f] EXCEPT !.phase = "redeeming"])
    BY <1>1, <1>8, OverIsOK DEF Wake, FlowIsOK, FlowStates
  <2>. QED
    BY <1>1, <1>8, <2>1, OneFlowChanges DEF Wake
<1>9. ASSUME NEW f \in Flows, FlowHears(f) PROVE FlowsOK'
  <2>. DEFINE slower == [flows[f] EXCEPT !.interval = @ + 1]
              again == [flows[f] EXCEPT !.transient = @ + 1]
  <2>1. /\ flows[f].phase = "redeeming" /\ flows[f] \in FlowStates
        /\ flows[f].interval <= flows[f].waited /\ UNCHANGED current
    BY <1>1, <1>9 DEF FlowHears, FlowsOK
  <2>2. FlowIsOK(f, Over("success")) /\ FlowIsOK(f, Over("failed")) /\ FlowIsOK(f, NextPoll(flows[f]))
    BY <1>1, <2>1, OverIsOK, PollsAgain DEF FlowIsOK
  <2>3. FlowIsOK(f, NextPoll(slower))
    <3>1. slower \in FlowStates /\ slower.status = flows[f].status
      BY <2>1 DEF FlowStates
    <3>. QED
      BY <1>1, <2>1, <3>1, PollsAgain
  <2>4. flows[f].transient < MaxTransientPolls => FlowIsOK(f, NextPoll(again))
    <3>1. flows[f].transient < MaxTransientPolls => again \in FlowStates /\ again.status = flows[f].status
      BY <2>1 DEF FlowStates
    <3>. QED
      BY <1>1, <2>1, <3>1, PollsAgain
  <2>5. \E fl : flows' = [flows EXCEPT ![f] = fl] /\ FlowIsOK(f, fl)
    <3>1. flows[f].transient >= MaxTransientPolls \/ flows[f].transient < MaxTransientPolls
      BY <2>1 DEF FlowStates
    <3>2. \/ flows' = [flows EXCEPT ![f] = Over("success")]
          \/ flows' = [flows EXCEPT ![f] = Over("failed")]
          \/ flows' = [flows EXCEPT ![f] = NextPoll(flows[f])]
          \/ flows' = [flows EXCEPT ![f] = NextPoll(slower)]
          \/ flows[f].transient < MaxTransientPolls /\ flows' = [flows EXCEPT ![f] = NextPoll(again)]
      <4>1. CASE FlowStores(f)
        BY <4>1 DEF FlowStores
      <4>2. CASE FlowGoesOn(f)
        <5>1. \/ flows' = [flows EXCEPT ![f] = NextPoll(flows[f])]
              \/ flows' = [flows EXCEPT ![f] = NextPoll(slower)]
              \/ flows' = [flows EXCEPT ![f] = Over("failed")]
              \/ flows' = [flows EXCEPT ![f] = IF flows[f].transient >= MaxTransientPolls
                                               THEN Over("failed") ELSE NextPoll(again)]
          BY <4>2 DEF FlowGoesOn
        <5>. HIDE DEF again, slower
        <5>. QED
          BY <3>1, <5>1
      <4>. QED
        BY <1>9, <4>1, <4>2 DEF FlowHears
    <3>. QED
      BY <2>2, <2>3, <2>4, <3>2
  <2>. QED
    BY <1>1, <2>1, <2>5, OneFlowChanges
<1>10. CASE CancelFlow
  BY <1>1, <1>4, <1>10 DEF CancelFlow, FlowsOK, FlowIsOK
<1>11. CASE Crash
  BY <1>11, OverIsOK DEF Crash, FlowsOK, FlowStates, NoFlow
<1>12. ASSUME NEW c \in Callers, Ask(c) \/ Working(c) PROVE FlowsOK'
  BY <1>2, <1>12 DEF Ask, Working, Exchange, Settle, Resend
<1>13. CASE Rounding \/ NotSynced
  BY <1>2, <1>13 DEF Rounding, BeginRound, Synced, RecordFailure, NotSynced
<1>14. CASE GoStale \/ Revoke \/ Paste \/ Switch \/ Remove \/ SmtpRefused
  BY <1>2, <1>14 DEF GoStale, Revoke, Paste, Switch, Remove, SmtpRefused
<1>. QED
  BY <1>5, <1>6, <1>7, <1>8, <1>9, <1>10, <1>11, <1>12, <1>13, <1>14 DEF Next, Polling

-----------------------------------------------------------------------------
(* The refresh that is under way                                           *)

LEMMA NoRefreshIsOK ==
    /\ NoRefresh \in RefreshStates /\ NoReply \in Replies
    /\ NoRefresh.phase = "none" /\ NoRefresh.waiting = {} /\ NoRefresh.reply = NoReply
    /\ NoReply.kind = "none"
<1>1. NoReply \in Replies /\ NoReply.kind = "none"
  BY DEF NoReply, Replies
<1>. QED
  BY <1>1, Bounds DEF NoRefresh, RefreshStates

LEMMA RoundsAreOK ==
    /\ Idle \in RoundStates /\ Idle.phase = "idle" /\ Idle.about = None
    /\ Connecting \in RoundStates /\ Connecting.phase = "connecting" /\ Connecting.about = None
    /\ Waiting \in RoundStates /\ Waiting.phase = "waiting" /\ Waiting.about = None
    /\ \A kind \in {"auth", "transient", "unknown"}, resolved \in BOOLEAN, about \in Tokens \union {None} :
          /\ Failed(kind, resolved, about) \in RoundStates
          /\ Failed(kind, resolved, about).phase = "failed"
          /\ Failed(kind, resolved, about).kind = kind
          /\ Failed(kind, resolved, about).about = about
BY DEF Idle, Connecting, Waiting, Failed, RoundStates

\* A caller joins the refresh, or leads one of its own.
Joins(c) ==
    \E l \in leader :
        /\ refreshes' = [refreshes EXCEPT ![l] = [refreshes[l] EXCEPT !.waiting = @ \union {c}]]
        /\ UNCHANGED leader
Leads(c) ==
    /\ leader = {} /\ leader' = {c}
    /\ refreshes' = [refreshes EXCEPT ![c] =
            [NoRefresh EXCEPT !.phase = "sent", !.token = row.refresh, !.waiting = {c}]]

LEMMA RefreshIs ==
    ASSUME RefreshOK, NEW c \in Callers, Refresh(c) PROVE Joins(c) \/ Leads(c)
<1>1. CASE leader = {}
  BY <1>1 DEF Refresh, Joinable, Leads
<1>2. CASE leader # {}
  <2>1. PICK l \in leader : leader = {l}
    BY <1>2 DEF RefreshOK
  <2>2. refreshes' = [m \in Callers |->
            IF m \in leader THEN [refreshes[m] EXCEPT !.waiting = @ \union {c}] ELSE refreshes[m]]
    BY <1>2 DEF Refresh, Joinable
  <2>3. refreshes' = [refreshes EXCEPT ![l] = [refreshes[l] EXCEPT !.waiting = @ \union {c}]]
    BY <2>1, <2>2 DEF RefreshOK
  <2>. QED
    BY <1>2, <2>1, <2>3 DEF Refresh, Joinable, Joins
<1>. QED
  BY <1>1, <1>2

\* What the refreshes and the round look like once a caller asks.
LEMMA RefreshStarts ==
    ASSUME RefreshOK, GrantOK, NEW c \in Callers, Refresh(c), round' \in RoundStates,
           c = Round => round'.phase = "waiting",
           c # Round => round' = round
    PROVE  RefreshOK'
<1>1. CASE Joins(c)
  <2>1. PICK l \in leader :
          /\ refreshes' = [refreshes EXCEPT ![l] = [refreshes[l] EXCEPT !.waiting = @ \union {c}]]
          /\ UNCHANGED leader
    BY <1>1 DEF Joins
  <2>. DEFINE r == [refreshes[l] EXCEPT !.waiting = @ \union {c}]
  <2>2. /\ l \in Callers /\ r \in RefreshStates /\ r.phase = refreshes[l].phase
        /\ r.waiting = refreshes[l].waiting \union {c}
    BY DEF RefreshOK, RefreshStates
  <2>. HIDE DEF r
  <2>3. /\ refreshes' \in [Callers -> RefreshStates]
        /\ refreshes'[l] = r /\ \A d \in Callers \ {l} : refreshes'[d] = refreshes[d]
    BY <2>1, <2>2 DEF RefreshOK, r
  <2>4. \A d \in Callers : refreshes'[d].phase # "none" <=> refreshes'[d].waiting # {}
    BY <2>2, <2>3 DEF RefreshOK
  <2>5. round'.phase = "waiting" <=> \E d \in Callers : Round \in refreshes'[d].waiting
    BY <2>2, <2>3 DEF RefreshOK
  <2>6. leader' = {d \in Callers : refreshes'[d].phase # "none"}
    BY <2>1, <2>2, <2>3 DEF RefreshOK
  <2>. QED
    BY <2>1, <2>3, <2>4, <2>5, <2>6 DEF RefreshOK
<1>2. CASE Leads(c)
  <2>. DEFINE r == [NoRefresh EXCEPT !.phase = "sent", !.token = row.refresh, !.waiting = {c}]
  <2>1. r \in RefreshStates /\ r.phase = "sent" /\ r.waiting = {c}
    BY NoRefreshIsOK DEF RefreshStates, GrantOK, Rows
  <2>2. leader = {} /\ leader' = {c} /\ refreshes' = [refreshes EXCEPT ![c] = r]
    BY <1>2 DEF Leads
  <2>. HIDE DEF r
  <2>3. /\ refreshes' \in [Callers -> RefreshStates]
        /\ refreshes'[c] = r /\ \A d \in Callers \ {c} : refreshes'[d] = refreshes[d]
    BY <2>1, <2>2 DEF RefreshOK
  <2>4. \A d \in Callers : refreshes[d].phase = "none" /\ refreshes[d].waiting = {}
    BY <2>2 DEF RefreshOK
  <2>. QED
    BY <2>1, <2>2, <2>3, <2>4 DEF RefreshOK
<1>. QED
  BY <1>1, <1>2, RefreshIs

\* The promise settles: nothing is under way, and the round has heard of it.
LEMMA RefreshSettles ==
    ASSUME RefreshOK, NEW c \in leader, Settles(c), NEW outcome \in RoundStates,
           outcome.phase # "waiting", RoundGets(refreshes[c].waiting, outcome)
    PROVE  RefreshOK' /\ leader' = {} /\ \A d \in Callers : refreshes'[d].phase = "none"
<1>1. /\ c \in Callers /\ leader' = {} /\ refreshes' = [refreshes EXCEPT ![c] = NoRefresh]
  BY DEF RefreshOK, Settles
<1>2. \A d \in Callers \ {c} : refreshes[d].phase = "none" /\ refreshes[d].waiting = {}
  BY DEF RefreshOK
<1>3. /\ refreshes' \in [Callers -> RefreshStates]
      /\ \A d \in Callers : refreshes'[d].phase = "none" /\ refreshes'[d].waiting = {}
  BY <1>1, <1>2, NoRefreshIsOK DEF RefreshOK
<1>4. round' \in RoundStates /\ round'.phase # "waiting"
  <2>1. CASE Round \in refreshes[c].waiting
    BY <2>1 DEF RoundGets
  <2>2. CASE Round \notin refreshes[c].waiting
    BY <1>1, <1>2, <2>2 DEF RoundGets, RefreshOK
  <2>. QED
    BY <2>1, <2>2
<1>. QED
  BY <1>1, <1>3, <1>4 DEF RefreshOK

\* The refresh goes on, with the same callers.
LEMMA RefreshGoesOn ==
    ASSUME RefreshOK, NEW c \in leader, NEW r \in RefreshStates, r.phase # "none",
           r.waiting = refreshes[c].waiting, refreshes' = [refreshes EXCEPT ![c] = r],
           r.phase = "backoff" => r.attempt < MaxAttempts - 1,
           UNCHANGED <<leader, round>>
    PROVE  RefreshOK'
<1>1. /\ c \in Callers /\ refreshes' \in [Callers -> RefreshStates]
      /\ refreshes'[c] = r /\ \A d \in Callers \ {c} : refreshes'[d] = refreshes[d]
  BY DEF RefreshOK
<1>2. leader' = {d \in Callers : refreshes'[d].phase # "none"}
  BY <1>1 DEF RefreshOK
<1>3. \A d \in Callers : refreshes'[d].waiting = refreshes[d].waiting
  BY <1>1
<1>. QED
  BY <1>1, <1>2, <1>3 DEF RefreshOK

\* A step of the round alone, that neither starts nor ends its wait.
LEMMA RoundMoves ==
    ASSUME RefreshOK, UNCHANGED <<leader, refreshes>>, round' \in RoundStates,
           round.phase = "waiting" <=> round'.phase = "waiting"
    PROVE  RefreshOK'
BY DEF RefreshOK

LEMMA RefreshStep == ASSUME Inv, Next PROVE RefreshOK'
<1>. USE Bounds
<1>1. RefreshOK /\ GrantOK
  BY DEF Inv
<1>2. \A c \in Callers : refreshes[c].phase # "none" => c \in leader
  BY <1>1 DEF RefreshOK
<1>3. round \in RoundStates
  BY <1>1 DEF RefreshOK
<1>4. CASE UNCHANGED <<leader, refreshes, round>>
  BY <1>1, <1>4 DEF RefreshOK
<1>5. ASSUME NEW c \in Callers, Ask(c) PROVE RefreshOK'
  <2>1. c \in Others /\ Refresh(c) /\ UNCHANGED round
    BY <1>5 DEF Ask
  <2>. QED
    BY <1>1, <1>3, <2>1, RefreshStarts
<1>6. CASE BeginRound
  <2>1. CASE row.fresh
    BY <1>1, <1>6, <2>1, RoundMoves, RoundsAreOK DEF BeginRound
  <2>2. CASE ~ row.fresh
    BY <1>1, <1>6, <2>2, RefreshStarts, RoundsAreOK DEF BeginRound
  <2>. QED
    BY <2>1, <2>2
<1>7. ASSUME NEW c \in Callers, Exchange(c) PROVE RefreshOK'
  <2>1. PICK reply \in Replies :
          refreshes' = [refreshes EXCEPT ![c] = [refreshes[c] EXCEPT !.phase = "answered", !.reply = reply]]
    <3>1. PICK reply \in Replies :
            refreshes' = [refreshes EXCEPT ![c].phase = "answered", ![c].reply = reply]
      BY <1>7 DEF Exchange
    <3>. QED
      BY <1>1, <3>1 DEF RefreshOK, RefreshStates
  <2>2. c \in leader /\ UNCHANGED <<leader, round>>
    BY <1>2, <1>7 DEF Exchange
  <2>. DEFINE r == [refreshes[c] EXCEPT !.phase = "answered", !.reply = reply]
  <2>3. r \in RefreshStates /\ r.phase = "answered" /\ r.waiting = refreshes[c].waiting
    <3>1. refreshes[c] \in RefreshStates
      BY <1>1 DEF RefreshOK
    <3>. QED
      BY <3>1 DEF RefreshStates
  <2>. QED
    BY <1>1, <2>1, <2>2, <2>3, RefreshGoesOn
<1>8. ASSUME NEW c \in Callers, Settle(c) PROVE RefreshOK'
  <2>1. c \in leader
    BY <1>2, <1>8 DEF Settle
  <2>2. refreshes[c].token \in Tokens \union {None} /\ refreshes[c] \in RefreshStates
    BY <1>1 DEF RefreshOK, RefreshStates
  <2>3. CASE Renewed(c)
    <3>1. Connecting \in RoundStates /\ Connecting.phase # "waiting"
      BY RoundsAreOK
    <3>. QED
      BY <1>1, <2>1, <2>3, <3>1, RefreshSettles DEF Renewed
  <2>4. CASE NotStored(c)
    <3>1. /\ Failed("unknown", FALSE, None) \in RoundStates
          /\ Failed("unknown", FALSE, None).phase # "waiting"
      BY RoundsAreOK
    <3>. QED
      BY <1>1, <2>1, <2>4, <3>1, RefreshSettles DEF NotStored
  <2>5. CASE Refused(c)
    <3>1. /\ Failed("auth", FALSE, refreshes[c].token) \in RoundStates
          /\ Failed("auth", FALSE, refreshes[c].token).phase # "waiting"
      BY <2>2, RoundsAreOK
    <3>. QED
      BY <1>1, <2>1, <2>5, <3>1, RefreshSettles DEF Refused
  <2>6. CASE PutOff(c)
    <3>1. CASE Settles(c) /\ RoundGets(refreshes[c].waiting, Failed("transient", FALSE, None))
      <4>1. /\ Failed("transient", FALSE, None) \in RoundStates
            /\ Failed("transient", FALSE, None).phase # "waiting"
        BY RoundsAreOK
      <4>. QED
        BY <1>1, <2>1, <3>1, <4>1, RefreshSettles
    <3>2. CASE /\ refreshes[c].attempt < MaxAttempts - 1
               /\ refreshes' = [refreshes EXCEPT ![c].phase = "backoff", ![c].reply = NoReply]
               /\ UNCHANGED <<leader, round>>
      <4>. DEFINE r == [refreshes[c] EXCEPT !.phase = "backoff", !.reply = NoReply]
      <4>1. /\ r \in RefreshStates /\ r.phase = "backoff" /\ r.waiting = refreshes[c].waiting
            /\ r.attempt = refreshes[c].attempt
        BY <2>2, NoRefreshIsOK DEF RefreshStates
      <4>2. refreshes' = [refreshes EXCEPT ![c] = r]
        BY <1>1, <2>2, <3>2 DEF RefreshOK, RefreshStates
      <4>. QED
        BY <1>1, <2>1, <3>2, <4>1, <4>2, RefreshGoesOn
    <3>. QED
      BY <2>6, <3>1, <3>2 DEF PutOff
  <2>. QED
    BY <1>8, <2>3, <2>4, <2>5, <2>6 DEF Settle
<1>9. ASSUME NEW c \in Callers, Resend(c) PROVE RefreshOK'
  <2>. DEFINE r == [refreshes[c] EXCEPT !.phase = "sent", !.attempt = @ + 1]
  <2>1. c \in leader /\ refreshes[c] \in RefreshStates /\ refreshes[c].attempt < MaxAttempts - 1
    BY <1>1, <1>2, <1>9 DEF Resend, RefreshOK
  <2>2. r \in RefreshStates /\ r.phase = "sent" /\ r.waiting = refreshes[c].waiting
    <3>1. refreshes[c].attempt + 1 \in 0 .. (MaxAttempts - 1)
      BY <2>1 DEF RefreshStates
    <3>. QED
      BY <2>1, <3>1 DEF RefreshStates
  <2>3. refreshes' = [refreshes EXCEPT ![c] = r]
    BY <1>1, <1>9, <2>1 DEF Resend, RefreshOK, RefreshStates
  <2>. QED
    BY <1>1, <1>9, <2>1, <2>2, <2>3, RefreshGoesOn DEF Resend
<1>10. CASE Synced \/ NotSynced \/ RecordFailure
  <2>1. round.phase # "waiting"
    BY <1>10 DEF Synced, NotSynced, RecordFailure
  <2>2. \/ round' = Idle
        \/ \E kind \in {"auth", "transient", "unknown"}, resolved \in BOOLEAN :
              round' = Failed(kind, resolved, None)
    BY <1>10 DEF Synced, NotSynced, RecordFailure
  <2>3. round' \in RoundStates /\ round'.phase # "waiting"
    BY <2>2, RoundsAreOK
  <2>. QED
    BY <1>1, <1>10, <2>1, <2>3, RoundMoves DEF Synced, NotSynced, RecordFailure
<1>11. CASE Crash
  BY <1>11, NoRefreshIsOK, RoundsAreOK DEF Crash, RefreshOK
<1>12. ASSUME NEW f \in Flows, StartFlow(f) \/ NoCode(f) \/ Polling(f) PROVE RefreshOK'
  BY <1>4, <1>12 DEF StartFlow, NoCode, Polling, FlowBegins, Wake, FlowHears
<1>13. CASE CancelFlow \/ GoStale \/ Revoke \/ Paste \/ Switch \/ Remove \/ SmtpRefused
  BY <1>4, <1>13 DEF CancelFlow, GoStale, Revoke, Paste, Switch, Remove, SmtpRefused
<1>. QED
  BY <1>5, <1>6, <1>7, <1>8, <1>9, <1>10, <1>11, <1>12, <1>13 DEF Next, Working, Rounding

-----------------------------------------------------------------------------
(* The tokens                                                              *)

LEMMA RowTypes ==
    ASSUME NEW r \in Rows PROVE r.refresh \in Tokens /\ r.fresh \in BOOLEAN /\ r.status \in Statuses
BY DEF Rows

\* The row keeps its refresh token, and everything else stays.
LEMMA GrantKept ==
    ASSUME GrantOK, UNCHANGED <<fate, leader, refreshes>>, row' \in Rows, row'.refresh = row.refresh
    PROVE  GrantOK'
BY DEF GrantOK, HeldTokens, RowIsKnown

\* Microsoft issues a token for the row, or it takes tokens back.
LEMMA GrantRenewed ==
    ASSUME RefreshOK, GrantOK, UNCHANGED <<leader, refreshes>>, row' \in Rows, NEW t \in Tokens,
           Unborn(t), fate' = [fate EXCEPT ![t] = "alive"], row'.refresh \in {t, row.refresh}
    PROVE  GrantOK'
<1>1. fate' \in [Tokens -> Fates] /\ fate'[t] = "alive" /\ \A u \in Tokens \ {t} : fate'[u] = fate[u]
  BY DEF GrantOK, Fates
<1>2. row.refresh \in Tokens /\ row.refresh # t /\ fate[t] = "unborn"
  BY RowTypes DEF GrantOK, RowIsKnown, Unborn
<1>3. ASSUME NEW c \in leader
      PROVE  /\ refreshes[c].token \in Tokens \ {t}
             /\ refreshes[c].reply.kind = "ok" => refreshes[c].reply.token \in Tokens \ {t}
  <2>1. refreshes[c].reply \in Replies
    BY DEF RefreshOK, RefreshStates
  <2>2. refreshes[c].reply.kind = "ok" => refreshes[c].reply.token \in Tokens
    BY <2>1 DEF Replies
  <2>. QED
    BY <1>2, <2>2 DEF GrantOK, HeldTokens
<1>4. HeldTokens'
  BY <1>1, <1>3 DEF GrantOK, HeldTokens
<1>5. RowIsKnown'
  BY <1>1, <1>2 DEF GrantOK, RowIsKnown
<1>. QED
  BY <1>1, <1>4, <1>5 DEF GrantOK

LEMMA GrantRevoked ==
    ASSUME RefreshOK, GrantOK, UNCHANGED <<leader, refreshes, row>>,
           fate' = [t \in Tokens |-> IF fate[t] = "alive" THEN "revoked" ELSE fate[t]]
    PROVE  GrantOK'
<1>1. fate' \in [Tokens -> Fates] /\ row.refresh \in Tokens
  BY RowTypes DEF GrantOK, Fates
<1>2. \A t \in Tokens : fate'[t] = IF fate[t] = "alive" THEN "revoked" ELSE fate[t]
  OBVIOUS
<1>3. ASSUME NEW c \in leader
      PROVE  /\ refreshes[c].token \in Tokens
             /\ refreshes[c].reply.kind = "ok" => refreshes[c].reply.token \in Tokens
  <2>1. refreshes[c].reply \in Replies
    BY DEF RefreshOK, RefreshStates
  <2>. QED
    BY <2>1 DEF Replies, GrantOK, HeldTokens
<1>4. HeldTokens'
  BY <1>2, <1>3 DEF GrantOK, HeldTokens
<1>5. RowIsKnown'
  BY <1>1, <1>2 DEF GrantOK, RowIsKnown
<1>. QED
  BY <1>1, <1>4, <1>5 DEF GrantOK

\* A refresh begins with the token of the row, or a caller joins the one there is.
LEMMA GrantAsked ==
    ASSUME RefreshOK, GrantOK, NEW c \in Callers, Refresh(c), UNCHANGED <<row, fate>>
    PROVE  GrantOK'
<1>1. CASE Joins(c)
  <2>1. PICK l \in leader :
          /\ refreshes' = [refreshes EXCEPT ![l] = [refreshes[l] EXCEPT !.waiting = @ \union {c}]]
          /\ UNCHANGED leader
    BY <1>1 DEF Joins
  <2>2. \A d \in leader : /\ refreshes'[d].token = refreshes[d].token
                          /\ refreshes'[d].phase = refreshes[d].phase
                          /\ refreshes'[d].reply = refreshes[d].reply
    BY <2>1 DEF RefreshOK, RefreshStates
  <2>. QED
    BY <2>1, <2>2 DEF GrantOK, HeldTokens, RowIsKnown
<1>2. CASE Leads(c)
  <2>1. leader = {} /\ leader' = {c} /\ fate[row.refresh] \notin {"unborn", "rotated"}
    BY <1>2 DEF Leads, GrantOK, RowIsKnown
  <2>2. refreshes'[c].phase = "sent" /\ refreshes'[c].token = row.refresh /\ refreshes'[c].reply.kind = "none"
    BY <1>2, NoRefreshIsOK DEF Leads, RefreshOK, RefreshStates
  <2>3. row.refresh \in Tokens
    BY RowTypes DEF GrantOK
  <2>. QED
    BY <2>1, <2>2, <2>3 DEF GrantOK, HeldTokens, RowIsKnown
<1>. QED
  BY <1>1, <1>2, RefreshIs

\* Nothing is under way any more, and the token in the row is a good one or one
\* that is known to be worth nothing.
LEMMA GrantSettled ==
    ASSUME leader' = {}, row' \in Rows, fate' \in [Tokens -> Fates],
           fate'[row'.refresh] \notin {"unborn", "rotated"}
    PROVE  GrantOK'
BY DEF GrantOK, HeldTokens, RowIsKnown

\* What the one refresh under way says of its token and of the row's.
LEMMA TheRefresh ==
    ASSUME RefreshOK, GrantOK, NEW c \in leader
    PROVE  /\ c \in Callers /\ leader = {c}
           /\ refreshes[c] \in RefreshStates /\ refreshes[c].reply \in Replies
           /\ refreshes[c].reply.kind = "ok" => refreshes[c].reply.token \in Tokens
           /\ row.refresh \in Tokens /\ fate[row.refresh] # "unborn"
           /\ fate[row.refresh] = "rotated"
                 => refreshes[c].reply.kind = "ok" /\ refreshes[c].token = row.refresh
<1>1. c \in Callers /\ leader = {c} /\ refreshes[c] \in RefreshStates
  BY DEF RefreshOK
<1>2. refreshes[c].reply \in Replies
  BY <1>1 DEF RefreshStates
<1>3. refreshes[c].reply.kind = "ok" => refreshes[c].reply.token \in Tokens
  BY <1>2 DEF Replies
<1>. QED
  BY <1>1, <1>2, <1>3, RowTypes DEF GrantOK, RowIsKnown

\* The refresh goes on with its token.
LEMMA GrantGoesOn ==
    ASSUME RefreshOK, GrantOK, NEW c \in leader, NEW r \in RefreshStates,
           refreshes' = [refreshes EXCEPT ![c] = r], UNCHANGED <<leader, row, fate>>,
           r.token = refreshes[c].token, refreshes[c].reply.kind # "ok",
           r.reply.kind \notin {"ok", "terminal"}, r.phase = "answered" <=> r.reply.kind # "none"
    PROVE  GrantOK'
<1>1. leader' = {c} /\ refreshes'[c] = r /\ fate[row.refresh] # "rotated"
  BY TheRefresh DEF RefreshOK
<1>. QED
  BY <1>1 DEF GrantOK, HeldTokens, RowIsKnown

LEMMA GrantExchanged ==
    ASSUME RefreshOK, GrantOK, NEW c \in Callers, Exchange(c)
    PROVE  GrantOK'
<1>. DEFINE tk == refreshes[c].token
<1>1. c \in leader /\ UNCHANGED <<row, leader>>
  BY DEF Exchange, RefreshOK
<1>2. PICK reply \in Replies :
        /\ Exchanged(tk, reply)
        /\ refreshes' = [refreshes EXCEPT ![c].phase = "answered", ![c].reply = reply]
  BY DEF Exchange
<1>3. /\ leader' = {c} /\ row.refresh \in Tokens /\ tk \in Tokens /\ fate \in [Tokens -> Fates]
      /\ fate[tk] \notin {"unborn", "rotated"} /\ fate[row.refresh] \notin {"unborn", "rotated"}
  <2>1. refreshes[c].reply.kind = "none"
    BY <1>1 DEF GrantOK, HeldTokens, Exchange
  <2>. QED
    BY <1>1, <2>1, TheRefresh DEF GrantOK, HeldTokens
<1>4. refreshes'[c].phase = "answered" /\ refreshes'[c].token = tk /\ refreshes'[c].reply = reply
  BY <1>2 DEF RefreshOK, RefreshStates
<1>. HIDE DEF tk
<1>5. SUFFICES /\ fate' \in [Tokens -> Fates]
               /\ fate'[tk] # "unborn" /\ fate'[row.refresh] # "unborn" /\ reply.kind # "none"
               /\ reply.kind # "ok" => fate'[tk] # "rotated" /\ fate'[row.refresh] # "rotated"
               /\ reply.kind = "ok" => fate'[reply.token] \notin {"unborn", "rotated"}
               /\ fate'[row.refresh] = "rotated" => tk = row.refresh
               /\ reply.kind = "terminal" => fate'[tk] # "alive"
  BY <1>1, <1>3, <1>4 DEF GrantOK, HeldTokens, RowIsKnown
<1>6. CASE UNCHANGED fate /\ (reply.kind = "kept" \/ reply.kind = "soft")
  BY <1>3, <1>6
<1>7. CASE UNCHANGED fate /\ fate[tk] # "alive" /\ reply.kind = "terminal"
  BY <1>3, <1>7
<1>8. ASSUME NEW t \in Tokens, Unborn(t), NEW old \in {"rotated", "lost"},
             fate' = [fate EXCEPT ![tk] = old, ![t] = "alive"],
             IF old = "rotated" THEN reply.kind = "ok" /\ reply.token = t ELSE reply.kind = "soft"
      PROVE  /\ fate' \in [Tokens -> Fates]
             /\ fate'[tk] # "unborn" /\ fate'[row.refresh] # "unborn" /\ reply.kind # "none"
             /\ reply.kind # "ok" => fate'[tk] # "rotated" /\ fate'[row.refresh] # "rotated"
             /\ reply.kind = "ok" => fate'[reply.token] \notin {"unborn", "rotated"}
             /\ fate'[row.refresh] = "rotated" => tk = row.refresh
             /\ reply.kind = "terminal" => fate'[tk] # "alive"
  <2>1. t # tk /\ t # row.refresh
    BY <1>3, <1>8 DEF Unborn
  <2>2. /\ fate' \in [Tokens -> Fates] /\ fate'[tk] = old /\ fate'[t] = "alive"
        /\ row.refresh # tk => fate'[row.refresh] = fate[row.refresh]
    BY <1>3, <1>8, <2>1 DEF Fates
  <2>. QED
    BY <1>3, <1>8, <2>1, <2>2
<1>9. \/ UNCHANGED fate /\ (reply.kind = "kept" \/ reply.kind = "soft")
      \/ UNCHANGED fate /\ fate[tk] # "alive" /\ reply.kind = "terminal"
      \/ \E t \in Tokens, old \in {"rotated", "lost"} :
            /\ Unborn(t) /\ fate' = [fate EXCEPT ![tk] = old, ![t] = "alive"]
            /\ IF old = "rotated" THEN reply.kind = "ok" /\ reply.token = t ELSE reply.kind = "soft"
  BY <1>2 DEF Exchanged
<1>. QED
  BY <1>6, <1>7, <1>8, <1>9

LEMMA StoredIsOK ==
    ASSUME GrantOK, NEW reply \in Replies, reply.kind = "ok" => reply.token \in Tokens
    PROVE  /\ Stored(reply) \in Rows
           /\ Stored(reply).refresh = IF reply.kind = "ok" THEN reply.token ELSE row.refresh
           /\ Stored(reply).status = IF row.status = "auth_error" THEN "active" ELSE row.status
<1>1. row.refresh \in Tokens /\ row.status \in Statuses
  BY RowTypes DEF GrantOK
<1>. QED
  BY <1>1 DEF Stored, Rows, Statuses

LEMMA GrantSettles ==
    ASSUME RefreshOK, GrantOK, NEW c \in Callers, Settle(c)
    PROVE  GrantOK'
<1>1. /\ c \in leader /\ row \in Rows /\ fate \in [Tokens -> Fates]
      /\ refreshes[c].phase = "answered" /\ refreshes[c].reply.kind # "none"
  BY DEF Settle, RefreshOK, GrantOK, HeldTokens
<1>2. /\ c \in Callers /\ leader = {c} /\ refreshes[c] \in RefreshStates
      /\ refreshes[c].reply \in Replies /\ refreshes[c].token \in Tokens
      /\ refreshes[c].reply.kind = "ok" =>
            /\ refreshes[c].reply.token \in Tokens
            /\ fate[refreshes[c].reply.token] \notin {"unborn", "rotated"}
      /\ row.refresh \in Tokens /\ fate[row.refresh] # "unborn"
      /\ fate[row.refresh] = "rotated"
            => refreshes[c].reply.kind = "ok" /\ refreshes[c].token = row.refresh
  BY <1>1, TheRefresh DEF GrantOK, HeldTokens
<1>3. CASE Renewed(c)
  <2>1. row' = Stored(refreshes[c].reply) /\ leader' = {} /\ UNCHANGED fate
    BY <1>3 DEF Renewed, Settles
  <2>2. row' \in Rows /\ fate[row'.refresh] \notin {"unborn", "rotated"}
    BY <1>2, <2>1, StoredIsOK
  <2>. QED
    BY <1>1, <2>1, <2>2, GrantSettled
<1>4. CASE NotStored(c)
  <2>. DEFINE after == IF refreshes[c].reply.kind = "ok" /\ fate[refreshes[c].token] = "rotated"
                       THEN "lost" ELSE fate[refreshes[c].token]
  <2>1. fate' = [fate EXCEPT ![refreshes[c].token] = after] /\ leader' = {} /\ UNCHANGED row
    BY <1>4 DEF NotStored, Settles
  <2>2. after \in Fates
    BY <1>1, <1>2 DEF Fates
  <2>3. fate' \in [Tokens -> Fates] /\ fate'[row.refresh] \notin {"unborn", "rotated"}
    <3>1. CASE row.refresh = refreshes[c].token
      BY <1>1, <1>2, <2>1, <2>2, <3>1
    <3>2. CASE row.refresh # refreshes[c].token
      BY <1>1, <1>2, <2>1, <2>2, <3>2
    <3>. QED
      BY <3>1, <3>2
  <2>. QED
    BY <1>1, <2>1, <2>3, GrantSettled
<1>5. CASE Refused(c)
  <2>1. row' \in Rows /\ row'.refresh = row.refresh
    <3>1. row' = [row EXCEPT !.status = "auth_error"] \/ row' = row
      BY <1>5 DEF Refused, Updated
    <3>. QED
      BY <1>1, <3>1 DEF Rows, Statuses
  <2>2. leader' = {} /\ UNCHANGED fate /\ refreshes[c].reply.kind # "ok"
    BY <1>5 DEF Refused, Settles
  <2>. QED
    BY <1>1, <1>2, <2>1, <2>2, GrantSettled
<1>6. CASE PutOff(c)
  <2>1. UNCHANGED <<row, fate>> /\ refreshes[c].reply.kind = "soft"
    BY <1>6 DEF PutOff
  <2>2. CASE leader' = {}
    BY <1>1, <1>2, <2>1, <2>2, GrantSettled
  <2>3. CASE refreshes' = [refreshes EXCEPT ![c].phase = "backoff", ![c].reply = NoReply] /\ UNCHANGED leader
    <3>. DEFINE r == [refreshes[c] EXCEPT !.phase = "backoff", !.reply = NoReply]
    <3>1. /\ r \in RefreshStates /\ r.phase = "backoff" /\ r.token = refreshes[c].token
          /\ r.reply.kind = "none"
      BY <1>2, NoRefreshIsOK DEF RefreshStates
    <3>2. refreshes' = [refreshes EXCEPT ![c] = r]
      BY <1>2, <2>3 DEF RefreshOK, RefreshStates
    <3>. HIDE DEF r
    <3>. QED
      BY <1>1, <2>1, <2>3, <3>1, <3>2, GrantGoesOn
  <2>. QED
    BY <1>6, <2>2, <2>3 DEF PutOff, Settles
<1>. QED
  BY <1>3, <1>4, <1>5, <1>6 DEF Settle

LEMMA GrantStep == ASSUME Inv, Next PROVE GrantOK'
<1>1. RefreshOK /\ GrantOK /\ row \in Rows /\ fate \in [Tokens -> Fates]
  BY DEF Inv, GrantOK
<1>2. ASSUME UNCHANGED <<fate, leader, refreshes>>,
             \/ UNCHANGED row
             \/ \E status \in Statuses : row' = [row EXCEPT !.status = status]
             \/ \E fresh \in BOOLEAN : row' = [row EXCEPT !.fresh = fresh]
      PROVE  GrantOK'
  <2>1. row' \in Rows /\ row'.refresh = row.refresh
    BY <1>1, <1>2 DEF Rows
  <2>. QED
    BY <1>1, <1>2, <2>1, GrantKept
<1>3. ASSUME NEW c \in Callers, Ask(c) PROVE GrantOK'
  BY <1>1, <1>3, GrantAsked DEF Ask
<1>4. CASE BeginRound
  <2>1. CASE row.fresh
    BY <1>2, <1>4, <2>1 DEF BeginRound
  <2>2. CASE ~ row.fresh
    BY <1>1, <1>4, <2>2, Bounds, GrantAsked DEF BeginRound
  <2>. QED
    BY <2>1, <2>2
<1>5. ASSUME NEW c \in Callers, Working(c) PROVE GrantOK'
  <2>1. CASE Exchange(c) \/ Settle(c)
    BY <1>1, <2>1, GrantExchanged, GrantSettles
  <2>2. CASE Resend(c)
    <3>. DEFINE r == [refreshes[c] EXCEPT !.phase = "sent", !.attempt = @ + 1]
    <3>1. c \in leader /\ refreshes[c].reply.kind = "none"
      BY <1>1, <2>2 DEF Resend, RefreshOK, GrantOK, HeldTokens
    <3>2. /\ refreshes'[c].phase = "sent" /\ refreshes'[c].token = refreshes[c].token
          /\ refreshes'[c].reply = refreshes[c].reply /\ leader' = {c} /\ UNCHANGED <<row, fate>>
      BY <1>1, <2>2, <3>1 DEF Resend, RefreshOK, RefreshStates
    <3>3. fate[row.refresh] # "rotated"
      BY <1>1, <3>1, TheRefresh
    <3>. QED
      BY <1>1, <3>1, <3>2, <3>3 DEF GrantOK, HeldTokens, RowIsKnown
  <2>. QED
    BY <1>5, <2>1, <2>2 DEF Working
<1>6. CASE Synced \/ NotSynced \/ RecordFailure
  <2>1. \/ UNCHANGED row
        \/ \E status \in Statuses : row' = [row EXCEPT !.status = status]
    <3>1. row.status \in Statuses
      BY <1>1, RowTypes
    <3>. QED
      BY <1>6, <3>1 DEF Synced, NotSynced, RecordFailure, Updated, Statuses
  <2>. QED
    BY <1>2, <1>6, <2>1 DEF Synced, NotSynced, RecordFailure
<1>7. ASSUME NEW f \in Flows, StartFlow(f) \/ NoCode(f) \/ FlowBegins(f) \/ Wake(f) PROVE GrantOK'
  BY <1>2, <1>7 DEF StartFlow, NoCode, FlowBegins, Wake
<1>8. ASSUME NEW f \in Flows, FlowHears(f) PROVE GrantOK'
  <2>1. CASE FlowGoesOn(f)
    BY <1>2, <1>8, <2>1 DEF FlowHears, FlowGoesOn
  <2>2. CASE FlowStores(f)
    <3>1. PICK t \in Tokens :
            /\ Unborn(t) /\ fate' = [fate EXCEPT ![t] = "alive"]
            /\ row' = Stored([kind |-> "ok", token |-> t]) \/ UNCHANGED row
      BY <2>2 DEF FlowStores
    <3>2. row' \in Rows /\ row'.refresh \in {t, row.refresh}
      <4>1. [kind |-> "ok", token |-> t] \in Replies
        BY DEF Replies
      <4>. QED
        BY <1>1, <3>1, <4>1, StoredIsOK
    <3>. QED
      BY <1>1, <1>8, <3>1, <3>2, GrantRenewed DEF FlowHears
  <2>. QED
    BY <1>8, <2>1, <2>2 DEF FlowHears
<1>9. CASE CancelFlow \/ GoStale \/ Switch \/ Remove \/ SmtpRefused
  BY <1>2, <1>9 DEF CancelFlow, GoStale, Switch, Remove, SmtpRefused, Statuses
<1>10. CASE Revoke
  BY <1>1, <1>10, GrantRevoked DEF Revoke
<1>11. CASE Paste
  <2>1. PICK t \in Tokens :
          /\ Unborn(t) /\ fate' = [fate EXCEPT ![t] = "alive"]
          /\ row' = [row EXCEPT !.refresh = t, !.fresh = FALSE]
    BY <1>11 DEF Paste
  <2>2. row' \in Rows /\ row'.refresh = t
    BY <1>1, <2>1 DEF Rows
  <2>. QED
    BY <1>1, <1>11, <2>1, <2>2, GrantRenewed DEF Paste
<1>12. CASE Crash
  <2>1. /\ fate' \in [Tokens -> Fates] /\ leader' = {} /\ UNCHANGED row
        /\ \A t \in Tokens : fate'[t] =
              IF \E c \in Callers : refreshes[c].reply.kind = "ok" /\ refreshes[c].token = t /\ fate[t] = "rotated"
              THEN "lost" ELSE fate[t]
    BY <1>1, <1>12 DEF Crash, Fates
  <2>2. row.refresh \in Tokens
    BY <1>1, RowTypes
  <2>3. fate'[row.refresh] \notin {"unborn", "rotated"}
    BY <1>1, <2>1, <2>2 DEF GrantOK, RowIsKnown, RefreshOK
  <2>. QED
    BY <1>1, <2>1, <2>3, GrantSettled
<1>. QED
  BY <1>3, <1>4, <1>5, <1>6, <1>7, <1>8, <1>9, <1>10, <1>11, <1>12 DEF Next, Rounding, Polling

-----------------------------------------------------------------------------
(* The verdicts                                                            *)

Gone(t) == fate[t] \notin {"alive", "unborn"}

\* A token that is worth nothing stays worthless.
LEMMA GoneForGood ==
    ASSUME Inv, Next, NEW t \in Tokens, Gone(t) PROVE Gone(t)'
<1>1. fate \in [Tokens -> Fates] /\ fate[t] \notin {"alive", "unborn"}
  BY DEF Inv, GrantOK, Gone
<1>2. CASE UNCHANGED fate
  BY <1>1, <1>2 DEF Gone
<1>3. ASSUME NEW u \in Tokens, Unborn(u), fate' = [fate EXCEPT ![u] = "alive"] PROVE Gone(t)'
  BY <1>1, <1>3 DEF Gone, Unborn
<1>4. ASSUME NEW c \in Callers, Exchange(c) PROVE Gone(t)'
  <2>1. PICK reply \in Replies : Exchanged(refreshes[c].token, reply)
    BY <1>4 DEF Exchange
  <2>2. CASE UNCHANGED fate
    BY <1>2, <2>2
  <2>3. CASE \E u \in Tokens : \E old \in {"rotated", "lost"} :
               Unborn(u) /\ fate' = [fate EXCEPT ![refreshes[c].token] = old, ![u] = "alive"]
    BY <1>1, <2>3 DEF Gone, Unborn
  <2>. QED
    BY <2>1, <2>2, <2>3 DEF Exchanged
<1>5. ASSUME NEW c \in Callers, Settle(c) PROVE Gone(t)'
  <2>1. CASE NotStored(c)
    <3>1. \E after : /\ fate' = [fate EXCEPT ![refreshes[c].token] = after]
                     /\ after = "lost" \/ after = fate[refreshes[c].token]
      BY <2>1 DEF NotStored
    <3>. QED
      BY <1>1, <3>1 DEF Gone
  <2>2. CASE ~ NotStored(c)
    BY <1>2, <1>5, <2>2 DEF Settle, Renewed, Refused, PutOff
  <2>. QED
    BY <2>1, <2>2
<1>6. ASSUME NEW f \in Flows, FlowHears(f) PROVE Gone(t)'
  BY <1>2, <1>3, <1>6 DEF FlowHears, FlowStores, FlowGoesOn
<1>7. CASE Revoke \/ Crash
  BY <1>1, <1>7 DEF Revoke, Crash, Gone
<1>8. CASE Paste
  BY <1>3, <1>8 DEF Paste
<1>9. CASE Rounding \/ NotSynced \/ CancelFlow \/ GoStale \/ Switch \/ Remove \/ SmtpRefused
  BY <1>2, <1>9 DEF Rounding, BeginRound, Synced, RecordFailure, NotSynced, CancelFlow, GoStale, Switch, Remove, SmtpRefused
<1>10. ASSUME NEW f \in Flows, StartFlow(f) \/ NoCode(f) \/ FlowBegins(f) \/ Wake(f) PROVE Gone(t)'
  BY <1>2, <1>10 DEF StartFlow, NoCode, FlowBegins, Wake
<1>11. ASSUME NEW c \in Callers, Ask(c) \/ Resend(c) PROVE Gone(t)'
  BY <1>2, <1>11 DEF Ask, Resend
<1>. QED
  BY <1>4, <1>5, <1>6, <1>7, <1>8, <1>9, <1>10, <1>11 DEF Next, Working, Polling

LEMMA OneMoreGrows ==
    ASSUME NEW m \in 0 .. Threshold, NEW n \in 0 .. Threshold, m <= n
    PROVE  OneMore(m) \in 0 .. Threshold /\ OneMore(m) <= OneMore(n) /\ m <= OneMore(m)
BY Bounds DEF OneMore

\* A round that did not fail has nothing to hold against a token.
LEMMA VerdictOfRound ==
    ASSUME strikes' \in 0 .. Threshold, refusals' \in 0 .. Threshold,
           round'.about = None, round'.phase # "failed", refusals' >= strikes'
    PROVE  VerdictOK'
BY DEF VerdictOK

\* A failure that tells nothing of a token, and is no refusal.
LEMMA VerdictOfFailure ==
    ASSUME VerdictOK, NEW kind \in {"transient", "unknown"}, NEW resolved \in BOOLEAN,
           round' = Failed(kind, resolved, None), UNCHANGED <<strikes, refusals>>, refusals >= strikes
    PROVE  VerdictOK'
<1>1. round'.kind # "auth" /\ round'.about = None
  BY DEF Failed
<1>. QED
  BY <1>1 DEF VerdictOK, Counted

\* A refusal counts once among the rounds, and once among the strikes to be.
LEMMA VerdictOfRefusal ==
    ASSUME VerdictOK, NEW resolved \in BOOLEAN, NEW about,
           round' = Failed("auth", resolved, about), UNCHANGED strikes, refusals' = OneMore(refusals),
           refusals >= strikes, about # None => fate'[about] \notin {"alive", "unborn"}
    PROVE  VerdictOK'
<1>1. round'.kind = "auth" /\ round'.about = about /\ round'.phase = "failed"
  BY DEF Failed
<1>2. Counted' = OneMore(strikes)
  BY <1>1 DEF Counted, OneMore
<1>. QED
  BY <1>1, <1>2, OneMoreGrows DEF VerdictOK

LEMMA VerdictStep == ASSUME Inv, Next PROVE VerdictOK'
<1>. USE Bounds
<1>1. RefreshOK /\ GrantOK /\ VerdictOK /\ strikes \in 0 .. Threshold /\ refusals \in 0 .. Threshold
  BY DEF Inv, VerdictOK
<1>2. CASE UNCHANGED <<round, strikes, refusals>>
  <2>1. round.about # None => round.about \in Tokens
    BY <1>1 DEF RefreshOK, RoundStates
  <2>2. ASSUME round.about # None PROVE fate'[round.about] \notin {"alive", "unborn"}
    <3>1. PICK t \in Tokens : t = round.about
      BY <2>1, <2>2
    <3>2. Gone(t)
      BY <1>1, <2>2, <3>1 DEF VerdictOK, Gone
    <3>3. Gone(t)'
      BY <3>2, GoneForGood
    <3>. QED
      BY <3>1, <3>3 DEF Gone
  <2>. QED
    BY <1>1, <1>2, <2>2 DEF VerdictOK, Counted
<1>3. CASE BeginRound
  <2>1. round' = Connecting \/ round' = Waiting
    BY <1>3 DEF BeginRound
  <2>2. refusals >= strikes /\ UNCHANGED <<strikes, refusals>>
    BY <1>1, <1>3 DEF BeginRound, VerdictOK
  <2>. QED
    BY <1>1, <2>1, <2>2, RoundsAreOK, VerdictOfRound
<1>4. ASSUME NEW c \in Callers, Settle(c) PROVE VerdictOK'
  <2>1. c \in leader /\ UNCHANGED strikes
    BY <1>1, <1>4 DEF Settle, RefreshOK
  <2>2. CASE Round \notin refreshes[c].waiting
    BY <1>2, <1>4, <2>1, <2>2 DEF Settle, Renewed, NotStored, Refused, PutOff, RoundGets
  <2>3. CASE Round \in refreshes[c].waiting
    <3>1. round.phase = "waiting" /\ refusals >= strikes /\ round.about = None
      BY <1>1, <2>3 DEF RefreshOK, VerdictOK
    <3>2. CASE Renewed(c)
      BY <1>1, <2>1, <2>3, <3>1, <3>2, RoundsAreOK, VerdictOfRound DEF Renewed, RoundGets
    <3>3. CASE /\ \E kind \in {"transient", "unknown"} : round' = Failed(kind, FALSE, None)
               /\ UNCHANGED refusals
      BY <1>1, <2>1, <3>1, <3>3, VerdictOfFailure
    <3>4. CASE Refused(c)
      <4>1. /\ round' = Failed("auth", FALSE, refreshes[c].token) /\ refusals' = OneMore(refusals)
            /\ UNCHANGED fate
        BY <2>3, <3>4 DEF Refused, RoundGets
      <4>2. refreshes[c].token \in Tokens /\ fate[refreshes[c].token] \notin {"alive", "unborn"}
        BY <1>1, <2>1, <3>4 DEF Refused, GrantOK, HeldTokens
      <4>. QED
        BY <1>1, <2>1, <3>1, <4>1, <4>2, VerdictOfRefusal
    <3>5. CASE UNCHANGED <<round, refusals>>
      BY <1>2, <2>1, <3>5
    <3>. QED
      BY <1>4, <2>3, <3>2, <3>3, <3>4, <3>5 DEF Settle, NotStored, PutOff, RoundGets
  <2>. QED
    BY <2>2, <2>3
<1>5. CASE Synced
  BY <1>1, <1>5, RoundsAreOK, VerdictOfRound DEF Synced
<1>6. CASE NotSynced
  <2>1. refusals >= strikes /\ UNCHANGED strikes
    BY <1>1, <1>6 DEF NotSynced, VerdictOK
  <2>2. CASE \E resolved \in BOOLEAN : round' = Failed("auth", resolved, None) /\ refusals' = OneMore(refusals)
    BY <1>1, <2>1, <2>2, VerdictOfRefusal
  <2>3. CASE \E kind \in {"transient", "unknown"} : round' = Failed(kind, TRUE, None) /\ UNCHANGED refusals
    BY <1>1, <2>1, <2>3, VerdictOfFailure
  <2>. QED
    BY <1>6, <2>2, <2>3 DEF NotSynced
<1>7. CASE RecordFailure
  <2>1. strikes' = Counted /\ round' = Idle /\ UNCHANGED refusals /\ refusals >= Counted
    BY <1>1, <1>7 DEF RecordFailure, VerdictOK
  <2>2. Counted \in 0 .. Threshold
    BY <1>1, OneMoreGrows DEF Counted
  <2>. QED
    BY <1>1, <2>1, <2>2, RoundsAreOK, VerdictOfRound
<1>8. CASE Crash
  BY <1>1, <1>8, RoundsAreOK, VerdictOfRound DEF Crash
<1>9. ASSUME NEW c \in Callers, Ask(c) \/ Exchange(c) \/ Resend(c) PROVE VerdictOK'
  BY <1>2, <1>9 DEF Ask, Exchange, Resend
<1>10. ASSUME NEW f \in Flows, StartFlow(f) \/ NoCode(f) \/ Polling(f) PROVE VerdictOK'
  BY <1>2, <1>10 DEF StartFlow, NoCode, Polling, FlowBegins, Wake, FlowHears
<1>11. CASE CancelFlow \/ GoStale \/ Revoke \/ Paste \/ Switch \/ Remove \/ SmtpRefused
  BY <1>2, <1>11 DEF CancelFlow, GoStale, Revoke, Paste, Switch, Remove, SmtpRefused
<1>. QED
  BY <1>3, <1>4, <1>5, <1>6, <1>7, <1>8, <1>9, <1>10, <1>11 DEF Next, Working, Rounding

-----------------------------------------------------------------------------
(* The theorems                                                            *)

LEMMA EventsStep == ASSUME Inv, Next PROVE events' \in 0 .. MaxEvents
<1>1. events \in 0 .. MaxEvents /\ MaxEvents \in Nat
  BY Bounds DEF Inv
<1>2. Disturbed => events' \in 0 .. MaxEvents
  BY <1>1 DEF Disturbed
<1>3. Disturbed \/ UNCHANGED events
  <2>1. ASSUME NEW c \in Callers, Ask(c) \/ Working(c) PROVE Disturbed \/ UNCHANGED events
    BY <2>1 DEF Ask, Working, Exchange, Exchanged, Settle, Renewed, NotStored, Refused, PutOff, Resend,
                Undisturbed
  <2>2. ASSUME NEW f \in Flows, StartFlow(f) \/ NoCode(f) \/ Polling(f) PROVE Disturbed \/ UNCHANGED events
    BY <2>2 DEF StartFlow, NoCode, Polling, FlowBegins, Wake, FlowHears, FlowStores, FlowGoesOn, Undisturbed
  <2>3. CASE Rounding \/ NotSynced \/ CancelFlow
    BY <2>3 DEF Rounding, BeginRound, Synced, RecordFailure, NotSynced, CancelFlow
  <2>4. CASE GoStale \/ Revoke \/ Paste \/ Switch \/ Remove \/ SmtpRefused \/ Crash
    BY <2>4 DEF GoStale, Revoke, Paste, Switch, Remove, SmtpRefused, Crash
  <2>. QED
    BY <2>1, <2>2, <2>3, <2>4 DEF Next
<1>. QED
  BY <1>1, <1>2, <1>3

LEMMA NextInv == Inv /\ [Next]_vars => Inv'
<1>1. ASSUME Inv, Next PROVE Inv'
  BY <1>1, RefreshStep, GrantStep, VerdictStep, FlowsStep, EventsStep DEF Inv
<1>2. ASSUME Inv, UNCHANGED vars PROVE Inv'
  BY <1>2 DEF vars, Inv, RefreshOK, GrantOK, HeldTokens, RowIsKnown, VerdictOK, Counted, FlowsOK
<1>. QED
  BY <1>1, <1>2

\* Every reachable state of the grant, of any behaviour, satisfies the invariant.
THEOREM InvAlways == Spec => []Inv
BY InitInv, NextInv, PTL DEF Spec

\* The state stays well formed: one refresh at a time that others can join, every
\* caller waiting for one promise, a flow within its deadline and its retries.
THEOREM TokenTypes == Spec => []TypeOK
BY InvTypes, InvAlways, PTL

\* Nobody sends a refresh token that Microsoft has rotated, unless its successor
\* was lost, however callers, device flows and the user interleave.
THEOREM RefreshUsesNoRotatedToken == Spec => []RotationIsSafe
<1>1. Inv => RotationIsSafe
  BY DEF Inv, RefreshOK, GrantOK, HeldTokens, RotationIsSafe
<1>. QED
  BY <1>1, InvAlways, PTL

\* The steps that turn an account red.
LEMMA RedStep ==
    ASSUME Inv, Next, row.status # "auth_error", row'.status = "auth_error"
    PROVE  \/ fate[row.refresh] # "alive"
           \/ refusals >= Threshold
           \/ AboutAnother \/ LateRefusal \/ SmtpRefused
<1>1. /\ RefreshOK /\ GrantOK /\ VerdictOK /\ row \in Rows
      /\ row.refresh \in Tokens /\ row.status \in Statuses
  BY RowTypes DEF Inv, GrantOK
<1>2. CASE UNCHANGED row
  BY <1>2
<1>3. ASSUME NEW reply \in Replies, row' = Stored(reply) PROVE FALSE
  BY <1>3 DEF Stored
<1>4. ASSUME NEW c \in Callers, Settle(c)
      PROVE  \/ refreshes[c].token # row.refresh /\ refreshes'[c] # refreshes[c]
             \/ fate[row.refresh] # "alive"
  <2>1. c \in leader /\ refreshes[c].reply \in Replies /\ refreshes[c].phase = "answered"
    BY <1>1, <1>4 DEF Settle, RefreshOK, RefreshStates
  <2>2. Refused(c)
    BY <1>3, <1>4, <2>1 DEF Settle, Renewed, NotStored, PutOff
  <2>3. refreshes'[c] = NoRefresh /\ fate[refreshes[c].token] # "alive"
    BY <1>1, <2>1, <2>2 DEF Refused, Settles, GrantOK, HeldTokens, RefreshOK
  <2>. QED
    BY <2>1, <2>3, NoRefreshIsOK
<1>5. CASE RecordFailure
  <2>1. Dead /\ round.phase = "failed" /\ round' = Idle
    <3>1. row' = [row EXCEPT !.status = CASE Dead -> "auth_error"
                                          [] round.kind = "unknown" -> "error"
                                          [] OTHER -> row.status]
      BY <1>5 DEF RecordFailure, Updated
    <3>2. round.kind = "unknown" \/ round.kind # "unknown"
      OBVIOUS
    <3>. QED
      BY <1>1, <1>5, <3>1 DEF RecordFailure, Rows
  <2>2. round' # round
    BY <2>1 DEF Idle
  <2>3. CASE ~ round.resolved
    <3>1. CASE round.about = None
      BY <1>5, <2>1, <2>3, <3>1 DEF LateRefusal, Dead
    <3>2. CASE round.about = row.refresh
      BY <1>1, <3>2, Bounds DEF VerdictOK
    <3>3. CASE round.about \notin {None, row.refresh}
      BY <2>2, <3>3 DEF AboutAnother
    <3>. QED
      BY <3>1, <3>2, <3>3
  <2>4. CASE Counted >= Threshold
    <3>1. Counted \in Nat /\ refusals \in Nat /\ refusals >= Counted
      BY <1>1, <2>1, Bounds DEF VerdictOK, Counted, OneMore
    <3>. QED
      BY <2>4, <3>1, Bounds
  <2>. QED
    BY <2>1, <2>3, <2>4 DEF Dead
<1>6. CASE Synced
  BY <1>1, <1>6 DEF Synced, Updated, Rows
<1>7. ASSUME NEW f \in Flows, FlowHears(f) PROVE FALSE
  <2>1. UNCHANGED row \/ \E t \in Tokens : row' = Stored([kind |-> "ok", token |-> t])
    BY <1>7 DEF FlowHears, FlowStores, FlowGoesOn
  <2>2. \A t \in Tokens : [kind |-> "ok", token |-> t] \in Replies
    BY DEF Replies
  <2>. QED
    BY <1>3, <2>1, <2>2
<1>8. CASE GoStale \/ Paste \/ Switch \/ Remove
  BY <1>1, <1>8 DEF GoStale, Paste, Switch, Remove, Rows
<1>12. CASE SmtpRefused
  BY <1>12
<1>9. ASSUME NEW c \in Callers, Ask(c) \/ Exchange(c) \/ Resend(c) PROVE FALSE
  BY <1>9 DEF Ask, Exchange, Resend
<1>10. ASSUME NEW f \in Flows, StartFlow(f) \/ NoCode(f) \/ FlowBegins(f) \/ Wake(f) PROVE FALSE
  BY <1>10 DEF StartFlow, NoCode, FlowBegins, Wake
<1>11. CASE BeginRound \/ NotSynced \/ CancelFlow \/ Revoke \/ Crash
  BY <1>11 DEF BeginRound, NotSynced, CancelFlow, Revoke, Crash
<1>. QED
  BY <1>4, <1>5, <1>6, <1>7, <1>8, <1>9, <1>10, <1>11, <1>12
     DEF Next, Working, Rounding, Polling, AboutAnother

\* An account whose stored token works turns red only when enough rounds were
\* refused, when the verdict is about a token that is not the row's, or by a
\* refusal in mid-session or of an SMTP login, of which one is enough.
THEOREM RedIsNeverUndeserved == Spec => RedIsDeserved
<1>1. Inv /\ [Next]_vars =>
        [row.status # "auth_error" /\ row'.status = "auth_error" =>
            \/ fate[row.refresh] # "alive"
            \/ refusals >= Threshold
            \/ AboutAnother \/ LateRefusal \/ SmtpRefused]_vars
  BY RedStep
<1>. QED
  BY <1>1, InvAlways, PTL DEF Spec, RedIsDeserved

-----------------------------------------------------------------------------
(* What polls comes nearer to its end: the safety half of FlowsEnd         *)

\* A flow stays where it is, is over, or goes one stage on; back to sleep it goes
\* only with more of its deadline used up.
Advances(old, new) ==
    \/ new.phase = old.phase /\ new.waited = old.waited
    \/ new.phase = "over"
    \/ old.phase = "none" /\ new.phase \in {"none", "asking"}
    \/ old.phase = "asleep" /\ new.phase = "redeeming" /\ new.waited = old.waited
    \/ /\ old.phase \in {"asking", "redeeming"} /\ new.phase = "asleep"
       /\ old.waited < new.waited /\ new.waited <= Deadline

\* A flow whose status is "pending" has a timer or a request to wait for, and one
\* that was cancelled is told so.
IsTold(fl) ==
    /\ fl.cancelled => fl.status = "failed"
    /\ fl.status = "pending" => fl.phase \in {"asleep", "redeeming"}

PendingFlowsPoll == \A f \in Flows : IsTold(flows[f])
FlowsMoveOn == [][\A f \in Flows : Advances(flows[f], flows'[f])]_vars

LEMMA NextPollAdvances ==
    ASSUME NEW fl \in FlowStates, NEW old, old.phase \in {"asking", "redeeming"},
           old.waited = fl.waited, fl.cancelled => fl.status = "failed"
    PROVE  Advances(old, NextPoll(fl)) /\ IsTold(NextPoll(fl))
<1>1. \A status \in {"none", "pending", "success", "failed"} :
        Over(status).phase = "over" /\ Over(status).status = status /\ ~ Over(status).cancelled
  BY DEF Over, NoFlow
<1>2. CASE fl.cancelled
  BY <1>1, <1>2 DEF NextPoll, Advances, IsTold
<1>3. CASE ~ fl.cancelled /\ fl.waited + fl.interval > Deadline
  BY <1>1, <1>3 DEF NextPoll, Advances, IsTold
<1>4. CASE ~ fl.cancelled /\ ~ fl.waited + fl.interval > Deadline
  <2>1. PICK slept : slept = [fl EXCEPT !.phase = "asleep", !.waited = fl.waited + fl.interval]
    OBVIOUS
  <2>2. NextPoll(fl) = slept
    BY <1>4, <2>1 DEF NextPoll
  <2>3. slept.phase = "asleep" /\ slept.waited = fl.waited + fl.interval /\ slept.cancelled = fl.cancelled
    BY <2>1 DEF FlowStates
  <2>4. fl.waited < slept.waited /\ slept.waited <= Deadline
    BY <1>4, <2>3, Bounds DEF FlowStates
  <2>. QED
    BY <1>4, <2>2, <2>3, <2>4 DEF Advances, IsTold
<1>. QED
  BY <1>2, <1>3, <1>4

LEMMA OverAdvances ==
    ASSUME NEW status \in {"none", "success", "failed"}, NEW old
    PROVE  Advances(old, Over(status)) /\ IsTold(Over(status))
BY DEF Over, NoFlow, Advances, IsTold

\* Every step moves every flow on.
LEMMA FlowsStepOn ==
    ASSUME Inv, PendingFlowsPoll, Next, NEW f \in Flows
    PROVE  Advances(flows[f], flows'[f]) /\ IsTold(flows'[f])
<1>1. FlowsOK /\ flows[f] \in FlowStates /\ IsTold(flows[f])
  BY DEF Inv, FlowsOK, PendingFlowsPoll
<1>2. CASE flows'[f] = flows[f]
  BY <1>1, <1>2 DEF Advances
<1>3. Advances(flows[f], Cancelled[f]) /\ IsTold(Cancelled[f])
  <2>1. CASE f \in current /\ flows[f].status = "pending"
    <3>1. Cancelled[f] = [flows[f] EXCEPT !.cancelled = TRUE, !.status = "failed"]
      BY <2>1 DEF Cancelled
    <3>. QED
      BY <1>1, <3>1 DEF Advances, IsTold, FlowStates
  <2>2. CASE ~ (f \in current /\ flows[f].status = "pending")
    <3>1. Cancelled[f] = flows[f]
      BY <2>2, Zenon DEF Cancelled
    <3>. QED
      BY <1>1, <3>1 DEF Advances
  <2>. QED
    BY <2>1, <2>2
<1>4. ASSUME NEW g \in Flows, StartFlow(g) PROVE Advances(flows[f], flows'[f]) /\ IsTold(flows'[f])
  <2>1. CASE g # f
    <3>1. flows'[f] = Cancelled[f]
      BY <1>4, <2>1 DEF StartFlow, Cancelled
    <3>. QED
      BY <1>3, <3>1
  <2>2. CASE g = f
    <3>1. flows[f].phase = "none" /\ flows[f].status = "none" /\ Cancelled[f] = flows[f]
      BY <1>1, <1>4, <2>2 DEF StartFlow, FlowsOK, Cancelled
    <3>2. flows'[f] = [flows[f] EXCEPT !.phase = "asking"]
      BY <1>4, <2>2, <3>1 DEF StartFlow, Cancelled
    <3>. QED
      BY <1>1, <3>1, <3>2 DEF Advances, IsTold, FlowStates
  <2>. QED
    BY <2>1, <2>2
<1>5. ASSUME NEW g \in Flows, NoCode(g) \/ Polling(g), g # f PROVE flows'[f] = flows[f]
  BY <1>1, <1>5 DEF NoCode, Polling, FlowBegins, Wake, FlowHears, FlowStores, FlowGoesOn, FlowsOK
<1>6. CASE FlowBegins(f)
  <2>1. PICK fl : fl = [flows[f] EXCEPT !.status = "pending"]
    OBVIOUS
  <2>2. /\ flows[f].phase = "asking" /\ flows[f].status = "none" /\ ~ flows[f].cancelled
        /\ flows'[f] = NextPoll(fl)
    BY <1>1, <1>6, <2>1 DEF FlowBegins, FlowsOK, IsTold
  <2>3. fl \in FlowStates /\ fl.waited = flows[f].waited /\ ~ fl.cancelled
    BY <1>1, <2>1, <2>2 DEF FlowStates
  <2>. QED
    BY <2>2, <2>3, NextPollAdvances
<1>7. CASE NoCode(f)
  BY <1>1, <1>7, OverAdvances DEF NoCode, FlowsOK
<1>8. CASE Wake(f)
  <2>1. CASE flows[f].cancelled
    BY <1>1, <1>8, <2>1, OverAdvances DEF Wake, FlowsOK, IsTold
  <2>2. CASE ~ flows[f].cancelled
    <3>1. flows[f].phase = "asleep" /\ flows'[f] = [flows[f] EXCEPT !.phase = "redeeming"]
      BY <1>1, <1>8, <2>2 DEF Wake, FlowsOK
    <3>. QED
      BY <1>1, <3>1 DEF Advances, IsTold, FlowStates
  <2>. QED
    BY <2>1, <2>2
<1>9. CASE FlowHears(f)
  <2>1. PICK fl \in FlowStates : fl = flows[f] /\ fl.phase = "redeeming" /\ IsTold(fl)
    BY <1>1, <1>9 DEF FlowHears
  <2>2. PICK slower, again : /\ slower = [fl EXCEPT !.interval = fl.interval + 1]
                             /\ again = [fl EXCEPT !.transient = fl.transient + 1]
    OBVIOUS
  <2>3. \/ flows'[f] \in {Over("success"), Over("failed"), NextPoll(fl), NextPoll(slower)}
        \/ flows'[f] = NextPoll(again) /\ ~ fl.transient >= MaxTransientPolls
    BY <1>1, <1>9, <2>1, <2>2 DEF FlowHears, FlowStores, FlowGoesOn, FlowsOK
  <2>4. fl.interval <= fl.waited
    BY <1>1, <2>1 DEF FlowsOK
  <2>5. slower \in FlowStates /\ slower.waited = fl.waited /\ slower.cancelled = fl.cancelled
        /\ slower.status = fl.status
    BY <2>1, <2>2, <2>4, Bounds DEF FlowStates
  <2>6. ~ fl.transient >= MaxTransientPolls =>
          /\ again \in FlowStates /\ again.waited = fl.waited /\ again.cancelled = fl.cancelled
          /\ again.status = fl.status
    BY <2>1, <2>2, Bounds DEF FlowStates
  <2>. QED
    BY <2>1, <2>3, <2>5, <2>6, NextPollAdvances, OverAdvances DEF IsTold
<1>10. CASE CancelFlow
  BY <1>3, <1>10 DEF CancelFlow
<1>11. CASE Crash
  <2>1. flows'[f] = IF flows[f].phase = "none" THEN NoFlow ELSE Over("none")
    BY <1>11 DEF Crash
  <2>. QED
    BY <1>1, <2>1, OverAdvances DEF Advances, IsTold, NoFlow
<1>12. ASSUME NEW c \in Callers, Ask(c) \/ Working(c) PROVE flows'[f] = flows[f]
  BY <1>12 DEF Ask, Working, Exchange, Settle, Resend
<1>13. CASE Rounding \/ NotSynced \/ GoStale \/ Revoke \/ Paste \/ Switch \/ Remove \/ SmtpRefused
  BY <1>2, <1>13 DEF Rounding, BeginRound, Synced, RecordFailure, NotSynced, GoStale, Revoke, Paste, Switch, Remove, SmtpRefused
<1>. QED
  BY <1>2, <1>4, <1>5, <1>6, <1>7, <1>8, <1>9, <1>10, <1>11, <1>12, <1>13 DEF Next, Polling

\* A device flow that says it is pending has a sleep or a request to wait for, and
\* no poll is for nothing: every sleep uses up more of a finite deadline, and what
\* is over stays over (#poll), also for a flow that nobody can reach any more.
THEOREM FlowsComeToTheirEnd == Spec => []PendingFlowsPoll /\ FlowsMoveOn
<1>1. Init => PendingFlowsPoll
  BY DEF Init, PendingFlowsPoll, IsTold, NoFlow
<1>2. Inv /\ PendingFlowsPoll /\ [Next]_vars => PendingFlowsPoll'
  <2>1. ASSUME Inv, PendingFlowsPoll, Next PROVE PendingFlowsPoll'
    <3>1. ASSUME NEW f \in Flows PROVE IsTold(flows'[f])
      BY <2>1, FlowsStepOn
    <3>. QED
      BY <3>1 DEF PendingFlowsPoll, IsTold
  <2>2. ASSUME PendingFlowsPoll, UNCHANGED vars PROVE PendingFlowsPoll'
    BY <2>2 DEF PendingFlowsPoll, IsTold, vars
  <2>. QED
    BY <2>1, <2>2
<1>3. Inv /\ PendingFlowsPoll /\ [Next]_vars => [\A f \in Flows : Advances(flows[f], flows'[f])]_vars
  BY FlowsStepOn
<1>. QED
  BY <1>1, <1>2, <1>3, InvAlways, PTL DEF Spec, FlowsMoveOn

\* One refresh is under way at most, whoever asks joins it, and nobody waits for
\* one that is over: the round is waiting exactly while a refresh will tell it
\* (#refreshSingleFlight).
THEOREM OneRefreshForAll == Spec => []RefreshOK
<1>1. Inv => RefreshOK
  BY DEF Inv
<1>. QED
  BY <1>1, InvAlways, PTL
=============================================================================
