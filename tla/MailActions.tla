----------------------------- MODULE MailActions -----------------------------
(***************************************************************************)
(* MailActions: what a user does to letters in the browser, shown before   *)
(* it has happened (useMessageActions), the requests and what the server   *)
(* answers, its events (useMailEvents), and the query cache all of these   *)
(* write to.                                                               *)
(*                                                                         *)
(* Every letter is in an account of its own, shown in the views of all     *)
(* accounts: a move is then a request for each letter, marking is one for  *)
(* all.  A view is a folder.  The cache is react-query's: data set by hand *)
(* takes the mark 'invalid' away and leaves a fetch under way alone, and   *)
(* only the view on the screen is fetched again when it is marked.         *)
(***************************************************************************)
EXTENDS Naturals, Sequences, FiniteSets, Functions

CONSTANTS
    Messages,
    Plans,              \* the actions, numbered in the order they begin
    MaxDisturbances     \* bound on refusals, lost requests and failed fetches

ASSUME ActionsAssumption ==
    IsFiniteSet(Messages) /\ Plans \subseteq Nat \ {0} /\ MaxDisturbances \in Nat

Marks == {"read", "unread"}
Views == {"inbox", "archive"}
Changes == Marks \union Views
None == 0

VARIABLES
    truth,          \* the rows of the server
    shown,          \* the view on the screen
    lists,          \* the cached list of each view: its rows, and whether it is marked
    fetch,          \* the fetch of the shown list
    details,        \* the cached details of each letter
    plans,          \* what the user has set off
    windows,        \* the events the hub still holds back, and their order
    disturbances,
    unsure,         \* ghost: the shown list is not one that a fetch has brought
    astray,         \* ghost: letters whose row a late event has changed since
    overtaken,      \* ghost: letters changed, behind an answer on its way or into
                    \* the shown view, by a request the client had given up
    doubtful        \* ghost: letters whose details nobody vouches for

vars == <<truth, shown, lists, fetch, details, plans, windows, disturbances,
          unsure, astray, overtaken, doubtful>>

NoFetch == [phase |-> "none", answer |-> <<>>]
NoPlan == [phase |-> "none", change |-> "read", from |-> "inbox", ids |-> {}, isUndo |-> FALSE,
           source |-> None, todo |-> {}, asked |-> {}, reply |-> {}, updated |-> {}, failed |-> {},
           snapshot |-> <<>>, alone |-> FALSE]

Pending(p) == plans[p].phase \in {"sent", "answered"}

\* The client has given the request up, and the server has not.
Abandoned(p) == plans[p].phase = "rolledBack" /\ plans[p].asked # {}

\* MessageQuery.list: the rows of a view, with their marks.
RowsOf(v) == [m \in {n \in Messages : truth[n].place = v} |-> truth[m].mark]

Init ==
    /\ truth = [m \in Messages |-> [mark |-> "unread", place |-> "inbox"]]
    /\ shown = "inbox"
    /\ lists = [v \in Views |-> [rows |-> RowsOf(v), invalid |-> FALSE]]
    /\ fetch = NoFetch
    /\ details = truth
    /\ plans = [p \in Plans |-> NoPlan]
    /\ windows = <<>>
    /\ disturbances = 0
    /\ unsure = FALSE
    /\ astray = {}
    /\ overtaken = {}
    /\ doubtful = {}

Disturbed == disturbances < MaxDisturbances /\ disturbances' = disturbances + 1
Undisturbed == UNCHANGED disturbances

-----------------------------------------------------------------------------
(* The patches: optimistic and of events, by the same functions            *)

\* applyPatch, and the folder of a letter's details.
Applied(letter, change) ==
    IF change \in Marks THEN [letter EXCEPT !.mark = change] ELSE [letter EXCEPT !.place = change]

\* patchFlags and reconcileMoved: a letter that leaves the view leaves its list,
\* one that comes into it is not there to be changed.
Patched(v, rows, ids, change) ==
    IF change \in Marks THEN [m \in DOMAIN rows |-> IF m \in ids THEN change ELSE rows[m]]
    ELSE IF change = v THEN rows
    ELSE Restrict(rows, DOMAIN rows \ ids)

\* setQueryData on every cached list.
ListsPatched(ids, change) ==
    [v \in Views |-> [rows |-> Patched(v, lists[v].rows, ids, change), invalid |-> FALSE]]

DetailsPatched(ids, change) ==
    [m \in Messages |-> IF m \in ids THEN Applied(details[m], change) ELSE details[m]]

-----------------------------------------------------------------------------
(* The user                                                                *)

Snapshot == [rows |-> [v \in Views |-> lists[v].rows], details |-> details]

\* Requests: one for all that are to be marked, one a letter to be moved.
Requests(change, ids) == IF change \in Marks THEN {ids} ELSE {{m} : m \in ids}

\* onMutate, and the first request: the snapshot, the patch, and no answer that
\* was on its way may undo it.
Mutate(p, plan) ==
    /\ plans[p].phase = "none"
    /\ \A q \in Plans : q < p => plans[q].phase # "none"
    /\ \E request \in Requests(plan.change, plan.ids) :
        plans' = [q \in Plans |->
            IF q = p
            THEN [plan EXCEPT !.phase = "sent", !.asked = request, !.todo = plan.ids \ request,
                              !.snapshot = Snapshot,
                              !.alone = /\ windows = <<>>
                                        /\ \A r \in Plans : ~ Pending(r) /\ ~ Abandoned(r)]
            ELSE [plans[q] EXCEPT !.alone = FALSE]]
    /\ lists' = ListsPatched(plan.ids, plan.change)
    /\ details' = DetailsPatched(plan.ids, plan.change)
    /\ fetch' = NoFetch
    /\ UNCHANGED <<truth, shown, windows, disturbances, unsure, astray, overtaken, doubtful>>

\* The letters that can be selected.
Selections == (SUBSET DOMAIN lists[shown].rows) \ {{}}

\* toggleRead: read, if one of them is not.
ToggleRead(p) ==
    \E ids \in Selections :
        Mutate(p, [NoPlan EXCEPT
            !.ids = ids, !.from = shown,
            !.change = IF \E m \in ids : lists[shown].rows[m] = "unread" THEN "read" ELSE "unread"])

\* archive, unarchive, moveTo.
Move(p) ==
    \E ids \in Selections, v \in Views \ {shown} :
        Mutate(p, [NoPlan EXCEPT !.ids = ids, !.from = shown, !.change = v])

\* A toast's button, which goes with the first click.
HasButton(q) == \A r \in Plans : plans[r].source # q

\* All the letters go back, those that had not moved too.
Undo(p) ==
    \E q \in Plans :
        /\ plans[q].phase = "done" /\ plans[q].change \in Views /\ ~ plans[q].isUndo
        /\ HasButton(q)
        /\ Mutate(p, [NoPlan EXCEPT !.ids = plans[q].ids, !.from = plans[q].change,
                                    !.change = plans[q].from, !.isUndo = TRUE, !.source = q])

\* The same plan once more, after its failure.
Retry(p) ==
    \E q \in Plans :
        /\ plans[q].phase = "rolledBack"
        /\ HasButton(q)
        /\ Mutate(p, [plans[q] EXCEPT !.source = q])

\* Another view comes on the screen: fetched if it is marked (or too old), and
\* the fetch of the other one is given up.
Show(v) ==
    /\ v # shown
    /\ shown' = v
    /\ \/ fetch' = [phase |-> "sent", answer |-> <<>>]
       \/ ~ lists[v].invalid /\ fetch' = NoFetch
    /\ unsure' = TRUE
    /\ UNCHANGED <<truth, lists, details, plans, windows, disturbances, astray, overtaken, doubtful>>

-----------------------------------------------------------------------------
(* The server                                                              *)

\* Faulty: every event has a window of its own.
PublishedAnew(ids, change) ==
    IF ids = {} THEN windows ELSE Append(windows, [change |-> change, ids |-> ids])

\* publishCoalesced: an event of the same key that is still held back takes the
\* letters in and keeps its place.  The key of a move has the account's folders.
SameKey(event, ids, change) ==
    event.change = change /\ (change \in Marks \/ event.ids = ids)

Published(ids, change) ==
    IF ids = {} THEN windows
    ELSE IF \E i \in DOMAIN windows : SameKey(windows[i], ids, change)
    THEN [i \in DOMAIN windows |->
            IF SameKey(windows[i], ids, change)
            THEN [windows[i] EXCEPT !.ids = @ \union ids] ELSE windows[i]]
    ELSE Append(windows, [change |-> change, ids |-> ids])

\* emitMoved: what has not moved is not said to have.
Emitted(ok, change) ==
    IF change \in Marks THEN ok ELSE {m \in ok : truth[m].place # change}

\* A request is carried out, for those of its letters whose account permits.
CarriedOut(p, ok) ==
    /\ IF ok = plans[p].asked THEN Undisturbed ELSE Disturbed
    /\ truth' = [m \in Messages |->
            IF m \in ok THEN Applied(truth[m], plans[p].change) ELSE truth[m]]
    /\ windows' = Published(Emitted(ok, plans[p].change), plans[p].change)

Serve(p) ==
    /\ plans[p].phase = "sent"
    /\ \E ok \in SUBSET plans[p].asked :
        /\ CarriedOut(p, ok)
        /\ plans' = [plans EXCEPT ![p].phase = "answered", ![p].reply = ok]
    /\ UNCHANGED <<shown, lists, fetch, details, unsure, astray, overtaken, doubtful>>

\* A request the client has given up is carried out: nobody hears the answer, and
\* no list is fetched after it.
ServeLate(p) ==
    /\ Abandoned(p)
    /\ \E ok \in SUBSET plans[p].asked :
        /\ CarriedOut(p, ok)
        /\ overtaken' = IF fetch.phase = "answered" \/ plans[p].change = shown
                        THEN overtaken \union ok ELSE overtaken
    /\ plans' = [plans EXCEPT ![p].asked = {}]
    /\ UNCHANGED <<shown, lists, fetch, details, unsure, astray, doubtful>>

AnswerFetch ==
    /\ fetch.phase = "sent"
    /\ fetch' = [phase |-> "answered", answer |-> RowsOf(shown)]
    /\ overtaken' = {}
    /\ UNCHANGED <<truth, shown, lists, details, plans, windows, disturbances, unsure, astray, doubtful>>

-----------------------------------------------------------------------------
(* What comes back                                                         *)

\* Faulty: nothing is fetched again.
SettledQuietly(ls) == lists' = ls /\ UNCHANGED fetch

\* onSettled: every list is marked, the shown one is fetched anew.
Settled(ls) ==
    /\ lists' = [v \in Views |-> [ls[v] EXCEPT !.invalid = TRUE]]
    /\ fetch' = [phase |-> "sent", answer |-> <<>>]

\* What a toast's button needs of a plan that is over.
Over(p, phase) ==
    [NoPlan EXCEPT !.phase = phase, !.ids = plans[p].ids, !.from = plans[p].from,
                   !.change = plans[p].change, !.isUndo = plans[p].isUndo,
                   !.source = plans[p].source]

\* onError: everything is again as it was when the action began, but for what
\* the server has left to do.
RollBack(p, left) ==
    LET snapshot == plans[p].snapshot
        landed == plans[p].updated \union plans[p].reply
    IN  /\ Settled([v \in Views |-> [rows |-> snapshot.rows[v], invalid |-> FALSE]])
        /\ details' = snapshot.details
        /\ plans' = [plans EXCEPT ![p] = [Over(p, "rolledBack") EXCEPT !.asked = left]]
        /\ doubtful' = IF plans[p].alone /\ landed = {} THEN doubtful ELSE Messages

\* onSuccess, whether all letters are among the updated or not.
Succeed(p, failed) ==
    /\ Settled(lists)
    /\ plans' = [plans EXCEPT ![p] = Over(p, "done")]
    /\ doubtful' = doubtful \union failed
    /\ UNCHANGED details

\* absorb, and the next request.
GoOn(p) ==
    LET plan == plans[p] IN
    /\ \E m \in plan.todo :
        plans' = [plans EXCEPT ![p] =
            [plan EXCEPT !.phase = "sent", !.asked = {m}, !.todo = @ \ {m}, !.reply = {},
                         !.updated = @ \union plan.reply, !.failed = @ \union (plan.asked \ plan.reply)]]
    /\ UNCHANGED <<lists, fetch, details, doubtful>>

\* A response: a request none of whose letters was updated is an error, and ends
\* the whole plan.
Hear(p) ==
    /\ plans[p].phase = "answered"
    /\ \/ plans[p].reply = {} /\ RollBack(p, {})
       \/ plans[p].reply # {} /\ plans[p].todo # {} /\ GoOn(p)
       \/ /\ plans[p].reply # {} /\ plans[p].todo = {}
          /\ Succeed(p, plans[p].failed \union (plans[p].asked \ plans[p].reply))
    /\ UNCHANGED <<truth, shown, windows, disturbances, unsure, astray, overtaken>>

\* The request, or the response, is lost, or takes too long.  The server goes on
\* with a request that has reached it: it does not follow the client's signal.
Lose(p) ==
    /\ Pending(p)
    /\ \E left \in IF plans[p].phase = "sent" THEN {{}, plans[p].asked} ELSE {{}} :
        RollBack(p, left)
    /\ Disturbed
    /\ UNCHANGED <<truth, shown, windows, unsure, astray, overtaken>>

\* The list arrives.
Arrive ==
    /\ fetch.phase = "answered"
    /\ lists' = [lists EXCEPT ![shown] = [rows |-> fetch.answer, invalid |-> FALSE]]
    /\ fetch' = NoFetch
    /\ unsure' = FALSE
    /\ astray' = {}
    /\ UNCHANGED <<truth, shown, details, plans, windows, disturbances, overtaken, doubtful>>

\* Or it does not, even when it is tried again.
FetchFails ==
    /\ fetch.phase # "none"
    /\ fetch' = NoFetch
    /\ unsure' = TRUE
    /\ Disturbed
    /\ UNCHANGED <<truth, shown, lists, details, plans, windows, astray, overtaken, doubtful>>

\* A window ends and its event is read.  It is late for a letter that something
\* else has happened to since.
ReadEvent ==
    /\ windows # <<>>
    /\ LET event == Head(windows)
           late == {m \in event.ids : Applied(truth[m], event.change) # truth[m]}
       IN  /\ lists' = ListsPatched(event.ids, event.change)
           /\ details' = DetailsPatched(event.ids, event.change)
           /\ astray' = astray \union late
           /\ doubtful' = doubtful \union late
    /\ windows' = Tail(windows)
    /\ UNCHANGED <<truth, shown, fetch, plans, disturbances, unsure, overtaken>>

Next ==
    \/ \E p \in Plans :
        \/ ToggleRead(p) \/ Move(p) \/ Undo(p) \/ Retry(p)
        \/ Serve(p) \/ ServeLate(p) \/ Hear(p) \/ Lose(p)
    \/ \E v \in Views : Show(v)
    \/ AnswerFetch \/ Arrive \/ FetchFails
    \/ ReadEvent

Spec == Init /\ [][Next]_vars

-----------------------------------------------------------------------------
(* Properties                                                              *)

Lists == UNION {[ms -> Marks] : ms \in SUBSET Messages}
Letters == [mark : Marks, place : Views]

\* The state is well formed: a plan that waits has asked for something, its
\* letters are in one place each, and the hub holds one event of a key.
TypeOK ==
    /\ truth \in [Messages -> Letters] /\ details \in [Messages -> Letters]
    /\ shown \in Views
    /\ lists \in [Views -> [rows : Lists, invalid : BOOLEAN]]
    /\ fetch.phase \in {"none", "sent", "answered"} /\ fetch.answer \in Lists
    /\ \A p \in Plans :
        /\ plans[p].phase \in {"none", "sent", "answered", "done", "rolledBack"}
        /\ plans[p].change \in Changes /\ plans[p].from \in Views
        /\ plans[p].source \in (Plans \union {None}) \ {p}
        /\ Pending(p) => plans[p].asked # {} /\ plans[p].reply \subseteq plans[p].asked
        /\ Abandoned(p) => plans[p].asked \subseteq plans[p].ids
        /\ Cardinality(plans[p].todo) + Cardinality(plans[p].asked)
            + Cardinality(plans[p].updated) + Cardinality(plans[p].failed)
              = IF Pending(p) THEN Cardinality(plans[p].ids)
                ELSE Cardinality(plans[p].asked)
    /\ \A i \in DOMAIN windows :
        /\ windows[i].change \in Changes
        /\ windows[i].ids \in (SUBSET Messages) \ {{}}
        /\ \A j \in DOMAIN windows : SameKey(windows[i], windows[j].ids, windows[j].change) => i = j
    /\ disturbances \in 0 .. MaxDisturbances
    /\ unsure \in BOOLEAN /\ {astray, overtaken, doubtful} \subseteq SUBSET Messages

\* Nothing is under way.
AtRest == windows = <<>> /\ fetch.phase = "none" /\ \A p \in Plans : ~ Pending(p)

\* When everything has come back, the list on the screen is the server's,
\* however actions, refusals, rollbacks, fetches and events have interleaved:
\* unless it was opened from the cache and not fetched since, or an event came
\* later than what had happened to its letters after it, or a request that the
\* client had given up was carried out after the list was fetched.
ListIsTrue ==
    AtRest /\ ~ unsure =>
        \A m \in Messages \ (astray \union overtaken) :
            LET rows == lists[shown].rows IN
            IF truth[m].place = shown THEN m \in DOMAIN rows /\ rows[m] = truth[m].mark
            ELSE m \notin DOMAIN rows

\* The details, which nothing fetches again, are true as well, unless an event
\* was late, the letter was refused while others were not, or a rollback took
\* more back than what had been refused.
DetailsAreTrue == AtRest => \A m \in Messages \ doubtful : details[m] = truth[m]

ScreenIsTrue == ListIsTrue /\ DetailsAreTrue

\* Said by the comments of runPlan and of mutationReply: an answer takes a plan
\* back only when nothing of it has happened, and what was updated stays.
RollbackMeansNothingHappened ==
    [][\A p \in Plans :
        Hear(p) /\ plans'[p].phase = "rolledBack" => plans[p].updated = {}]_vars
=============================================================================
