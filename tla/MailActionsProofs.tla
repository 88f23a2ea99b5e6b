--------------------------- MODULE MailActionsProofs ---------------------------
(***************************************************************************)
(* What holds of the page for any letters, any number of actions and any   *)
(* number of refusals, lost requests and failed fetches.                   *)
(***************************************************************************)
EXTENDS MailActions, FiniteSetTheorems, TLAPS

Snapshots == [rows : [Views -> Lists], details : [Messages -> Letters]]

PlanStates ==
    [phase : {"none", "sent", "answered", "done", "rolledBack"}, change : Changes, from : Views,
     ids : SUBSET Messages, isUndo : BOOLEAN, source : Plans \union {None}, todo : SUBSET Messages,
     asked : SUBSET Messages, reply : SUBSET Messages, updated : SUBSET Messages,
     failed : SUBSET Messages, snapshot : Snapshots \union {<<>>}, alone : BOOLEAN]

\* Every letter of a plan under way is still to be asked for, asked for, updated or
\* refused, and only one of these.
Divided(plan) ==
    /\ plan.ids = plan.todo \union plan.asked \union plan.updated \union plan.failed
    /\ plan.todo \intersect plan.asked = {} /\ plan.updated \intersect plan.failed = {}
    /\ (plan.todo \union plan.asked) \intersect (plan.updated \union plan.failed) = {}

PlanIsOK(p) ==
    LET plan == plans[p] IN
    /\ plan.source # p
    /\ plan.phase # "none" => plan.ids # {}
    /\ plan.phase = "sent" => plan.reply = {}
    /\ IF Pending(p)
       THEN /\ plan.snapshot \in Snapshots /\ Divided(plan)
            /\ plan.asked # {} /\ plan.reply \subseteq plan.asked
       ELSE /\ plan.todo = {} /\ plan.reply = {} /\ plan.updated = {} /\ plan.failed = {}
            /\ plan.asked \subseteq plan.ids
            /\ plan.phase # "rolledBack" => plan.asked = {}

PlansOK == plans \in [Plans -> PlanStates] /\ \A p \in Plans : PlanIsOK(p)

Event == [change : Changes, ids : (SUBSET Messages) \ {{}}]

KeysAreUnique(es) ==
    \A i, j \in DOMAIN es : SameKey(es[i], es[j].ids, es[j].change) => i = j

WindowsOK == windows \in Seq(Event) /\ KeysAreUnique(windows)

CacheOK ==
    /\ truth \in [Messages -> Letters] /\ details \in [Messages -> Letters] /\ shown \in Views
    /\ lists \in [Views -> [rows : Lists, invalid : BOOLEAN]]
    /\ fetch \in [phase : {"none", "sent", "answered"}, answer : Lists]
    /\ disturbances \in 0 .. MaxDisturbances
    /\ unsure \in BOOLEAN /\ astray \subseteq Messages
    /\ overtaken \subseteq Messages /\ doubtful \subseteq Messages

\* The letters of a plan that the server has not been told of, and those it has refused.
Unserved(q) == plans[q].todo \union (IF plans[q].phase = "sent" THEN plans[q].asked ELSE {})
Refused(q) ==
    plans[q].failed \union (IF plans[q].phase = "answered" THEN plans[q].asked \ plans[q].reply ELSE {})

\* A letter has one value of each kind, a mark and a place.
Kinds == {Marks, Views}
Of(letter, kind) == IF kind = Marks THEN letter.mark ELSE letter.place

\* An event that is held back will set the value, true or late; a plan under way
\* has set it and the server is still to be told, or has refused it.
IsHeldBack(m, kind) == \E i \in DOMAIN windows : windows[i].change \in kind /\ m \in windows[i].ids
IsAskedFor(m, kind) ==
    \E q \in Plans : /\ Pending(q) /\ m \in Unserved(q)
                     /\ plans[q].change = Of(details[m], kind)
IsRefused(m) == \E q \in Plans : Pending(q) /\ m \in Refused(q)

Explained(m, kind) ==
    \/ Of(details[m], kind) = Of(truth[m], kind)
    \/ IsHeldBack(m, kind) \/ IsAskedFor(m, kind) \/ IsRefused(m)

DetailsExplained == \A m \in Messages \ doubtful : \A kind \in Kinds : Explained(m, kind)

\* A plan that began with nothing under way, and has had no other beside it, can
\* be taken back as long as nothing of it has happened: what its snapshot says of
\* the details that somebody vouches for is true.
AloneIsAlone ==
    \A p \in Plans : Pending(p) /\ plans[p].alone =>
        /\ \A q \in Plans \ {p} : ~ Pending(q) /\ ~ Abandoned(q)
        /\ plans[p].updated \union plans[p].reply = {} =>
            \A m \in Messages \ doubtful : plans[p].snapshot.details[m] = truth[m]

Quiet == \A p \in Plans : ~ Pending(p)

IsTrueRow(rows, m) ==
    IF truth[m].place = shown THEN m \in DOMAIN rows /\ rows[m] = truth[m].mark
    ELSE m \notin DOMAIN rows

\* Whatever has happened since a fetch was answered has set off another one, or was
\* a request that had been given up.
AnswerIsFresh ==
    fetch.phase = "answered" /\ Quiet =>
        \A m \in Messages \ overtaken : IsTrueRow(fetch.answer, m)

\* A row that is missing would not be brought by any event; a row that is not true
\* will be changed by one that is held back.
IsRightRow(rows, m) ==
    /\ truth[m].place = shown => m \in DOMAIN rows
    /\ m \in DOMAIN rows => /\ truth[m].place = shown \/ IsHeldBack(m, Views)
                            /\ rows[m] = truth[m].mark \/ IsHeldBack(m, Marks)

ListIsRight ==
    fetch.phase = "none" /\ Quiet /\ ~ unsure =>
        \A m \in Messages \ (astray \union overtaken) : IsRightRow(lists[shown].rows, m)

TypesOK == CacheOK /\ PlansOK /\ WindowsOK

\* The inductive invariant.
Inv == TypesOK /\ DetailsExplained /\ AloneIsAlone /\ AnswerIsFresh /\ ListIsRight

-----------------------------------------------------------------------------
(* Letters and lists                                                       *)

LEMMA Values ==
    /\ Changes = Marks \union Views /\ Marks \intersect Views = {} /\ Marks # Views
    /\ \A letter \in Letters, kind \in Kinds : Of(letter, kind) \in kind
    /\ \A letter, other \in Letters :
          (\A kind \in Kinds : Of(letter, kind) = Of(other, kind)) => letter = other
    /\ \A kind \in Kinds, other \in Kinds : kind # other => kind \intersect other = {}
<1>1. Changes = Marks \union Views /\ Marks \intersect Views = {} /\ Marks # Views
  BY DEF Changes, Marks, Views
<1>2. \A letter \in Letters, kind \in Kinds : Of(letter, kind) \in kind
  BY <1>1 DEF Letters, Kinds, Of
<1>3. ASSUME NEW letter \in Letters, NEW other \in Letters,
             \A kind \in Kinds : Of(letter, kind) = Of(other, kind)
      PROVE  letter = other
  <2>1. letter.mark = other.mark /\ letter.place = other.place
    BY <1>1, <1>3 DEF Kinds, Of
  <2>. QED
    BY <2>1 DEF Letters
<1>. QED
  BY <1>1, <1>2, <1>3 DEF Kinds

\* A change sets the value of its kind and leaves the other one.
LEMMA Applies ==
    ASSUME NEW letter \in Letters, NEW change \in Changes
    PROVE  /\ Applied(letter, change) \in Letters
           /\ \A kind \in Kinds :
                Of(Applied(letter, change), kind) = IF change \in kind THEN change ELSE Of(letter, kind)
<1>1. Changes = Marks \union Views /\ Marks \intersect Views = {} /\ Marks # Views
  BY Values
<1>2. CASE change \in Marks
  BY <1>1, <1>2 DEF Applied, Letters, Kinds, Of
<1>3. CASE change \in Views
  BY <1>1, <1>3 DEF Applied, Letters, Kinds, Of
<1>. QED
  BY <1>1, <1>2, <1>3

LEMMA List ==
    ASSUME NEW rows
    PROVE  rows \in Lists <=> /\ DOMAIN rows \in SUBSET Messages /\ rows = [m \in DOMAIN rows |-> rows[m]]
                              /\ \A m \in DOMAIN rows : rows[m] \in Marks
BY DEF Lists

LEMMA NoFetchIsOne == NoFetch.phase = "none" /\ NoFetch \in [phase : {"none", "sent", "answered"}, answer : Lists]
<1>1. <<>> = [m \in {} |-> "read"] /\ "read" \in Marks
  BY DEF Marks
<1>2. <<>> \in Lists
  BY <1>1 DEF Lists
<1>. QED
  BY <1>2 DEF NoFetch

LEMMA NewFetchIsOne ==
    /\ [phase |-> "sent", answer |-> <<>>].phase = "sent"
    /\ [phase |-> "sent", answer |-> <<>>] \in [phase : {"none", "sent", "answered"}, answer : Lists]
BY NoFetchIsOne DEF NoFetch

\* A patch keeps a list a list, and changes the rows of its letters as it says.
IsPatch(new, v, rows, ids, change) ==
    /\ new \in Lists
    /\ change \in Marks => /\ DOMAIN new = DOMAIN rows
                           /\ \A m \in DOMAIN rows :
                                 new[m] = IF m \in ids THEN change ELSE rows[m]
    /\ change = v => new = rows
    /\ change \in Views \ {v} => /\ DOMAIN new = DOMAIN rows \ ids
                                 /\ \A m \in DOMAIN new : new[m] = rows[m]

LEMMA Patches ==
    ASSUME NEW v \in Views, NEW rows \in Lists, NEW ids, NEW change \in Changes
    PROVE  IsPatch(Patched(v, rows, ids, change), v, rows, ids, change)
<1>1. /\ Changes = Marks \union Views /\ Marks \intersect Views = {}
      /\ DOMAIN rows \in SUBSET Messages /\ \A m \in DOMAIN rows : rows[m] \in Marks
  BY Values, List
<1>2. CASE change \in Marks
  <2>1. Patched(v, rows, ids, change) = [m \in DOMAIN rows |-> IF m \in ids THEN change ELSE rows[m]]
    BY <1>2 DEF Patched
  <2>2. Patched(v, rows, ids, change) \in Lists
    BY <1>1, <1>2, <2>1, List
  <2>. QED
    BY <1>1, <1>2, <2>1, <2>2 DEF IsPatch
<1>3. CASE change = v
  BY <1>1, <1>3 DEF Patched, IsPatch
<1>4. CASE change \in Views \ {v}
  <2>1. Patched(v, rows, ids, change) = [m \in DOMAIN rows \ ids |-> rows[m]]
    BY <1>1, <1>4 DEF Patched, Restrict
  <2>2. Patched(v, rows, ids, change) \in Lists
    BY <1>1, <2>1, List
  <2>. QED
    BY <1>1, <1>4, <2>1, <2>2 DEF IsPatch
<1>. QED
  BY <1>1, <1>2, <1>3, <1>4

LEMMA PatchesAll ==
    ASSUME CacheOK, NEW ids \in SUBSET Messages, NEW change \in Changes
    PROVE  /\ ListsPatched(ids, change) \in [Views -> [rows : Lists, invalid : BOOLEAN]]
           /\ DetailsPatched(ids, change) \in [Messages -> Letters]
<1>1. ASSUME NEW v \in Views PROVE Patched(v, lists[v].rows, ids, change) \in Lists
  <2>1. lists[v].rows \in Lists
    BY DEF CacheOK
  <2>. QED
    BY <2>1, Patches DEF IsPatch
<1>2. \A m \in Messages : details[m] \in Letters
  BY DEF CacheOK
<1>3. \A m \in Messages : DetailsPatched(ids, change)[m] = IF m \in ids THEN Applied(details[m], change) ELSE details[m]
  BY DEF DetailsPatched
<1>4. \A m \in Messages : DetailsPatched(ids, change)[m] \in Letters
  BY <1>2, <1>3, Applies
<1>5. DetailsPatched(ids, change) = [m \in Messages |-> DetailsPatched(ids, change)[m]]
  BY DEF DetailsPatched
<1>. QED
  BY <1>1, <1>4, <1>5 DEF ListsPatched

LEMMA PatchesDetail ==
    ASSUME CacheOK, NEW ids \in SUBSET Messages, NEW change \in Changes,
           NEW m \in Messages, NEW kind \in Kinds
    PROVE  Of(DetailsPatched(ids, change)[m], kind)
             = IF m \in ids /\ change \in kind THEN change ELSE Of(details[m], kind)
<1>1. details[m] \in Letters
  BY DEF CacheOK
<1>2. DetailsPatched(ids, change)[m] = IF m \in ids THEN Applied(details[m], change) ELSE details[m]
  BY DEF DetailsPatched
<1>. QED
  BY <1>1, <1>2, Applies

LEMMA RowsAreAList ==
    ASSUME truth \in [Messages -> Letters], NEW v
    PROVE  /\ RowsOf(v) \in Lists
           /\ \A m \in Messages : m \in DOMAIN RowsOf(v) <=> truth[m].place = v
           /\ \A m \in DOMAIN RowsOf(v) : RowsOf(v)[m] = truth[m].mark
<1>1. \A m \in Messages : truth[m].mark \in Marks
  BY DEF Letters
<1>2. RowsOf(v) \in Lists
  BY <1>1, List DEF RowsOf
<1>. QED
  BY <1>2 DEF RowsOf

-----------------------------------------------------------------------------
(* The events that are held back                                           *)

\* What is published is held back under a key of its own, and nothing is lost.
TakesIn(new, ids, change) ==
    /\ new \in Seq(Event) /\ KeysAreUnique(new)
    /\ \A i \in DOMAIN windows : /\ i \in DOMAIN new /\ new[i].change = windows[i].change
                                 /\ windows[i].ids \subseteq new[i].ids
    /\ \A m \in ids : \E i \in DOMAIN new : new[i].change = change /\ m \in new[i].ids

LEMMA Publishes ==
    ASSUME WindowsOK, NEW ids \in SUBSET Messages, NEW change \in Changes
    PROVE  TakesIn(Published(ids, change), ids, change)
<1>. DEFINE n == Len(windows)
            e == [change |-> change, ids |-> ids]
            new == Published(ids, change)
<1>1. /\ windows \in Seq(Event) /\ n \in Nat /\ DOMAIN windows = 1 .. n
      /\ \A i \in DOMAIN windows : windows[i] \in Event
  BY DEF WindowsOK
<1>2. \A i \in DOMAIN windows : /\ windows[i].change \in Changes /\ windows[i].ids # {}
                                /\ windows[i].ids \in SUBSET Messages
  BY <1>1 DEF Event
<1>3. CASE ids = {}
  BY <1>1, <1>3 DEF Published, WindowsOK, TakesIn
<1>4. CASE ids # {} /\ \E i \in DOMAIN windows : SameKey(windows[i], ids, change)
  <2>1. new = [i \in DOMAIN windows |-> IF SameKey(windows[i], ids, change)
                                        THEN [windows[i] EXCEPT !.ids = @ \union ids] ELSE windows[i]]
    BY <1>4 DEF Published
  <2>2. \A i \in DOMAIN windows :
           /\ new[i] \in Event /\ new[i].change = windows[i].change
           /\ new[i].ids = IF SameKey(windows[i], ids, change) THEN windows[i].ids \union ids ELSE windows[i].ids
    BY <1>1, <1>2, <2>1 DEF Event
  <2>3. DOMAIN new = DOMAIN windows /\ new \in Seq(Event)
    BY <1>1, <2>1, <2>2
  <2>4. KeysAreUnique(new)
    <3>1. SUFFICES ASSUME NEW i \in DOMAIN windows, NEW j \in DOMAIN windows,
                          SameKey(new[i], new[j].ids, new[j].change)
                   PROVE  i = j
      BY <2>3 DEF KeysAreUnique
    <3>2. SameKey(windows[i], windows[j].ids, windows[j].change)
      BY <2>2, <3>1 DEF SameKey
    <3>. QED
      BY <3>2 DEF WindowsOK, KeysAreUnique
  <2>5. PICK i \in DOMAIN windows : SameKey(windows[i], ids, change)
    BY <1>4
  <2>6. new[i].change = change /\ ids \subseteq new[i].ids
    BY <2>2, <2>5 DEF SameKey
  <2>. QED
    BY <2>2, <2>3, <2>4, <2>5, <2>6 DEF TakesIn
<1>5. CASE ids # {} /\ ~ \E i \in DOMAIN windows : SameKey(windows[i], ids, change)
  <2>1. new = Append(windows, e)
    BY <1>5 DEF Published
  <2>2. e \in Event
    BY <1>5 DEF Event
  <2>3. /\ new \in Seq(Event) /\ DOMAIN new = 1 .. n + 1 /\ new[n + 1] = e
        /\ \A i \in 1 .. n : new[i] = windows[i]
    BY <1>1, <2>1, <2>2
  <2>4. KeysAreUnique(new)
    <3>1. SUFFICES ASSUME NEW i \in 1 .. n + 1, NEW j \in 1 .. n + 1,
                          SameKey(new[i], new[j].ids, new[j].change)
                   PROVE  i = j
      BY <2>3 DEF KeysAreUnique
    <3>2. CASE i \in 1 .. n /\ j \in 1 .. n
      BY <1>1, <2>3, <3>1, <3>2 DEF WindowsOK, KeysAreUnique
    <3>3. CASE i \in 1 .. n /\ j = n + 1
      BY <1>1, <1>5, <2>3, <3>1, <3>3
    <3>4. CASE i = n + 1 /\ j \in 1 .. n
      <4>1. SameKey(windows[j], ids, change)
        BY <2>3, <3>1, <3>4 DEF SameKey
      <4>. QED
        BY <1>1, <1>5, <3>4, <4>1
    <3>. QED
      BY <1>1, <3>1, <3>2, <3>3, <3>4
  <2>. QED
    BY <1>1, <2>3, <2>4 DEF TakesIn
<1>. QED
  BY <1>3, <1>4, <1>5

-----------------------------------------------------------------------------
(* What the user does                                                      *)

\* The plans beside p are the same in all that matters.
SamePlan(q) ==
    /\ plans'[q].phase = plans[q].phase /\ plans'[q].change = plans[q].change
    /\ plans'[q].ids = plans[q].ids /\ plans'[q].source = plans[q].source
    /\ plans'[q].todo = plans[q].todo /\ plans'[q].asked = plans[q].asked
    /\ plans'[q].reply = plans[q].reply /\ plans'[q].updated = plans[q].updated
    /\ plans'[q].failed = plans[q].failed /\ plans'[q].snapshot = plans[q].snapshot

LEMMA SamePlanStays ==
    ASSUME NEW q, SamePlan(q)
    PROVE  /\ Pending(q)' = Pending(q) /\ Unserved(q)' = Unserved(q) /\ Refused(q)' = Refused(q)
           /\ Abandoned(q)' = Abandoned(q)
           /\ PlanIsOK(q) => PlanIsOK(q)'
<1>1. Pending(q)' = Pending(q) /\ Abandoned(q)' = Abandoned(q)
  BY DEF SamePlan, Pending, Abandoned
<1>2. Unserved(q)' = Unserved(q) /\ Refused(q)' = Refused(q)
  BY DEF SamePlan, Unserved, Refused
<1>3. PlanIsOK(q) => PlanIsOK(q)'
  BY <1>1 DEF SamePlan, PlanIsOK, Divided
<1>. QED
  BY <1>1, <1>2, <1>3

LEMMA Mutating ==
    ASSUME Inv, NEW p \in Plans, NEW plan \in PlanStates, plan.ids # {}, plan.source # p,
           plan.reply = {}, plan.updated = {}, plan.failed = {}, Mutate(p, plan)
    PROVE  Inv'
<1>1. /\ TypesOK /\ CacheOK /\ PlansOK /\ WindowsOK /\ DetailsExplained
  BY DEF Inv, TypesOK
<1>2. PICK request \in Requests(plan.change, plan.ids) :
        plans' = [q \in Plans |->
            IF q = p
            THEN [plan EXCEPT !.phase = "sent", !.asked = request, !.todo = plan.ids \ request,
                              !.snapshot = Snapshot,
                              !.alone = /\ windows = <<>>
                                        /\ \A r \in Plans : ~ Pending(r) /\ ~ Abandoned(r)]
            ELSE [plans[q] EXCEPT !.alone = FALSE]]
  BY DEF Mutate
<1>3. /\ plans[p].phase = "none" /\ lists' = ListsPatched(plan.ids, plan.change)
      /\ details' = DetailsPatched(plan.ids, plan.change) /\ fetch' = NoFetch
      /\ UNCHANGED <<truth, shown, windows, disturbances, unsure, astray, overtaken, doubtful>>
  BY DEF Mutate
<1>4. plan.ids \in SUBSET Messages /\ plan.change \in Changes
  BY DEF PlanStates
<1>5. request \in SUBSET plan.ids /\ request # {}
  BY <1>4 DEF Requests
<1>6. /\ plans'[p].phase = "sent" /\ plans'[p].asked = request /\ plans'[p].todo = plan.ids \ request
      /\ plans'[p].snapshot = Snapshot /\ plans'[p].change = plan.change /\ plans'[p].ids = plan.ids
      /\ plans'[p].reply = {} /\ plans'[p].updated = {} /\ plans'[p].failed = {}
      /\ plans'[p].source = plan.source
      /\ plans'[p].alone => windows = <<>> /\ \A r \in Plans : ~ Pending(r) /\ ~ Abandoned(r)
  BY <1>2 DEF PlanStates
<1>7. \A q \in Plans \ {p} : plans[q] \in PlanStates /\ plans'[q] = [plans[q] EXCEPT !.alone = FALSE]
  BY <1>1, <1>2 DEF PlansOK
<1>8. ASSUME NEW q \in Plans \ {p} PROVE SamePlan(q) /\ plans'[q] \in PlanStates /\ plans'[q].alone = FALSE
  <2>1. PICK old, new : /\ old = plans[q] /\ new = plans'[q]
                        /\ old \in PlanStates /\ new = [old EXCEPT !.alone = FALSE]
    BY <1>7
  <2>2. new \in PlanStates /\ new.alone = FALSE
    BY <2>1 DEF PlanStates
  <2>3. /\ new.phase = old.phase /\ new.change = old.change /\ new.ids = old.ids
        /\ new.source = old.source /\ new.todo = old.todo /\ new.asked = old.asked
        /\ new.reply = old.reply /\ new.updated = old.updated /\ new.failed = old.failed
        /\ new.snapshot = old.snapshot
    BY <2>1 DEF PlanStates
  <2>. QED
    BY <2>1, <2>2, <2>3 DEF SamePlan
<1>9. Snapshot \in Snapshots /\ Snapshot.details = details
  <2>1. \A v \in Views : lists[v].rows \in Lists
    BY <1>1 DEF CacheOK
  <2>. QED
    BY <1>1, <2>1 DEF Snapshot, Snapshots, CacheOK
<1>10. ~ Pending(p) /\ Pending(p)'
  BY <1>3, <1>6 DEF Pending
<1>11. CacheOK'
  <2>1. /\ lists' \in [Views -> [rows : Lists, invalid : BOOLEAN]]
        /\ details' \in [Messages -> Letters]
    BY <1>1, <1>3, <1>4, PatchesAll
  <2>2. fetch' \in [phase : {"none", "sent", "answered"}, answer : Lists]
    BY <1>3, NoFetchIsOne
  <2>. QED
    BY <1>1, <1>3, <2>1, <2>2 DEF CacheOK
<1>12. PlansOK'
  <2>1. plans'[p] \in PlanStates
    BY <1>2, <1>4, <1>5, <1>9 DEF PlanStates
  <2>2. PlanIsOK(p)'
    BY <1>5, <1>6, <1>9, <1>10 DEF PlanIsOK, Divided
  <2>3. \A q \in Plans \ {p} : PlanIsOK(q)'
    BY <1>1, <1>8, SamePlanStays DEF PlansOK
  <2>4. plans' = [q \in Plans |-> plans'[q]]
    BY <1>2
  <2>. QED
    BY <1>8, <2>1, <2>2, <2>3, <2>4 DEF PlansOK
<1>13. WindowsOK'
  BY <1>1, <1>3 DEF WindowsOK, KeysAreUnique, SameKey
<1>14. DetailsExplained'
  <2>1. SUFFICES ASSUME NEW m \in Messages \ doubtful, NEW kind \in Kinds
                 PROVE  Explained(m, kind)'
    BY <1>3 DEF DetailsExplained
  <2>2. Explained(m, kind)
    BY <1>1 DEF DetailsExplained
  <2>3. Of(details'[m], kind) = IF m \in plan.ids /\ plan.change \in kind THEN plan.change ELSE Of(details[m], kind)
    <3>1. PICK ids \in SUBSET Messages, change \in Changes : ids = plan.ids /\ change = plan.change
      BY <1>4
    <3>2. Of(DetailsPatched(ids, change)[m], kind)
            = IF m \in ids /\ change \in kind THEN change ELSE Of(details[m], kind)
      BY <1>1, PatchesDetail
    <3>. QED
      BY <1>3, <3>1, <3>2
  <2>4. CASE m \in plan.ids /\ plan.change \in kind
    <3>1. m \in Unserved(p)'
      BY <1>5, <1>6, <2>4 DEF Unserved
    <3>. QED
      BY <1>6, <1>10, <2>3, <2>4, <3>1 DEF Explained, IsAskedFor
  <2>5. CASE ~ (m \in plan.ids /\ plan.change \in kind)
    <3>1. Of(details'[m], kind) = Of(details[m], kind)
      BY <2>3, <2>5
    <3>2. IsHeldBack(m, kind)' <=> IsHeldBack(m, kind)
      BY <1>3 DEF IsHeldBack
    <3>3. IsAskedFor(m, kind) => IsAskedFor(m, kind)'
      BY <1>8, <1>10, <3>1, SamePlanStays DEF IsAskedFor, SamePlan
    <3>4. IsRefused(m) => IsRefused(m)'
      BY <1>8, <1>10, SamePlanStays DEF IsRefused
    <3>. QED
      BY <1>3, <2>2, <3>1, <3>2, <3>3, <3>4 DEF Explained
  <2>. QED
    BY <2>4, <2>5
<1>15. AloneIsAlone'
  <2>1. SUFFICES ASSUME plans'[p].alone
                 PROVE  /\ \A q \in Plans \ {p} : ~ Pending(q)' /\ ~ Abandoned(q)'
                        /\ \A m \in Messages \ doubtful : details[m] = truth[m]
    BY <1>3, <1>6, <1>8, <1>9 DEF AloneIsAlone
  <2>2. windows = <<>> /\ \A r \in Plans : ~ Pending(r) /\ ~ Abandoned(r)
    BY <1>6, <2>1
  <2>3. ASSUME NEW m \in Messages \ doubtful PROVE details[m] = truth[m]
    <3>1. \A kind \in Kinds : Of(details[m], kind) = Of(truth[m], kind)
      BY <1>1, <2>2 DEF DetailsExplained, Explained, IsHeldBack, IsAskedFor, IsRefused
    <3>2. details[m] \in Letters /\ truth[m] \in Letters
      BY <1>1 DEF CacheOK
    <3>. QED
      BY <3>1, <3>2, Values
  <2>. QED
    BY <1>8, <2>2, <2>3, SamePlanStays
<1>16. AnswerIsFresh' /\ ListIsRight'
  BY <1>10 DEF AnswerIsFresh, ListIsRight, Quiet
<1>. QED
  BY <1>11, <1>12, <1>13, <1>14, <1>15, <1>16 DEF Inv, TypesOK

LEMMA NoPlanIsOne ==
    /\ NoPlan \in PlanStates /\ NoPlan.phase = "none" /\ NoPlan.source = None
    /\ NoPlan.todo = {} /\ NoPlan.asked = {} /\ NoPlan.reply = {}
    /\ NoPlan.updated = {} /\ NoPlan.failed = {}
BY DEF NoPlan, PlanStates, Changes, Marks, Views

LEMMA Toggling ==
    ASSUME Inv, NEW p \in Plans, ToggleRead(p)
    PROVE  Inv'
<1>1. PICK ids \in Selections, change \in Marks :
        Mutate(p, [NoPlan EXCEPT !.ids = ids, !.from = shown, !.change = change])
  BY DEF ToggleRead, Marks
<1>. DEFINE plan == [NoPlan EXCEPT !.ids = ids, !.from = shown, !.change = change]
<1>2. shown \in Views /\ ids \in SUBSET Messages /\ ids # {}
  <2>1. shown \in Views /\ lists[shown].rows \in Lists
    BY DEF Inv, TypesOK, CacheOK
  <2>2. DOMAIN lists[shown].rows \in SUBSET Messages
    BY <2>1, List
  <2>. QED
    BY <2>1, <2>2 DEF Selections
<1>3. plan \in PlanStates /\ plan.ids = ids /\ plan.source = None /\ plan.reply = {} /\ plan.updated = {} /\ plan.failed = {}
  BY <1>2, NoPlanIsOne, Values DEF PlanStates
<1>4. None # p
  BY ActionsAssumption DEF None
<1>. QED
  BY <1>1, <1>2, <1>3, <1>4, Mutating

LEMMA Moving ==
    ASSUME Inv, NEW p \in Plans, Move(p)
    PROVE  Inv'
<1>1. PICK ids \in Selections, v \in Views :
        Mutate(p, [NoPlan EXCEPT !.ids = ids, !.from = shown, !.change = v])
  BY DEF Move
<1>. DEFINE plan == [NoPlan EXCEPT !.ids = ids, !.from = shown, !.change = v]
<1>2. shown \in Views /\ ids \in SUBSET Messages /\ ids # {}
  <2>1. shown \in Views /\ lists[shown].rows \in Lists
    BY DEF Inv, TypesOK, CacheOK
  <2>2. DOMAIN lists[shown].rows \in SUBSET Messages
    BY <2>1, List
  <2>. QED
    BY <2>1, <2>2 DEF Selections
<1>3. plan \in PlanStates /\ plan.ids = ids /\ plan.source = None /\ plan.reply = {} /\ plan.updated = {} /\ plan.failed = {}
  BY <1>2, NoPlanIsOne, Values DEF PlanStates
<1>4. None # p
  BY ActionsAssumption DEF None
<1>. QED
  BY <1>1, <1>2, <1>3, <1>4, Mutating

LEMMA Undoing ==
    ASSUME Inv, NEW p \in Plans, Undo(p)
    PROVE  Inv'
<1>1. PICK q \in Plans :
        /\ plans[q].phase = "done" /\ plans[q].change \in Views
        /\ Mutate(p, [NoPlan EXCEPT !.ids = plans[q].ids, !.from = plans[q].change,
                                    !.change = plans[q].from, !.isUndo = TRUE, !.source = q])
  BY DEF Undo
<1>. DEFINE plan == [NoPlan EXCEPT !.ids = plans[q].ids, !.from = plans[q].change,
                                   !.change = plans[q].from, !.isUndo = TRUE, !.source = q]
<1>2. plans[q] \in PlanStates /\ plans[q].ids # {}
  BY <1>1 DEF Inv, TypesOK, PlansOK, PlanIsOK
<1>3. /\ plans[q].ids \in SUBSET Messages /\ plans[q].from \in Views
  BY <1>2 DEF PlanStates
<1>4. /\ plan \in PlanStates /\ plan.ids = plans[q].ids /\ plan.source = q
      /\ plan.reply = {} /\ plan.updated = {} /\ plan.failed = {}
  BY <1>1, <1>3, NoPlanIsOne, Values DEF PlanStates
<1>5. q # p
  BY <1>1 DEF Mutate
<1>. QED
  BY <1>1, <1>2, <1>4, <1>5, Mutating

LEMMA Retrying ==
    ASSUME Inv, NEW p \in Plans, Retry(p)
    PROVE  Inv'
<1>1. PICK q \in Plans : plans[q].phase = "rolledBack" /\ Mutate(p, [plans[q] EXCEPT !.source = q])
  BY DEF Retry
<1>. DEFINE plan == [plans[q] EXCEPT !.source = q]
<1>2. /\ plans[q] \in PlanStates /\ plans[q].ids # {}
      /\ plans[q].reply = {} /\ plans[q].updated = {} /\ plans[q].failed = {}
  BY <1>1 DEF Inv, TypesOK, PlansOK, PlanIsOK, Pending
<1>3. /\ plan \in PlanStates /\ plan.ids # {} /\ plan.source = q
      /\ plan.reply = {} /\ plan.updated = {} /\ plan.failed = {}
  BY <1>2 DEF PlanStates
<1>4. q # p
  BY <1>1 DEF Mutate
<1>. QED
  BY <1>1, <1>3, <1>4, Mutating

\* What happens to the lists alone leaves all that is said of the rest.
LEMMA ListsOnly ==
    ASSUME Inv, UNCHANGED <<truth, details, plans, windows, doubtful>>
    PROVE  /\ PlansOK' /\ WindowsOK' /\ DetailsExplained' /\ AloneIsAlone'
           /\ Quiet' = Quiet
<1>1. PlansOK' /\ WindowsOK'
  BY DEF Inv, TypesOK, PlansOK, PlanIsOK, Pending, WindowsOK
<1>2. DetailsExplained' /\ AloneIsAlone'
  BY DEF Inv, DetailsExplained, Explained, IsHeldBack, IsAskedFor, IsRefused, Unserved, Refused,
         AloneIsAlone, Pending, Abandoned
<1>3. Quiet' = Quiet
  BY DEF Quiet, Pending
<1>. QED
  BY <1>1, <1>2, <1>3

\* Another view on the screen: what is shown is not sure.
LEMMA Showing ==
    ASSUME Inv, NEW v \in Views, Show(v)
    PROVE  Inv'
<1>1. /\ shown' = v /\ unsure' = TRUE /\ fetch'.phase # "answered"
      /\ fetch' \in [phase : {"none", "sent", "answered"}, answer : Lists]
      /\ UNCHANGED <<truth, lists, details, plans, windows, disturbances, astray, overtaken, doubtful>>
  BY NoFetchIsOne, NewFetchIsOne DEF Show
<1>2. CacheOK'
  BY <1>1 DEF Inv, TypesOK, CacheOK
<1>3. AnswerIsFresh' /\ ListIsRight'
  BY <1>1 DEF AnswerIsFresh, ListIsRight
<1>. QED
  BY <1>1, <1>2, <1>3, ListsOnly DEF Inv, TypesOK

LEMMA FailingToFetch ==
    ASSUME Inv, FetchFails
    PROVE  Inv'
<1>1. /\ fetch' = NoFetch /\ unsure' = TRUE /\ disturbances' \in 0 .. MaxDisturbances
      /\ UNCHANGED <<truth, shown, lists, details, plans, windows, astray, overtaken, doubtful>>
  BY ActionsAssumption DEF FetchFails, Disturbed, Inv, TypesOK, CacheOK
<1>2. CacheOK'
  BY <1>1, NoFetchIsOne DEF Inv, TypesOK, CacheOK
<1>3. AnswerIsFresh' /\ ListIsRight'
  BY <1>1, NoFetchIsOne DEF AnswerIsFresh, ListIsRight
<1>. QED
  BY <1>1, <1>2, <1>3, ListsOnly DEF Inv, TypesOK

LEMMA AnsweringFetch ==
    ASSUME Inv, AnswerFetch
    PROVE  Inv'
<1>1. /\ fetch' = [phase |-> "answered", answer |-> RowsOf(shown)] /\ overtaken' = {}
      /\ UNCHANGED <<truth, shown, lists, details, plans, windows, disturbances, unsure, astray, doubtful>>
  BY DEF AnswerFetch
<1>2. CacheOK'
  <2>1. RowsOf(shown) \in Lists
    BY RowsAreAList DEF Inv, TypesOK, CacheOK
  <2>. QED
    BY <1>1, <2>1 DEF Inv, TypesOK, CacheOK
<1>3. AnswerIsFresh' /\ ListIsRight'
  <2>1. \A m \in Messages : IsTrueRow(RowsOf(shown), m)
    BY RowsAreAList DEF Inv, TypesOK, CacheOK, IsTrueRow
  <2>2. \A m \in Messages : IsTrueRow(fetch.answer, m)'
    BY <1>1, <2>1 DEF IsTrueRow
  <2>. QED
    BY <1>1, <2>2 DEF AnswerIsFresh, ListIsRight
<1>. QED
  BY <1>1, <1>2, <1>3, ListsOnly DEF Inv, TypesOK

LEMMA Arriving ==
    ASSUME Inv, Arrive
    PROVE  Inv'
<1>1. /\ fetch.phase = "answered"
      /\ lists' = [lists EXCEPT ![shown] = [rows |-> fetch.answer, invalid |-> FALSE]]
      /\ fetch' = NoFetch /\ unsure' = FALSE /\ astray' = {}
      /\ UNCHANGED <<truth, shown, details, plans, windows, disturbances, overtaken, doubtful>>
  BY DEF Arrive
<1>2. CacheOK /\ AnswerIsFresh
  BY DEF Inv, TypesOK
<1>3. CacheOK'
  <2>1. [rows |-> fetch.answer, invalid |-> FALSE] \in [rows : Lists, invalid : BOOLEAN]
    BY <1>2 DEF CacheOK
  <2>2. lists' \in [Views -> [rows : Lists, invalid : BOOLEAN]]
    BY <1>1, <1>2, <2>1 DEF CacheOK
  <2>. QED
    BY <1>1, <1>2, <2>2, NoFetchIsOne DEF CacheOK
<1>4. AnswerIsFresh'
  BY <1>1, NoFetchIsOne DEF AnswerIsFresh
<1>5. ListIsRight'
  <2>1. SUFFICES ASSUME Quiet', NEW m \in Messages \ overtaken
                 PROVE  IsRightRow(lists[shown].rows, m)'
    BY <1>1 DEF ListIsRight
  <2>2. lists'[shown].rows = fetch.answer /\ shown \in Views
    BY <1>1, <1>2 DEF CacheOK
  <2>3. Quiet
    BY <1>1, <2>1, ListsOnly
  <2>4. IsTrueRow(fetch.answer, m)
    BY <1>1, <1>2, <2>1, <2>3 DEF AnswerIsFresh
  <2>. QED
    BY <1>1, <2>2, <2>4 DEF IsTrueRow, IsRightRow
<1>. QED
  BY <1>1, <1>3, <1>4, <1>5, ListsOnly DEF Inv, TypesOK

-----------------------------------------------------------------------------
(* What the server does, and what comes back                               *)

\* A request that is carried out: what a letter of it gains is held back as an
\* event, or was so already; what is refused is remembered.
LEMMA Serving ==
    ASSUME Inv, NEW p \in Plans, Serve(p)
    PROVE  Inv'
<1>1. /\ TypesOK /\ CacheOK /\ PlansOK /\ WindowsOK /\ DetailsExplained /\ AloneIsAlone
  BY DEF Inv, TypesOK
<1>2. PICK plan \in PlanStates, ok \in SUBSET plans[p].asked :
        /\ plan = plans[p]
        /\ disturbances' \in 0 .. MaxDisturbances
        /\ truth' = [m \in Messages |->
                IF m \in ok THEN Applied(truth[m], plans[p].change) ELSE truth[m]]
        /\ windows' = Published(Emitted(ok, plans[p].change), plans[p].change)
        /\ plans' = [plans EXCEPT ![p].phase = "answered", ![p].reply = ok]
  <2>1. disturbances \in 0 .. MaxDisturbances /\ MaxDisturbances \in Nat
    BY <1>1, ActionsAssumption DEF CacheOK
  <2>2. Undisturbed \/ Disturbed => disturbances' \in 0 .. MaxDisturbances
    BY <2>1 DEF Undisturbed, Disturbed
  <2>. QED
    BY <1>1, <2>2 DEF Serve, CarriedOut, PlansOK
<1>3. /\ plan.phase = "sent"
      /\ UNCHANGED <<shown, lists, fetch, details, unsure, astray, overtaken, doubtful>>
  BY <1>2 DEF Serve
<1>4. Pending(p) /\ plan.snapshot \in Snapshots /\ Divided(plan) /\ plan.asked # {}
      /\ plan.ids # {} /\ plan.source # p
  BY <1>1, <1>2, <1>3 DEF PlansOK, PlanIsOK, Pending
<1>5. plan.asked \in SUBSET Messages /\ plan.change \in Changes
  BY DEF PlanStates
<1>6. /\ plans'[p] = [plan EXCEPT !.phase = "answered", !.reply = ok]
      /\ \A q \in Plans \ {p} : plans'[q] = plans[q]
      /\ plans' = [q \in Plans |-> plans'[q]]
  BY <1>1, <1>2 DEF PlansOK
<1>7. /\ plans'[p].phase = "answered" /\ plans'[p].reply = ok /\ plans'[p].change = plan.change
      /\ plans'[p].ids = plan.ids /\ plans'[p].source = plan.source /\ plans'[p].todo = plan.todo
      /\ plans'[p].asked = plan.asked /\ plans'[p].updated = plan.updated
      /\ plans'[p].failed = plan.failed /\ plans'[p].snapshot = plan.snapshot
      /\ plans'[p].alone = plan.alone
  BY <1>6 DEF PlanStates
<1>8. ASSUME NEW q \in Plans \ {p} PROVE SamePlan(q) /\ plans'[q].alone = plans[q].alone
  BY <1>6 DEF SamePlan
<1>9. /\ Pending(p)' /\ \A q \in Plans : Pending(q)' = Pending(q)
      /\ \A q \in Plans \ {p} : Abandoned(q)' = Abandoned(q)
  BY <1>4, <1>7, <1>8, SamePlanStays DEF Pending
<1>10. ASSUME NEW m \in Messages, NEW kind \in Kinds
       PROVE  /\ truth'[m] \in Letters
              /\ Of(truth'[m], kind) = IF m \in ok /\ plan.change \in kind THEN plan.change ELSE Of(truth[m], kind)
              /\ m \notin ok => truth'[m] = truth[m]
  <2>1. truth[m] \in Letters
    BY <1>1 DEF CacheOK
  <2>2. truth'[m] = IF m \in ok THEN Applied(truth[m], plan.change) ELSE truth[m]
    BY <1>2
  <2>. QED
    BY <1>5, <2>1, <2>2, Applies
<1>11. CacheOK'
  <2>1. truth' = [m \in Messages |-> truth'[m]]
    BY <1>2
  <2>2. truth' \in [Messages -> Letters]
    BY <1>10, <2>1 DEF Kinds
  <2>. QED
    BY <1>1, <1>2, <1>3, <2>2 DEF CacheOK
<1>12. PlansOK'
  <2>1. plans'[p] \in PlanStates
    BY <1>2, <1>5, <1>6 DEF PlanStates
  <2>2. PlanIsOK(p)'
    BY <1>2, <1>4, <1>7, <1>9 DEF PlanIsOK, Divided
  <2>3. \A q \in Plans \ {p} : PlanIsOK(q)' /\ plans'[q] \in PlanStates
    BY <1>1, <1>6, <1>8, SamePlanStays DEF PlansOK
  <2>. QED
    BY <1>6, <2>1, <2>2, <2>3 DEF PlansOK
<1>13. PICK ids \in SUBSET Messages, change \in Changes :
        /\ ids = Emitted(ok, plan.change) /\ change = plan.change
        /\ windows' = Published(ids, change)
  <2>1. Emitted(ok, plan.change) \in SUBSET Messages
    BY <1>2, <1>5 DEF Emitted
  <2>. QED
    BY <1>2, <1>5, <2>1
<1>14. /\ windows' \in Seq(Event) /\ KeysAreUnique(windows')
       /\ \A i \in DOMAIN windows : /\ i \in DOMAIN windows' /\ windows'[i].change = windows[i].change
                                    /\ windows[i].ids \subseteq windows'[i].ids
       /\ \A m \in ids : \E i \in DOMAIN windows' : windows'[i].change = change /\ m \in windows'[i].ids
  <2>1. TakesIn(Published(ids, change), ids, change)
    BY <1>1, Publishes
  <2>. QED
    BY <1>13, <2>1 DEF TakesIn
<1>15. WindowsOK'
  BY <1>14 DEF WindowsOK, KeysAreUnique, SameKey
<1>16. DetailsExplained'
  <2>1. SUFFICES ASSUME NEW m \in Messages \ doubtful, NEW kind \in Kinds
                 PROVE  Explained(m, kind)'
    BY <1>3 DEF DetailsExplained
  <2>2. Explained(m, kind)
    BY <1>1 DEF DetailsExplained
  <2>3. CASE m \in ids /\ plan.change \in kind
    <3>1. IsHeldBack(m, kind)'
      BY <1>13, <1>14, <2>3 DEF IsHeldBack
    <3>. QED
      BY <3>1 DEF Explained
  <2>4. CASE ~ (m \in ids /\ plan.change \in kind)
    <3>1. Of(truth'[m], kind) = Of(truth[m], kind)
      <4>1. CASE m \in ok /\ plan.change \in kind
        <5>1. plan.change \notin Marks /\ truth[m].place = plan.change
          BY <1>13, <2>4, <4>1 DEF Emitted
        <5>2. kind = Views
          BY <4>1, <5>1 DEF Kinds
        <5>. QED
          BY <1>10, <4>1, <5>1, <5>2, Values DEF Of
      <4>. QED
        BY <1>10, <4>1
    <3>2. CASE Of(details[m], kind) = Of(truth[m], kind)
      BY <1>3, <3>1, <3>2 DEF Explained
    <3>3. CASE IsHeldBack(m, kind)
      <4>1. IsHeldBack(m, kind)'
        BY <1>14, <3>3 DEF IsHeldBack
      <4>. QED
        BY <4>1 DEF Explained
    <3>4. CASE IsAskedFor(m, kind)
      <4>1. PICK q \in Plans : Pending(q) /\ m \in Unserved(q) /\ plans[q].change = Of(details[m], kind)
        BY <3>4 DEF IsAskedFor
      <4>2. CASE q # p
        <5>1. IsAskedFor(m, kind)'
          BY <1>3, <1>8, <4>1, <4>2, SamePlanStays DEF IsAskedFor, SamePlan
        <5>. QED
          BY <5>1 DEF Explained
      <4>3. CASE q = p /\ m \in plan.todo
        <5>1. IsAskedFor(m, kind)'
          BY <1>2, <1>3, <1>7, <1>9, <4>1, <4>3 DEF IsAskedFor, Unserved
        <5>. QED
          BY <5>1 DEF Explained
      <4>4. CASE q = p /\ m \in plan.asked \ ok
        <5>1. IsRefused(m)'
          BY <1>7, <1>9, <4>4 DEF IsRefused, Refused
        <5>. QED
          BY <5>1 DEF Explained
      <4>5. CASE q = p /\ m \in ok
        <5>1. details[m] \in Letters
          BY <1>1 DEF CacheOK
        <5>2. plan.change = Of(details[m], kind) /\ plan.change \in kind
          BY <1>2, <4>1, <4>5, <5>1, Values
        <5>3. Of(truth'[m], kind) = Of(details[m], kind)
          BY <1>10, <4>5, <5>2
        <5>. QED
          BY <1>3, <5>3 DEF Explained
      <4>. QED
        BY <1>2, <1>3, <4>1, <4>2, <4>3, <4>4, <4>5 DEF Unserved
    <3>5. CASE IsRefused(m)
      <4>1. PICK q \in Plans : Pending(q) /\ m \in Refused(q)
        BY <3>5 DEF IsRefused
      <4>2. CASE q # p
        BY <1>8, <1>9, <4>1, <4>2, SamePlanStays DEF IsRefused, Explained
      <4>3. CASE q = p
        <5>1. m \in Refused(p)'
          BY <1>2, <1>3, <1>7, <4>1, <4>3 DEF Refused
        <5>. QED
          BY <1>9, <5>1 DEF IsRefused, Explained
      <4>. QED
        BY <4>2, <4>3
    <3>. QED
      BY <2>2, <3>2, <3>3, <3>4, <3>5 DEF Explained
  <2>. QED
    BY <2>3, <2>4
<1>17. AloneIsAlone'
  <2>1. SUFFICES ASSUME NEW r \in Plans, Pending(r)', plans'[r].alone
                 PROVE  /\ \A q \in Plans \ {r} : ~ Pending(q)' /\ ~ Abandoned(q)'
                        /\ plans'[r].updated \union plans'[r].reply = {} =>
                             \A m \in Messages \ doubtful : plans'[r].snapshot.details[m] = truth'[m]
    BY <1>3 DEF AloneIsAlone
  <2>2. Pending(r) /\ plans[r].alone
    BY <1>2, <1>7, <1>8, <1>9, <2>1
  <2>3. \A q \in Plans \ {r} : ~ Pending(q) /\ ~ Abandoned(q)
    BY <1>1, <2>2 DEF AloneIsAlone
  <2>4. r = p
    BY <1>4, <2>3
  <2>5. ASSUME plans'[r].updated \union plans'[r].reply = {}, NEW m \in Messages \ doubtful
        PROVE  plans'[r].snapshot.details[m] = truth'[m]
    <3>1. ok = {} /\ plan.updated = {} /\ plan.reply = {}
      BY <1>1, <1>2, <1>3, <1>7, <2>4, <2>5 DEF PlansOK, PlanIsOK
    <3>2. plan.snapshot.details[m] = truth[m]
      BY <1>1, <1>2, <2>2, <2>4, <3>1 DEF AloneIsAlone
    <3>. QED
      BY <1>7, <1>10, <2>4, <3>1, <3>2 DEF Kinds
  <2>. QED
    BY <1>9, <2>3, <2>4, <2>5
<1>18. AnswerIsFresh' /\ ListIsRight'
  BY <1>9 DEF AnswerIsFresh, ListIsRight, Quiet
<1>. QED
  BY <1>11, <1>12, <1>15, <1>16, <1>17, <1>18 DEF Inv, TypesOK

\* A request that the client has given up is carried out: what its letters gain is
\* held back as an event, and no action that is alone is under way.
LEMMA ServingLate ==
    ASSUME Inv, NEW p \in Plans, ServeLate(p)
    PROVE  Inv'
<1>1. /\ TypesOK /\ CacheOK /\ PlansOK /\ WindowsOK /\ DetailsExplained /\ AloneIsAlone
      /\ AnswerIsFresh /\ ListIsRight
  BY DEF Inv, TypesOK
<1>2. PICK plan \in PlanStates, ok \in SUBSET plans[p].asked :
        /\ plan = plans[p]
        /\ disturbances' \in 0 .. MaxDisturbances
        /\ truth' = [m \in Messages |->
                IF m \in ok THEN Applied(truth[m], plans[p].change) ELSE truth[m]]
        /\ windows' = Published(Emitted(ok, plans[p].change), plans[p].change)
        /\ overtaken' = IF fetch.phase = "answered" \/ plans[p].change = shown
                        THEN overtaken \union ok ELSE overtaken
  <2>1. disturbances \in 0 .. MaxDisturbances /\ MaxDisturbances \in Nat
    BY <1>1, ActionsAssumption DEF CacheOK
  <2>2. Undisturbed \/ Disturbed => disturbances' \in 0 .. MaxDisturbances
    BY <2>1 DEF Undisturbed, Disturbed
  <2>. QED
    BY <1>1, <2>2 DEF ServeLate, CarriedOut, PlansOK
<1>3. /\ Abandoned(p) /\ plan.phase = "rolledBack" /\ plan.asked # {}
      /\ plans' = [plans EXCEPT ![p].asked = {}]
      /\ UNCHANGED <<shown, lists, fetch, details, unsure, astray, doubtful>>
  BY <1>2 DEF ServeLate, Abandoned
<1>4. /\ plan.asked \in SUBSET Messages /\ plan.change \in Changes
      /\ ~ Pending(p) /\ PlanIsOK(p)
  BY <1>1, <1>2, <1>3 DEF PlanStates, PlansOK, Pending
<1>5. /\ plans'[p] = [plan EXCEPT !.asked = {}]
      /\ \A q \in Plans \ {p} : plans'[q] = plans[q]
      /\ plans' = [q \in Plans |-> plans'[q]]
  BY <1>1, <1>2, <1>3 DEF PlansOK
<1>6. /\ plans'[p].phase = plan.phase /\ plans'[p].reply = plan.reply
      /\ plans'[p].ids = plan.ids /\ plans'[p].source = plan.source /\ plans'[p].todo = plan.todo
      /\ plans'[p].asked = {} /\ plans'[p].updated = plan.updated
      /\ plans'[p].failed = plan.failed /\ plans'[p] \in PlanStates
  BY <1>5 DEF PlanStates
<1>7. ~ Pending(p)' /\ PlanIsOK(p)'
  BY <1>2, <1>3, <1>4, <1>6 DEF PlanIsOK, Pending
<1>8. \A q \in Plans \ {p} : SamePlan(q)
  BY <1>5 DEF SamePlan
<1>9. \A q \in Plans : Pending(q)' = Pending(q)
  <2>1. Pending(p)' = Pending(p)
    BY <1>3, <1>6, <1>2 DEF Pending
  <2>. QED
    BY <1>8, <2>1, SamePlanStays
<1>10. ASSUME NEW m \in Messages
       PROVE  /\ truth'[m] \in Letters
              /\ \A kind \in Kinds :
                   Of(truth'[m], kind) = IF m \in ok /\ plan.change \in kind THEN plan.change
                                         ELSE Of(truth[m], kind)
              /\ m \notin ok => truth'[m] = truth[m]
  <2>1. truth[m] \in Letters
    BY <1>1 DEF CacheOK
  <2>2. truth'[m] = IF m \in ok THEN Applied(truth[m], plan.change) ELSE truth[m]
    BY <1>2
  <2>. QED
    BY <1>4, <2>1, <2>2, Applies
<1>11. CacheOK'
  <2>1. truth' = [m \in Messages |-> truth'[m]]
    BY <1>2
  <2>2. truth' \in [Messages -> Letters]
    BY <1>10, <2>1
  <2>3. overtaken' \subseteq Messages
    BY <1>1, <1>2, <1>4 DEF CacheOK
  <2>. QED
    BY <1>1, <1>2, <1>3, <2>2, <2>3 DEF CacheOK
<1>12. PlansOK'
  <2>1. \A q \in Plans \ {p} : PlanIsOK(q)' /\ plans'[q] \in PlanStates
    BY <1>1, <1>5, <1>8, SamePlanStays DEF PlansOK
  <2>. QED
    BY <1>5, <1>6, <1>7, <2>1 DEF PlansOK
<1>13. PICK ids \in SUBSET Messages, change \in Changes :
        /\ ids = Emitted(ok, plan.change) /\ change = plan.change
        /\ windows' = Published(ids, change)
  <2>1. Emitted(ok, plan.change) \in SUBSET Messages
    BY <1>2, <1>4 DEF Emitted
  <2>. QED
    BY <1>2, <1>4, <2>1
<1>14. /\ windows' \in Seq(Event) /\ KeysAreUnique(windows')
       /\ \A i \in DOMAIN windows : /\ i \in DOMAIN windows' /\ windows'[i].change = windows[i].change
                                    /\ windows[i].ids \subseteq windows'[i].ids
       /\ \A m \in ids : \E i \in DOMAIN windows' : windows'[i].change = change /\ m \in windows'[i].ids
  <2>1. TakesIn(Published(ids, change), ids, change)
    BY <1>1, Publishes
  <2>. QED
    BY <1>13, <2>1 DEF TakesIn
<1>15. WindowsOK'
  BY <1>14 DEF WindowsOK, KeysAreUnique, SameKey
<1>16. ASSUME NEW m \in Messages, NEW kind \in Kinds
       PROVE  /\ IsHeldBack(m, kind) => IsHeldBack(m, kind)'
              /\ Of(truth'[m], kind) = Of(truth[m], kind) \/ IsHeldBack(m, kind)'
  <2>1. IsHeldBack(m, kind) => IsHeldBack(m, kind)'
    BY <1>14 DEF IsHeldBack
  <2>2. CASE m \in ids /\ plan.change \in kind
    BY <1>13, <1>14, <2>1, <2>2 DEF IsHeldBack
  <2>3. CASE ~ (m \in ids /\ plan.change \in kind)
    <3>1. CASE m \in ok /\ plan.change \in kind
      <4>1. plan.change \notin Marks /\ truth[m].place = plan.change
        BY <1>13, <2>3, <3>1 DEF Emitted
      <4>2. kind = Views
        BY <3>1, <4>1 DEF Kinds
      <4>. QED
        BY <1>10, <2>1, <3>1, <4>1, <4>2, Values DEF Of
    <3>. QED
      BY <1>10, <2>1, <3>1
  <2>. QED
    BY <2>2, <2>3
<1>17. DetailsExplained'
  <2>1. SUFFICES ASSUME NEW m \in Messages \ doubtful, NEW kind \in Kinds
                 PROVE  Explained(m, kind)'
    BY <1>3 DEF DetailsExplained
  <2>2. Explained(m, kind)
    BY <1>1 DEF DetailsExplained
  <2>3. IsAskedFor(m, kind) => IsAskedFor(m, kind)'
    BY <1>3, <1>4, <1>8, <1>9, SamePlanStays DEF IsAskedFor, SamePlan
  <2>4. IsRefused(m) => IsRefused(m)'
    BY <1>4, <1>8, <1>9, SamePlanStays DEF IsRefused
  <2>5. Of(truth'[m], kind) = Of(truth[m], kind) \/ IsHeldBack(m, kind)'
    BY <1>16
  <2>6. IsHeldBack(m, kind) => IsHeldBack(m, kind)'
    BY <1>16
  <2>. QED
    BY <1>3, <2>2, <2>3, <2>4, <2>5, <2>6 DEF Explained
<1>18. AloneIsAlone'
  <2>1. SUFFICES ASSUME NEW r \in Plans, Pending(r)', plans'[r].alone
                 PROVE  FALSE
    BY DEF AloneIsAlone
  <2>2. r # p /\ Pending(r) /\ plans[r].alone
    BY <1>5, <1>7, <1>9, <2>1
  <2>. QED
    BY <1>1, <1>3, <2>2 DEF AloneIsAlone
<1>19. AnswerIsFresh'
  <2>1. SUFFICES ASSUME fetch.phase = "answered", Quiet, NEW m \in Messages \ overtaken'
                 PROVE  IsTrueRow(fetch.answer, m)'
    BY <1>3, <1>9 DEF AnswerIsFresh, Quiet
  <2>2. m \notin ok /\ m \notin overtaken
    BY <1>2, <2>1
  <2>3. IsTrueRow(fetch.answer, m) /\ truth'[m] = truth[m]
    BY <1>1, <1>10, <2>1, <2>2 DEF AnswerIsFresh
  <2>. QED
    BY <1>3, <2>3 DEF IsTrueRow
<1>20. ListIsRight'
  <2>1. SUFFICES ASSUME fetch.phase = "none", Quiet, ~ unsure,
                        NEW m \in Messages \ (astray \union overtaken')
                 PROVE  IsRightRow(lists[shown].rows, m)'
    BY <1>3, <1>9 DEF ListIsRight, Quiet
  <2>2. m \notin overtaken /\ (m \in ok => plan.change # shown)
    BY <1>2, <2>1
  <2>3. IsRightRow(lists[shown].rows, m)
    BY <1>1, <2>1, <2>2 DEF ListIsRight
  <2>4. /\ truth'[m].place = IF m \in ok /\ plan.change \in Views THEN plan.change ELSE truth[m].place
        /\ truth'[m].place = truth[m].place \/ IsHeldBack(m, Views)'
        /\ truth'[m].mark = truth[m].mark \/ IsHeldBack(m, Marks)'
        /\ IsHeldBack(m, Views) => IsHeldBack(m, Views)'
        /\ IsHeldBack(m, Marks) => IsHeldBack(m, Marks)'
    BY <1>10, <1>16, Values DEF Kinds, Of
  <2>5. truth'[m].place = shown => truth[m].place = shown
    BY <2>2, <2>4
  <2>. QED
    BY <1>3, <2>3, <2>4, <2>5 DEF IsRightRow
<1>. QED
  BY <1>11, <1>12, <1>15, <1>17, <1>18, <1>19, <1>20 DEF Inv, TypesOK

\* What is left of a plan that is over, and has perhaps been given up.
LeftOver(p, phase, left) == [Over(p, phase) EXCEPT !.asked = left]

LEMMA Overs ==
    ASSUME TypesOK, NEW p \in Plans, Pending(p), NEW phase \in {"done", "rolledBack"},
           NEW left \in SUBSET plans[p].ids
    PROVE  LET new == LeftOver(p, phase, left)
           IN  /\ new \in PlanStates /\ new.phase = phase /\ new.ids # {} /\ new.source # p
               /\ new.todo = {} /\ new.asked = left /\ left \subseteq new.ids
               /\ new.reply = {} /\ new.updated = {} /\ new.failed = {}
               /\ (left = {} => Over(p, phase) = new)
<1>1. /\ plans[p] \in PlanStates /\ plans[p].ids # {} /\ plans[p].source # p
  BY DEF TypesOK, PlansOK, PlanIsOK, Pending
<1>2. PICK old \in PlanStates : old = plans[p]
  BY <1>1
<1>3. PICK new : new = Over(p, phase)
  OBVIOUS
<1>4. new = [NoPlan EXCEPT !.phase = phase, !.ids = old.ids, !.from = old.from,
                           !.change = old.change, !.isUndo = old.isUndo, !.source = old.source]
  BY <1>2, <1>3 DEF Over
<1>5. /\ new \in PlanStates /\ new.phase = phase /\ new.ids = old.ids /\ new.source = old.source
      /\ new.todo = {} /\ new.asked = {} /\ new.reply = {} /\ new.updated = {} /\ new.failed = {}
  BY <1>4, NoPlanIsOne DEF PlanStates
<1>6. left \subseteq old.ids /\ old.ids \subseteq Messages
  BY <1>2 DEF PlanStates
<1>7. LeftOver(p, phase, left) = [new EXCEPT !.asked = left]
  BY <1>3 DEF LeftOver
<1>8. left = {} => new = [new EXCEPT !.asked = left]
  BY <1>5 DEF PlanStates
<1>. QED
  BY <1>1, <1>2, <1>3, <1>5, <1>6, <1>7, <1>8 DEF PlanStates

\* A plan ends, and the others are as they were.
LEMMA Ends ==
    ASSUME TypesOK, NEW p \in Plans, Pending(p), NEW phase \in {"done", "rolledBack"},
           NEW left \in SUBSET plans[p].ids, left # {} => phase = "rolledBack",
           plans' = [plans EXCEPT ![p] = LeftOver(p, phase, left)]
    PROVE  /\ PlansOK' /\ ~ Pending(p)'
           /\ \A q \in Plans \ {p} : SamePlan(q) /\ plans'[q].alone = plans[q].alone
<1>1. PICK new : /\ new = LeftOver(p, phase, left)
                 /\ new \in PlanStates /\ new.phase = phase /\ new.ids # {} /\ new.source # p
                 /\ new.todo = {} /\ new.asked = left /\ left \subseteq new.ids
                 /\ new.reply = {} /\ new.updated = {} /\ new.failed = {}
  BY Overs
<1>2. PlansOK
  BY DEF TypesOK
<1>3. /\ plans' = [q \in Plans |-> plans'[q]] /\ plans'[p] = new
      /\ \A q \in Plans \ {p} : plans'[q] = plans[q]
  BY <1>1, <1>2 DEF PlansOK
<1>4. \A q \in Plans \ {p} : SamePlan(q) /\ plans'[q].alone = plans[q].alone
  BY <1>3 DEF SamePlan
<1>5. ~ Pending(p)'
  BY <1>1, <1>3 DEF Pending
<1>6. PlanIsOK(p)'
  BY <1>1, <1>3, <1>5 DEF PlanIsOK
<1>7. \A q \in Plans \ {p} : PlanIsOK(q)' /\ plans'[q] \in PlanStates
  BY <1>2, <1>3, <1>4, SamePlanStays DEF PlansOK
<1>. QED
  BY <1>1, <1>3, <1>4, <1>5, <1>6, <1>7 DEF PlansOK

\* A plan that is taken back was alone, and nothing of it had happened; or else
\* nobody vouches for the details any more.
LEMMA RollingBack ==
    ASSUME Inv, NEW p \in Plans, Pending(p), NEW left \in SUBSET plans[p].ids,
           RollBack(p, left), disturbances' \in 0 .. MaxDisturbances,
           UNCHANGED <<truth, shown, windows, unsure, astray, overtaken>>
    PROVE  Inv'
<1>1. /\ TypesOK /\ CacheOK /\ PlansOK /\ WindowsOK /\ AloneIsAlone
  BY DEF Inv, TypesOK
<1>2. PICK snapshot \in Snapshots : snapshot = plans[p].snapshot
  BY <1>1 DEF PlansOK, PlanIsOK
<1>3. /\ lists' = [v \in Views |->
            [[w \in Views |-> [rows |-> snapshot.rows[w], invalid |-> FALSE]][v] EXCEPT !.invalid = TRUE]]
      /\ fetch' = [phase |-> "sent", answer |-> <<>>]
      /\ details' = snapshot.details
      /\ plans' = [plans EXCEPT ![p] = LeftOver(p, "rolledBack", left)]
      /\ doubtful' = IF plans[p].alone /\ plans[p].updated \union plans[p].reply = {}
                     THEN doubtful ELSE Messages
  BY <1>2 DEF RollBack, Settled, LeftOver
<1>4. /\ PlansOK' /\ ~ Pending(p)'
      /\ \A q \in Plans \ {p} : SamePlan(q) /\ plans'[q].alone = plans[q].alone
  BY <1>1, <1>3, Ends
<1>5. CacheOK'
  <2>1. /\ snapshot.details \in [Messages -> Letters]
        /\ \A v \in Views : snapshot.rows[v] \in Lists
    BY DEF Snapshots
  <2>2. PICK ls : /\ ls = [w \in Views |-> [rows |-> snapshot.rows[w], invalid |-> FALSE]]
                  /\ lists' = [v \in Views |-> [ls[v] EXCEPT !.invalid = TRUE]]
    BY <1>3
  <2>3. lists' \in [Views -> [rows : Lists, invalid : BOOLEAN]]
    <3>1. \A v \in Views : ls[v] \in [rows : Lists, invalid : BOOLEAN]
      BY <2>1, <2>2
    <3>2. \A v \in Views : [ls[v] EXCEPT !.invalid = TRUE] \in [rows : Lists, invalid : BOOLEAN]
      BY <3>1
    <3>. QED
      BY <2>2, <3>2
  <2>4. doubtful' \subseteq Messages
    BY <1>1, <1>3 DEF CacheOK
  <2>. QED
    BY <1>1, <1>3, <2>1, <2>3, <2>4, NewFetchIsOne DEF CacheOK
<1>6. WindowsOK'
  BY <1>1 DEF WindowsOK
<1>7. DetailsExplained'
  <2>1. SUFFICES ASSUME NEW m \in Messages \ doubtful'
                 PROVE  details'[m] = truth[m]
    BY DEF DetailsExplained, Explained
  <2>2. plans[p].alone /\ plans[p].updated \union plans[p].reply = {} /\ m \in Messages \ doubtful
    BY <1>3, <2>1
  <2>. QED
    BY <1>1, <1>2, <1>3, <2>2 DEF AloneIsAlone
<1>8. AloneIsAlone'
  <2>1. SUFFICES ASSUME NEW r \in Plans, Pending(r)', plans'[r].alone
                 PROVE  FALSE
    BY DEF AloneIsAlone
  <2>2. r # p /\ SamePlan(r) /\ Pending(r) /\ plans[r].alone
    BY <1>4, <2>1, SamePlanStays
  <2>3. ~ Pending(p)
    BY <1>1, <2>2 DEF AloneIsAlone
  <2>. QED
    BY <2>3
<1>9. AnswerIsFresh' /\ ListIsRight'
  BY <1>3, NewFetchIsOne DEF AnswerIsFresh, ListIsRight
<1>. QED
  BY <1>1, <1>4, <1>5, <1>6, <1>7, <1>8, <1>9 DEF Inv, TypesOK

\* A plan that has succeeded: what it has been refused nobody vouches for.
LEMMA Succeeding ==
    ASSUME Inv, NEW p \in Plans, plans[p].phase = "answered", plans[p].todo = {},
           Succeed(p, plans[p].failed \union (plans[p].asked \ plans[p].reply)),
           UNCHANGED <<truth, shown, windows, disturbances, unsure, astray, overtaken>>
    PROVE  Inv'
<1>1. /\ TypesOK /\ CacheOK /\ PlansOK /\ WindowsOK /\ DetailsExplained /\ AloneIsAlone
  BY DEF Inv, TypesOK
<1>2. /\ lists' = [v \in Views |-> [lists[v] EXCEPT !.invalid = TRUE]]
      /\ fetch' = [phase |-> "sent", answer |-> <<>>]
      /\ plans' = [plans EXCEPT ![p] = Over(p, "done")]
      /\ doubtful' = doubtful \union Refused(p)
      /\ UNCHANGED details
  BY DEF Succeed, Settled, Refused
<1>3. Pending(p) /\ Unserved(p) = {}
  BY DEF Pending, Unserved
<1>4. /\ PlansOK' /\ ~ Pending(p)'
      /\ \A q \in Plans \ {p} : SamePlan(q) /\ plans'[q].alone = plans[q].alone
  <2>1. plans' = [plans EXCEPT ![p] = LeftOver(p, "done", {})]
    <3>1. PICK left \in SUBSET plans[p].ids : left = {}
      OBVIOUS
    <3>2. Over(p, "done") = LeftOver(p, "done", left)
      BY <1>1, <1>3, <3>1, Overs
    <3>. QED
      BY <1>2, <3>1, <3>2
  <2>. QED
    BY <1>1, <1>3, <2>1, Ends
<1>5. CacheOK'
  <2>1. ASSUME NEW v \in Views PROVE [lists[v] EXCEPT !.invalid = TRUE] \in [rows : Lists, invalid : BOOLEAN]
    <3>1. lists[v] \in [rows : Lists, invalid : BOOLEAN]
      BY <1>1 DEF CacheOK
    <3>. QED
      BY <3>1
  <2>2. lists' \in [Views -> [rows : Lists, invalid : BOOLEAN]]
    BY <1>2, <2>1
  <2>3. Refused(p) \subseteq Messages
    BY <1>1 DEF Refused, PlansOK, PlanStates
  <2>. QED
    BY <1>1, <1>2, <2>2, <2>3, NewFetchIsOne DEF CacheOK
<1>6. WindowsOK'
  BY <1>1 DEF WindowsOK
<1>7. DetailsExplained'
  <2>1. SUFFICES ASSUME NEW m \in Messages \ doubtful', NEW kind \in Kinds
                 PROVE  Explained(m, kind)'
    BY DEF DetailsExplained
  <2>2. Explained(m, kind) /\ m \notin Refused(p)
    BY <1>1, <1>2 DEF DetailsExplained
  <2>3. IsHeldBack(m, kind) => IsHeldBack(m, kind)'
    BY DEF IsHeldBack
  <2>4. IsAskedFor(m, kind) => IsAskedFor(m, kind)'
    BY <1>2, <1>3, <1>4, SamePlanStays DEF IsAskedFor, SamePlan
  <2>5. IsRefused(m) => IsRefused(m)'
    BY <1>4, <2>2, SamePlanStays DEF IsRefused
  <2>. QED
    BY <1>2, <2>2, <2>3, <2>4, <2>5 DEF Explained
<1>8. AloneIsAlone'
  <2>1. SUFFICES ASSUME NEW r \in Plans, Pending(r)', plans'[r].alone
                 PROVE  FALSE
    BY DEF AloneIsAlone
  <2>2. r # p /\ SamePlan(r) /\ Pending(r) /\ plans[r].alone
    BY <1>4, <2>1, SamePlanStays
  <2>. QED
    BY <1>1, <1>3, <2>2 DEF AloneIsAlone
<1>9. AnswerIsFresh' /\ ListIsRight'
  BY <1>2, NewFetchIsOne DEF AnswerIsFresh, ListIsRight
<1>. QED
  BY <1>1, <1>4, <1>5, <1>6, <1>7, <1>8, <1>9 DEF Inv, TypesOK

\* The next request of a plan: what it has been told is remembered.
LEMMA GoingOn ==
    ASSUME Inv, NEW p \in Plans, plans[p].phase = "answered", plans[p].reply # {}, GoOn(p),
           UNCHANGED <<truth, shown, windows, disturbances, unsure, astray, overtaken>>
    PROVE  Inv'
<1>1. /\ TypesOK /\ CacheOK /\ PlansOK /\ WindowsOK /\ DetailsExplained /\ AloneIsAlone
  BY DEF Inv, TypesOK
<1>2. PICK plan \in PlanStates : plan = plans[p]
  BY <1>1 DEF PlansOK
<1>3. PICK n \in plan.todo :
        plans' = [plans EXCEPT ![p] =
            [plan EXCEPT !.phase = "sent", !.asked = {n}, !.todo = plan.todo \ {n}, !.reply = {},
                         !.updated = plan.updated \union plan.reply,
                         !.failed = plan.failed \union (plan.asked \ plan.reply)]]
  BY <1>2 DEF GoOn
<1>4. UNCHANGED <<lists, fetch, details, doubtful>>
  BY DEF GoOn
<1>5. /\ Pending(p) /\ plan.snapshot \in Snapshots /\ Divided(plan) /\ plan.reply \subseteq plan.asked
      /\ plan.ids # {} /\ plan.source # p
  BY <1>1, <1>2 DEF PlansOK, PlanIsOK, Pending
<1>6. /\ plans' = [q \in Plans |-> plans'[q]] /\ \A q \in Plans \ {p} : plans'[q] = plans[q]
      /\ plans'[p] = [plan EXCEPT !.phase = "sent", !.asked = {n}, !.todo = plan.todo \ {n}, !.reply = {},
                                  !.updated = plan.updated \union plan.reply,
                                  !.failed = plan.failed \union (plan.asked \ plan.reply)]
  BY <1>1, <1>3 DEF PlansOK
<1>7. /\ plans'[p].phase = "sent" /\ plans'[p].asked = {n} /\ plans'[p].todo = plan.todo \ {n}
      /\ plans'[p].reply = {} /\ plans'[p].updated = plan.updated \union plan.reply
      /\ plans'[p].failed = plan.failed \union (plan.asked \ plan.reply)
      /\ plans'[p].ids = plan.ids /\ plans'[p].change = plan.change /\ plans'[p].source = plan.source
      /\ plans'[p].snapshot = plan.snapshot /\ plans'[p].alone = plan.alone
  BY <1>6 DEF PlanStates
<1>8. \A q \in Plans \ {p} : SamePlan(q) /\ plans'[q].alone = plans[q].alone
  BY <1>6 DEF SamePlan
<1>9. /\ Pending(p)' /\ \A q \in Plans : Pending(q)' = Pending(q)
      /\ \A q \in Plans \ {p} : Abandoned(q)' = Abandoned(q)
  BY <1>5, <1>7, <1>8, SamePlanStays DEF Pending
<1>10. PlansOK'
  <2>1. plans'[p] \in PlanStates
    BY <1>3, <1>6 DEF PlanStates
  <2>2. Divided(plans'[p])
    BY <1>3, <1>5, <1>7 DEF Divided
  <2>3. PlanIsOK(p)'
    BY <1>3, <1>5, <1>7, <1>9, <2>2 DEF PlanIsOK, Divided
  <2>4. \A q \in Plans \ {p} : PlanIsOK(q)' /\ plans'[q] \in PlanStates
    BY <1>1, <1>6, <1>8, SamePlanStays DEF PlansOK
  <2>. QED
    BY <1>6, <2>1, <2>3, <2>4 DEF PlansOK
<1>11. CacheOK' /\ WindowsOK'
  BY <1>1, <1>4 DEF CacheOK, WindowsOK
<1>12. Unserved(p)' = Unserved(p) /\ Refused(p)' = Refused(p)
  BY <1>2, <1>3, <1>7 DEF Unserved, Refused
<1>13. DetailsExplained'
  <2>1. SUFFICES ASSUME NEW m \in Messages \ doubtful, NEW kind \in Kinds
                 PROVE  Explained(m, kind)'
    BY <1>4 DEF DetailsExplained
  <2>2. Explained(m, kind)
    BY <1>1 DEF DetailsExplained
  <2>3. IsHeldBack(m, kind) => IsHeldBack(m, kind)'
    BY DEF IsHeldBack
  <2>4. IsAskedFor(m, kind) => IsAskedFor(m, kind)'
    BY <1>2, <1>4, <1>7, <1>8, <1>9, <1>12, SamePlanStays DEF IsAskedFor, SamePlan
  <2>5. IsRefused(m) => IsRefused(m)'
    BY <1>8, <1>9, <1>12, SamePlanStays DEF IsRefused
  <2>. QED
    BY <1>4, <2>2, <2>3, <2>4, <2>5 DEF Explained
<1>14. AloneIsAlone'
  <2>1. SUFFICES ASSUME NEW r \in Plans, Pending(r)', plans'[r].alone
                 PROVE  /\ \A q \in Plans \ {r} : ~ Pending(q)' /\ ~ Abandoned(q)'
                        /\ plans'[r].updated \union plans'[r].reply # {}
    BY DEF AloneIsAlone
  <2>2. Pending(r) /\ plans[r].alone
    BY <1>2, <1>7, <1>8, <1>9, <2>1
  <2>3. \A q \in Plans \ {r} : ~ Pending(q) /\ ~ Abandoned(q)
    BY <1>1, <2>2 DEF AloneIsAlone
  <2>4. r = p
    BY <1>5, <2>3
  <2>. QED
    BY <1>2, <1>7, <1>9, <2>3, <2>4
<1>15. AnswerIsFresh' /\ ListIsRight'
  BY <1>9 DEF AnswerIsFresh, ListIsRight, Quiet
<1>. QED
  BY <1>10, <1>11, <1>13, <1>14, <1>15 DEF Inv, TypesOK

LEMMA Hearing ==
    ASSUME Inv, NEW p \in Plans, Hear(p)
    PROVE  Inv'
<1>1. /\ plans[p].phase = "answered" /\ UNCHANGED <<truth, shown, windows, disturbances, unsure, astray, overtaken>>
  BY DEF Hear
<1>2. Pending(p) /\ disturbances' \in 0 .. MaxDisturbances
  BY <1>1 DEF Pending, Inv, TypesOK, CacheOK
<1>. QED
  BY <1>1, <1>2, RollingBack, GoingOn, Succeeding DEF Hear

LEMMA Losing ==
    ASSUME Inv, NEW p \in Plans, Lose(p)
    PROVE  Inv'
<1>1. disturbances' \in 0 .. MaxDisturbances
  BY ActionsAssumption DEF Lose, Disturbed, Inv, TypesOK, CacheOK
<1>2. PICK left \in {{}, plans[p].asked} : RollBack(p, left)
  BY DEF Lose
<1>3. Pending(p) /\ left \subseteq plans[p].ids
  BY DEF Lose, Inv, TypesOK, PlansOK, PlanIsOK, Divided
<1>. QED
  BY <1>1, <1>2, <1>3, RollingBack DEF Lose

\* An event that is read: each letter of it has the value now, or the event was late.
LEMMA Reading ==
    ASSUME Inv, ReadEvent
    PROVE  Inv'
<1>1. /\ TypesOK /\ CacheOK /\ PlansOK /\ WindowsOK /\ DetailsExplained /\ AloneIsAlone
      /\ AnswerIsFresh /\ ListIsRight
  BY DEF Inv, TypesOK
<1>2. windows \in Seq(Event) /\ windows # <<>> /\ KeysAreUnique(windows)
  BY <1>1 DEF ReadEvent, WindowsOK
<1>3. PICK event \in Event : event = Head(windows)
  BY <1>2
<1>4. PICK ids \in SUBSET Messages, change \in Changes : ids = event.ids /\ change = event.change
  BY DEF Event
<1>5. PICK late : late = {m \in ids : Applied(truth[m], change) # truth[m]}
  OBVIOUS
<1>6. /\ lists' = ListsPatched(ids, change) /\ details' = DetailsPatched(ids, change)
      /\ astray' = astray \union late /\ doubtful' = doubtful \union late
      /\ windows' = Tail(windows)
      /\ UNCHANGED <<truth, shown, fetch, plans, disturbances, unsure, overtaken>>
  BY <1>3, <1>4, <1>5 DEF ReadEvent
<1>7. /\ DOMAIN windows' = 1 .. Len(windows) - 1 /\ windows' \in Seq(Event) /\ Len(windows) \in Nat
      /\ DOMAIN windows = 1 .. Len(windows)
      /\ \A i \in DOMAIN windows' : windows'[i] = windows[i + 1]
  BY <1>2, <1>6
<1>8. ASSUME NEW m \in Messages \ late, m \in ids
      PROVE  /\ Applied(truth[m], change) = truth[m] /\ truth[m] \in Letters
             /\ \A kind \in Kinds : change \in kind => Of(truth[m], kind) = change
  <2>1. truth[m] \in Letters /\ Applied(truth[m], change) = truth[m]
    BY <1>1, <1>5, <1>8 DEF CacheOK
  <2>. QED
    BY <2>1, Applies
<1>16. ASSUME NEW m \in Messages, NEW kind \in Kinds, ~ (m \in ids /\ change \in kind)
       PROVE  IsHeldBack(m, kind) => IsHeldBack(m, kind)'
  <2>1. SUFFICES ASSUME NEW i \in DOMAIN windows, windows[i].change \in kind, m \in windows[i].ids
                 PROVE  IsHeldBack(m, kind)'
    BY DEF IsHeldBack
  <2>2. i # 1
    BY <1>2, <1>3, <1>4, <1>16, <2>1
  <2>3. i - 1 \in DOMAIN windows' /\ windows'[i - 1] = windows[i]
    BY <1>7, <2>2
  <2>. QED
    BY <2>1, <2>3 DEF IsHeldBack
<1>9. CacheOK'
  <2>1. /\ lists' \in [Views -> [rows : Lists, invalid : BOOLEAN]]
        /\ details' \in [Messages -> Letters]
    BY <1>1, <1>6, PatchesAll
  <2>2. late \subseteq Messages
    BY <1>5
  <2>. QED
    BY <1>1, <1>6, <2>1, <2>2 DEF CacheOK
<1>10. PlansOK'
  BY <1>1, <1>6 DEF PlansOK, PlanIsOK, Pending
<1>11. WindowsOK'
  <2>1. ASSUME NEW i \in DOMAIN windows', NEW j \in DOMAIN windows',
               SameKey(windows'[i], windows'[j].ids, windows'[j].change)
        PROVE  i = j
    <3>1. i + 1 \in DOMAIN windows /\ j + 1 \in DOMAIN windows
      BY <1>7
    <3>2. i + 1 = j + 1
      BY <1>2, <1>7, <2>1, <3>1 DEF KeysAreUnique
    <3>. QED
      BY <1>7, <3>2
  <2>. QED
    BY <1>7, <2>1 DEF WindowsOK, KeysAreUnique, SameKey
<1>12. DetailsExplained'
  <2>1. SUFFICES ASSUME NEW m \in Messages \ (doubtful \union late), NEW kind \in Kinds
                 PROVE  Explained(m, kind)'
    BY <1>6 DEF DetailsExplained
  <2>2. Explained(m, kind)
    BY <1>1 DEF DetailsExplained
  <2>3. Of(details'[m], kind) = IF m \in ids /\ change \in kind THEN change ELSE Of(details[m], kind)
    <3>1. Of(DetailsPatched(ids, change)[m], kind)
            = IF m \in ids /\ change \in kind THEN change ELSE Of(details[m], kind)
      BY <1>1, PatchesDetail
    <3>. QED
      BY <1>6, <3>1
  <2>4. CASE m \in ids /\ change \in kind
    BY <1>6, <1>8, <2>3, <2>4 DEF Explained
  <2>5. CASE ~ (m \in ids /\ change \in kind)
    <3>1. IsHeldBack(m, kind) => IsHeldBack(m, kind)'
      BY <1>16, <2>5
    <3>2. IsAskedFor(m, kind) => IsAskedFor(m, kind)'
      BY <1>6, <2>3, <2>5 DEF IsAskedFor, Pending, Unserved
    <3>3. IsRefused(m) => IsRefused(m)'
      BY <1>6 DEF IsRefused, Pending, Refused
    <3>. QED
      BY <1>6, <2>2, <2>3, <2>5, <3>1, <3>2, <3>3 DEF Explained
  <2>. QED
    BY <2>4, <2>5
<1>13. AloneIsAlone'
  BY <1>1, <1>6 DEF AloneIsAlone, Pending, Abandoned
<1>14. AnswerIsFresh'
  BY <1>1, <1>6 DEF AnswerIsFresh, Quiet, Pending, IsTrueRow
<1>15. ListIsRight'
  <2>1. SUFFICES ASSUME fetch.phase = "none", Quiet, ~ unsure,
                        NEW m \in Messages \ (astray \union late \union overtaken)
                 PROVE  IsRightRow(lists[shown].rows, m)'
    BY <1>6 DEF ListIsRight, Quiet, Pending
  <2>2. PICK rows, new : rows = lists[shown].rows /\ new = lists'[shown].rows
    OBVIOUS
  <2>3. shown \in Views /\ rows \in Lists /\ new = Patched(shown, rows, ids, change)
    BY <1>1, <1>6, <2>2 DEF CacheOK, ListsPatched
  <2>4. IsRightRow(rows, m)
    BY <1>1, <2>1, <2>2 DEF ListIsRight
  <2>5. /\ change \in Marks => /\ DOMAIN new = DOMAIN rows
                               /\ \A n \in DOMAIN rows : new[n] = IF n \in ids THEN change ELSE rows[n]
        /\ change = shown => new = rows
        /\ change \in Views \ {shown} => /\ DOMAIN new = DOMAIN rows \ ids
                                         /\ \A n \in DOMAIN new : new[n] = rows[n]
    <3>1. PICK v \in Views : v = shown
      BY <2>3
    <3>2. IsPatch(Patched(v, rows, ids, change), v, rows, ids, change)
      BY <2>3, Patches
    <3>. QED
      BY <2>3, <3>1, <3>2 DEF IsPatch
  <2>6. /\ change \in Marks /\ m \in ids => truth[m].mark = change
        /\ change \in Views /\ m \in ids => truth[m].place = change
    BY <1>8, Values DEF Kinds, Of
  <2>7. /\ IsHeldBack(m, Views) => IsHeldBack(m, Views)' \/ (m \in ids /\ change \in Views)
        /\ IsHeldBack(m, Marks) => IsHeldBack(m, Marks)' \/ (m \in ids /\ change \in Marks)
    BY <1>16 DEF Kinds
  <2>8. truth[m].place = shown => m \in DOMAIN new
    BY <2>3, <2>4, <2>5, <2>6, Values DEF IsRightRow
  <2>9. ASSUME m \in DOMAIN new
        PROVE  truth[m].place = shown \/ IsHeldBack(m, Views)'
    <3>1. m \in DOMAIN rows /\ (truth[m].place = shown \/ IsHeldBack(m, Views))
      BY <2>3, <2>4, <2>5, <2>9, Values DEF IsRightRow
    <3>2. CASE m \in ids /\ change \in Views
      BY <2>5, <2>6, <2>9, <3>2
    <3>. QED
      BY <2>7, <3>1, <3>2
  <2>10. ASSUME m \in DOMAIN new
         PROVE  new[m] = truth[m].mark \/ IsHeldBack(m, Marks)'
    <3>1. m \in DOMAIN rows /\ (rows[m] = truth[m].mark \/ IsHeldBack(m, Marks))
      BY <2>3, <2>4, <2>5, <2>10, Values DEF IsRightRow
    <3>2. CASE m \in ids /\ change \in Marks
      BY <2>5, <2>6, <3>1, <3>2
    <3>3. CASE ~ (m \in ids /\ change \in Marks)
      <4>1. new[m] = rows[m]
        BY <2>3, <2>5, <2>10, <3>1, <3>3, Values
      <4>. QED
        BY <2>7, <3>1, <3>3, <4>1
    <3>. QED
      BY <3>2, <3>3
  <2>. QED
    BY <1>6, <2>2, <2>8, <2>9, <2>10 DEF IsRightRow
<1>. QED
  BY <1>9, <1>10, <1>11, <1>12, <1>13, <1>14, <1>15 DEF Inv, TypesOK

-----------------------------------------------------------------------------
(* The invariant holds of every state                                      *)

LEMMA InitInv == Init => Inv
<1>. SUFFICES ASSUME Init PROVE Inv
  OBVIOUS
<1>1. /\ truth = [m \in Messages |-> [mark |-> "unread", place |-> "inbox"]]
      /\ shown = "inbox" /\ lists = [v \in Views |-> [rows |-> RowsOf(v), invalid |-> FALSE]]
      /\ fetch = NoFetch /\ details = truth /\ plans = [p \in Plans |-> NoPlan]
      /\ windows = <<>> /\ disturbances = 0 /\ unsure = FALSE
      /\ astray = {} /\ overtaken = {} /\ doubtful = {}
  BY DEF Init
<1>2. truth \in [Messages -> Letters]
  BY <1>1 DEF Letters, Marks, Views
<1>3. CacheOK
  <2>1. \A v \in Views : [rows |-> RowsOf(v), invalid |-> FALSE] \in [rows : Lists, invalid : BOOLEAN]
    BY <1>2, RowsAreAList
  <2>2. lists \in [Views -> [rows : Lists, invalid : BOOLEAN]] /\ shown \in Views
    BY <1>1, <2>1 DEF Views
  <2>3. fetch \in [phase : {"none", "sent", "answered"}, answer : Lists]
    BY <1>1, NoFetchIsOne
  <2>4. disturbances \in 0 .. MaxDisturbances
    BY <1>1, ActionsAssumption
  <2>. QED
    BY <1>1, <1>2, <2>2, <2>3, <2>4 DEF CacheOK
<1>4. Quiet /\ \A p \in Plans : plans[p] = NoPlan
  BY <1>1, NoPlanIsOne DEF Quiet, Pending
<1>5. PlansOK
  <2>1. \A p \in Plans : None # p
    BY ActionsAssumption DEF None
  <2>. QED
    BY <1>1, <1>4, <2>1, NoPlanIsOne DEF PlansOK, PlanIsOK, Quiet
<1>6. WindowsOK
  BY <1>1 DEF WindowsOK, KeysAreUnique
<1>7. DetailsExplained /\ AloneIsAlone
  BY <1>1, <1>4 DEF DetailsExplained, Explained, AloneIsAlone, Quiet
<1>8. AnswerIsFresh /\ ListIsRight
  <2>1. lists[shown].rows = RowsOf(shown)
    BY <1>1, <1>3 DEF CacheOK
  <2>2. \A m \in Messages : IsTrueRow(lists[shown].rows, m)
    BY <1>2, <2>1, RowsAreAList DEF IsTrueRow
  <2>. QED
    BY <1>1, <2>2, NoFetchIsOne DEF AnswerIsFresh, ListIsRight, IsTrueRow, IsRightRow
<1>. QED
  BY <1>3, <1>5, <1>6, <1>7, <1>8 DEF Inv, TypesOK

LEMMA NextInv == Inv /\ [Next]_vars => Inv'
<1>1. ASSUME Inv, Next PROVE Inv'
  BY <1>1, Toggling, Moving, Undoing, Retrying, Serving, ServingLate, Hearing, Losing, Showing,
     AnsweringFetch, Arriving, FailingToFetch, Reading DEF Next
<1>2. ASSUME Inv, UNCHANGED vars PROVE Inv'
  <2>1. PlansOK' /\ WindowsOK' /\ DetailsExplained' /\ AloneIsAlone'
    BY <1>2, ListsOnly DEF vars
  <2>2. CacheOK' /\ AnswerIsFresh' /\ ListIsRight'
    BY <1>2 DEF Inv, TypesOK, CacheOK, AnswerIsFresh, ListIsRight, Quiet, Pending,
                IsTrueRow, IsRightRow, IsHeldBack, vars
  <2>. QED
    BY <2>1, <2>2 DEF Inv, TypesOK
<1>. QED
  BY <1>1, <1>2

LEMMA InvAlways == Spec => []Inv
BY InitInv, NextInv, PTL DEF Spec

LEMMA Apart ==
    ASSUME NEW S, NEW T, IsFiniteSet(S), IsFiniteSet(T), S \intersect T = {}
    PROVE  /\ IsFiniteSet(S \union T)
           /\ Cardinality(S \union T) = Cardinality(S) + Cardinality(T)
<1>1. /\ IsFiniteSet(S \union T)
      /\ Cardinality(S \union T) = Cardinality(S) + Cardinality(T) - Cardinality(S \intersect T)
  BY FS_Union
<1>2. Cardinality(S \intersect T) = 0 /\ Cardinality(S) \in Nat /\ Cardinality(T) \in Nat
  BY FS_EmptySet, FS_CardinalityType
<1>. QED
  BY <1>1, <1>2

\* The parts of a plan under way are as many letters as it has.
LEMMA Counts ==
    ASSUME TypesOK, NEW p \in Plans
    PROVE  Cardinality(plans[p].todo) + Cardinality(plans[p].asked)
            + Cardinality(plans[p].updated) + Cardinality(plans[p].failed)
              = IF Pending(p) THEN Cardinality(plans[p].ids)
                ELSE Cardinality(plans[p].asked)
<1>1. PICK plan \in PlanStates : plan = plans[p]
  BY DEF TypesOK, PlansOK
<1>2. CASE ~ Pending(p)
  <2>1. plan.todo = {} /\ plan.updated = {} /\ plan.failed = {}
    BY <1>1, <1>2 DEF TypesOK, PlansOK, PlanIsOK
  <2>2. Cardinality(plan.asked) \in Nat
    BY ActionsAssumption, FS_Subset, FS_CardinalityType DEF PlanStates
  <2>. QED
    BY <1>1, <1>2, <2>1, <2>2, FS_EmptySet
<1>3. CASE Pending(p)
  <2>. DEFINE ahead == plan.todo \union plan.asked
              behind == plan.updated \union plan.failed
  <2>1. /\ plan.ids = ahead \union behind
        /\ plan.todo \intersect plan.asked = {} /\ plan.updated \intersect plan.failed = {}
        /\ ahead \intersect behind = {}
    BY <1>1, <1>3 DEF TypesOK, PlansOK, PlanIsOK, Divided
  <2>2. /\ IsFiniteSet(plan.todo) /\ IsFiniteSet(plan.asked)
        /\ IsFiniteSet(plan.updated) /\ IsFiniteSet(plan.failed)
    BY ActionsAssumption, FS_Subset DEF PlanStates
  <2>3. /\ IsFiniteSet(ahead) /\ IsFiniteSet(behind)
        /\ Cardinality(ahead) = Cardinality(plan.todo) + Cardinality(plan.asked)
        /\ Cardinality(behind) = Cardinality(plan.updated) + Cardinality(plan.failed)
    BY <2>1, <2>2, Apart
  <2>4. Cardinality(plan.ids) = Cardinality(ahead) + Cardinality(behind)
    BY <2>1, <2>3, Apart
  <2>. QED
    BY <1>1, <1>3, <2>2, <2>3, <2>4, FS_CardinalityType
<1>. QED
  BY <1>2, <1>3

\* The state is well formed at every step, whatever the letters, the number of
\* actions set off and of requests refused or lost: no letter of a plan under
\* way is in two of its parts or in none (runPlan), and the hub holds back one
\* event of a key (publishCoalesced).
THEOREM ActionTypes == Spec => []TypeOK
<1>1. Inv => TypeOK
  <2>. SUFFICES ASSUME Inv PROVE TypeOK
    OBVIOUS
  <2>1. TypesOK /\ CacheOK /\ PlansOK /\ WindowsOK
    BY DEF Inv, TypesOK
  <2>2. ASSUME NEW p \in Plans
        PROVE  /\ plans[p].phase \in {"none", "sent", "answered", "done", "rolledBack"}
               /\ plans[p].change \in Changes /\ plans[p].from \in Views
               /\ plans[p].source \in (Plans \union {None}) \ {p}
               /\ Pending(p) => plans[p].asked # {} /\ plans[p].reply \subseteq plans[p].asked
               /\ Abandoned(p) => plans[p].asked \subseteq plans[p].ids
    <3>1. plans[p] \in PlanStates /\ PlanIsOK(p)
      BY <2>1 DEF PlansOK
    <3>. QED
      BY <3>1 DEF PlanStates, PlanIsOK, Abandoned, Pending
  <2>3. ASSUME NEW i \in DOMAIN windows
        PROVE  /\ windows[i].change \in Changes
               /\ windows[i].ids \in (SUBSET Messages) \ {{}}
               /\ \A j \in DOMAIN windows : SameKey(windows[i], windows[j].ids, windows[j].change) => i = j
    <3>1. windows[i] \in Event
      BY <2>1 DEF WindowsOK
    <3>. QED
      BY <2>1, <3>1 DEF WindowsOK, KeysAreUnique, Event
  <2>4. /\ truth \in [Messages -> Letters] /\ details \in [Messages -> Letters] /\ shown \in Views
        /\ lists \in [Views -> [rows : Lists, invalid : BOOLEAN]]
        /\ fetch.phase \in {"none", "sent", "answered"} /\ fetch.answer \in Lists
        /\ disturbances \in 0 .. MaxDisturbances
        /\ unsure \in BOOLEAN /\ {astray, overtaken, doubtful} \subseteq SUBSET Messages
    BY <2>1 DEF CacheOK
  <2>. QED
    BY <2>1, <2>2, <2>3, <2>4, Counts DEF TypeOK
<1>. QED
  BY <1>1, InvAlways, PTL

\* Once everything has come back, the page shows what the server has, whatever
\* actions, refusals, rollbacks, fetches and events have interleaved and however
\* many there were.  Excepted are: a list that no fetch has brought; in the list,
\* the letters whose event was late or that a request changed which the client had
\* given up, since the fetch was answered; in the details, for good, the letters
\* whose event was late or that were refused while others of their request were
\* not, and all letters once a rollback had another action beside it or came after
\* a part of its own had happened (useMessageActions, useMailEvents).
THEOREM ScreenStaysTrue == Spec => []ScreenIsTrue
<1>1. Inv => ScreenIsTrue
  <2>. SUFFICES ASSUME Inv PROVE ScreenIsTrue
    OBVIOUS
  <2>1. ListIsTrue
    <3>1. AtRest => fetch.phase = "none" /\ Quiet /\ windows = <<>>
      BY DEF AtRest, Quiet
    <3>. QED
      BY <3>1 DEF Inv, ListIsRight, IsRightRow, IsHeldBack, ListIsTrue
  <2>2. DetailsAreTrue
    <3>1. SUFFICES ASSUME AtRest, NEW m \in Messages \ doubtful
                   PROVE  details[m] = truth[m]
      BY DEF DetailsAreTrue
    <3>2. \A kind \in Kinds : Of(details[m], kind) = Of(truth[m], kind)
      BY <3>1 DEF Inv, DetailsExplained, Explained, IsHeldBack, IsAskedFor, IsRefused, AtRest
    <3>3. details[m] \in Letters /\ truth[m] \in Letters
      BY DEF Inv, TypesOK, CacheOK
    <3>. QED
      BY <3>2, <3>3, Values
  <2>. QED
    BY <2>1, <2>2 DEF ScreenIsTrue
<1>. QED
  BY <1>1, InvAlways, PTL

\* At every moment, and not only at rest, a difference between the cached details
\* of a letter outside 'doubtful' and the server's has a reason: an event that is
\* held back, a plan that has still to tell the server this very value, or a
\* refusal (useMessageActions, publishCoalesced).  A late event puts its letters
\* into 'doubtful', a rollback that overlapped with another action, or with a part
\* of its own that had happened, puts all of them there, and none ever leaves it.
THEOREM DifferencesHaveAReason == Spec => []DetailsExplained
<1>1. Inv => DetailsExplained
  BY DEF Inv
<1>. QED
  BY <1>1, InvAlways, PTL

\* An action that began with nothing under way and no request given up that the
\* server might still carry out, and that has had no other action beside it, has
\* in its snapshot the server's letters until the first of its own has changed: as
\* long as nothing of it has happened, onError takes the cached details of letters
\* outside 'doubtful' back to what is true.  It says nothing of the lists, which are
\* fetched again.
THEOREM LoneActionsRollBackExactly == Spec => []AloneIsAlone
<1>1. Inv => AloneIsAlone
  BY DEF Inv
<1>. QED
  BY <1>1, InvAlways, PTL
=============================================================================
