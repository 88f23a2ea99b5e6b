----------------------------- MODULE MailboxSync -----------------------------
(***************************************************************************)
(* MailboxSync: the local mirror of one account's folders.                 *)
(*                                                                         *)
(* The mail server (box) belongs to everybody: letters arrive, other       *)
(* clients flag, expunge and rebuild folders.  Two kinds of work keep the  *)
(* rows in SQLite like it: the sync round, folder after folder (SyncPool   *)
(* has shown that an account has one round at a time), and the requests of *)
(* the user, which change the server first and the row afterwards.  What   *)
(* either has read from the database before an exchange with the server it *)
(* still uses after it.  A step is what runs between two exchanges; the    *)
(* server's answer is a step of its own, for it is old when it arrives.    *)
(***************************************************************************)
EXTENDS Integers, Sequences, FiniteSets, SequencesExt

CONSTANTS
    Folders,
    Trash,          \* the folder of special use "trash"
    Sent,           \* the folder of special use "sent"
    Letters,        \* what a letter says: its text, envelope and attachments
    MessageId,      \* MessageId[l]: its Message-ID header, or NoId
    NoId,
    Flags,          \* the IMAP flags besides \Deleted
    Requests,       \* requests of the user that may be under way at once
    UidPlus,        \* whether the server tells the UIDs it assigns: a subset of BOOLEAN
    ReconcileMax,   \* reconcileMaxMessages
    BatchSize,
    MaxUid,         \* bound on the UIDs of a folder
    MaxValidity,    \* bound on its UIDVALIDITY
    Initial,        \* Initial[f]: the letters in f when the behaviour begins
    Synced,         \* the folders that have been synchronised by then
    MaxEvents       \* bound on what disturbs the rounds: requests, failures, crashes,
                    \* and what happens to the folders elsewhere

ASSUME MailboxAssumption ==
    /\ IsFiniteSet(Folders) /\ Trash \in Folders /\ Sent \in Folders /\ Synced \subseteq Folders
    /\ DOMAIN MessageId = Letters /\ "seen" \in Flags
    /\ UidPlus \subseteq BOOLEAN /\ UidPlus # {}
    /\ ReconcileMax \in Nat /\ BatchSize \in Nat \ {0}
    /\ MaxUid \in Nat /\ MaxValidity \in Nat \ {0} /\ MaxEvents \in Nat
    /\ Initial \in [Folders -> Seq(Letters)]
    /\ \A f \in Folders : Len(Initial[f]) <= MaxUid

VARIABLES
    box,            \* box[f]: the letters of f on the server, by UID
    uidNext,        \* the next UID of a folder
    validity,       \* its UIDVALIDITY
    rows,           \* the table messages; a row is never deleted
    cursor,         \* folders.uidValidity, 0 for NULL
    unread,         \* folders.unreadCount
    sync,           \* the folder that is being synchronised
    req,            \* the requests of the user
    events,         \* what has disturbed the rounds so far, counted
    quiet,          \* folders nobody else has touched since their last round began
    crossed,        \* rows that carry a UID given under another UIDVALIDITY
    lagging         \* folders whose count a broken round or a misled request left behind

vars == <<box, uidNext, validity, rows, cursor, unread, sync, req, events, quiet, crossed, lagging>>
server == <<box, uidNext, validity>>

Null == 0
Uids == 1 .. MaxUid

\* A row: (folder_id, uid), its content, its flags, and is_deleted.
Row == [folder : Folders, uid : Uids \cup {Null}, letter : Letters,
        flags : SUBSET Flags, gone : BOOLEAN]

RowsOf(table, f) == {i \in DOMAIN table : table[i].folder = f}
LiveRows(table, f) == {i \in RowsOf(table, f) : ~table[i].gone}
UidsOf(table, f) == {table[i].uid : i \in RowsOf(table, f)} \ {Null}

\* refreshFolderCounts: the unread rows of a folder that are shown.
CountUnread(table, f) == Cardinality({i \in LiveRows(table, f) : "seen" \notin table[i].flags})

Recount(table, fs) == [f \in Folders |-> IF f \in fs THEN CountUnread(table, f) ELSE unread[f]]

NoSync == [stage |-> "idle", folder |-> Sent, exists |-> 0, uidNext |-> 1, validity |-> 0,
           full |-> FALSE, local |-> {}, scanned |-> <<>>, todo |-> {}]

NoRequest == [kind |-> "none", stage |-> "idle", row |-> 0, from |-> Sent, to |-> Sent,
              uid |-> Null, flags |-> {}, flag |-> "seen", on |-> TRUE,
              letter |-> CHOOSE l \in Letters : TRUE, given |-> Null, known |-> 0,
              under |-> 0, astray |-> FALSE]

\* The rows of a folder whose first letters have been synchronised.
Mirrored(f) ==
    {[folder |-> f, uid |-> u, letter |-> Initial[f][u], flags |-> {}, gone |-> FALSE] :
        u \in DOMAIN Initial[f]}

\* The folders hold their first letters, which some of the rows mirror already.
Init ==
    /\ box = [f \in Folders |-> [u \in DOMAIN Initial[f] |-> [letter |-> Initial[f][u], flags |-> {}]]]
    /\ uidNext = [f \in Folders |-> Len(Initial[f]) + 1]
    /\ validity = [f \in Folders |-> 1]
    /\ cursor = [f \in Folders |-> IF f \in Synced THEN 1 ELSE 0]
    /\ rows = SetToSeq(UNION {Mirrored(f) : f \in Synced})
    /\ unread = [f \in Folders |-> CountUnread(rows, f)]
    /\ sync = NoSync
    /\ req = [r \in Requests |-> NoRequest]
    /\ events = 0
    /\ quiet = {}
    /\ crossed = {}
    /\ lagging = {}

InRound(f) == sync.stage # "idle" /\ sync.folder = f

(***************************************************************************)
(* The server and its other clients                                        *)
(***************************************************************************)
With(mailbox, u, m) == [v \in DOMAIN mailbox \cup {u} |-> IF v = u THEN m ELSE mailbox[v]]
Without(mailbox, u) == [v \in DOMAIN mailbox \ {u} |-> mailbox[v]]
Only(mailbox, us) == [u \in DOMAIN mailbox \cap us |-> mailbox[u]]

Arrives(f, l) ==
    /\ uidNext[f] <= MaxUid
    /\ box' = [box EXCEPT ![f] = With(@, uidNext[f], [letter |-> l, flags |-> {}])]
    /\ uidNext' = [uidNext EXCEPT ![f] = @ + 1]
    /\ quiet' = quiet \ {f}
    /\ UNCHANGED <<validity, rows, cursor, unread, sync, req, crossed, lagging>>

IsFlaggedElsewhere(f) ==
    /\ \E u \in DOMAIN box[f], flag \in Flags :
         box' = [box EXCEPT ![f][u].flags = (@ \ {flag}) \cup ({flag} \ @)]
    /\ quiet' = quiet \ {f}
    /\ UNCHANGED <<uidNext, validity, rows, cursor, unread, sync, req, crossed, lagging>>

IsExpungedElsewhere(f) ==
    /\ \E u \in DOMAIN box[f] : box' = [box EXCEPT ![f] = Without(@, u)]
    /\ quiet' = quiet \ {f}
    /\ UNCHANGED <<uidNext, validity, rows, cursor, unread, sync, req, crossed, lagging>>

\* The server rebuilds a folder: its letters keep their order and get new UIDs.
\* It does not do so to a session that has the folder open.  Rows written
\* before the folder's first round keep UIDs of the old numbering, for the
\* code has no cursor yet to tell.
IsRebuilt(f) ==
    LET place(u) == Cardinality({v \in DOMAIN box[f] : v <= u})
        us == DOMAIN box[f]
    IN
    /\ validity[f] < MaxValidity
    /\ ~InRound(f)
    /\ validity' = [validity EXCEPT ![f] = @ + 1]
    /\ box' = [box EXCEPT ![f] = [n \in 1 .. Cardinality(us) |->
                                     @[CHOOSE u \in us : place(u) = n]]]
    /\ uidNext' = [uidNext EXCEPT ![f] = Cardinality(us) + 1]
    /\ quiet' = quiet \ {f}
    /\ crossed' = crossed \cup
                   (IF cursor[f] = 0 THEN {i \in RowsOf(rows, f) : rows[i].uid # Null} ELSE {})
    /\ UNCHANGED <<rows, cursor, unread, sync, req, lagging>>

(***************************************************************************)
(* syncFolder: SELECT, scan, fetch batch after batch, flags, cursor        *)
(***************************************************************************)

\* mailboxOpen: the server's answer is a snapshot.
Select(f) ==
    /\ sync.stage = "idle"
    /\ sync' = [NoSync EXCEPT !.stage = "opened", !.folder = f,
                   !.exists = Cardinality(DOMAIN box[f]),
                   !.uidNext = uidNext[f], !.validity = validity[f]]
    /\ quiet' = quiet \cup {f}
    /\ UNCHANGED <<server, rows, cursor, unread, req, crossed, lagging>>

\* detachFolderUids
Detached(table, f) ==
    [i \in DOMAIN table |-> IF table[i].folder = f THEN [table[i] EXCEPT !.uid = Null] ELSE table[i]]

HasUidGap(next, exists) == next - 1 # exists

\* reconcileReason, as a test: the inputs are what the server said when the
\* folder was opened and what the database says now.
MustReconcile(f, changed, liveCount) ==
    \/ changed
    \/ cursor[f] = 0
    \/ sync.exists # liveCount
    \/ HasUidGap(sync.uidNext, sync.exists)
    \/ sync.exists <= ReconcileMax

\* What follows the SELECT without another wait: the check of UIDVALIDITY,
\* readLocalState, and the decision how much to scan.
Open ==
    LET f == sync.folder
        changed == cursor[f] # 0 /\ cursor[f] # sync.validity
        table == IF changed THEN Detached(rows, f) ELSE rows
        liveCount == Cardinality({i \in LiveRows(table, f) : table[i].uid # Null})
    IN
    /\ sync.stage = "opened"
    /\ rows' = table
    /\ sync' = [NoSync EXCEPT !.stage = "scan", !.folder = f,
                   !.exists = IF sync.exists = 0 THEN 0 ELSE 1, !.validity = sync.validity,
                   !.full = MustReconcile(f, changed, liveCount),
                   !.local = UidsOf(table, f)]
    /\ UNCHANGED <<server, cursor, unread, req, quiet, crossed, lagging>>

Highest(us) == IF us = {} THEN 0 ELSE CHOOSE u \in us : \A v \in us : v <= u

\* scanAllUids or scanNewUids.  Both return without asking when the folder
\* was empty at the SELECT.
Scanned(f) ==
    IF sync.exists = 0 THEN <<>>
    ELSE IF sync.full THEN box[f]
    ELSE Only(box[f], {u \in Uids : u > Highest(sync.local)})

\* The scan's answer, and the UIDs it leaves to fetch.
Scan ==
    LET found == Scanned(sync.folder)
    IN
    /\ sync.stage = "scan"
    /\ sync' = [sync EXCEPT !.exists = 0,
                   !.stage = IF DOMAIN found \subseteq sync.local THEN "conclude" ELSE "fetch",
                   !.scanned = [u \in DOMAIN found |-> found[u].flags],
                   !.todo = DOMAIN found \ sync.local]
    /\ UNCHANGED <<server, rows, cursor, unread, req, quiet, crossed, lagging>>

\* The next batch: the lowest UIDs first.
Batch(us) == {u \in us : Cardinality({v \in us : v < u}) < BatchSize}

\* Faulty: any row that waits for a UID will do.
OrphansOfAnyId(table, f, l) ==
    {i \in RowsOf(table, f) : MessageId[l] # NoId /\ table[i].uid = Null}

\* findRelinkTarget: the rows without UID in the folder that may be the letter's.
Orphans(table, f, l) ==
    {i \in RowsOf(table, f) :
        /\ MessageId[l] # NoId
        /\ table[i].uid = Null
        /\ MessageId[table[i].letter] = MessageId[l]}

First(S) == CHOOSE i \in S : \A j \in S : i <= j

\* writeOne: the row of the UID is updated; else a row that waits for a UID
\* is claimed; else the letter gets a row.
WriteOne(table, f, u, m) ==
    LET same == {i \in RowsOf(table, f) : table[i].uid = u}
        target == IF same # {} THEN same ELSE Orphans(table, f, m.letter)
        row == [folder |-> f, uid |-> u, letter |-> m.letter, flags |-> m.flags, gone |-> FALSE]
    IN IF target # {} THEN [table EXCEPT ![First(target)] = row] ELSE Append(table, row)

\* writeMessages: one transaction, in the order of the UIDs.
WriteMessages(table, f, batch) ==
    LET written[n \in 0 .. MaxUid] ==
          IF n = 0 THEN table
          ELSE IF n \in DOMAIN batch THEN WriteOne(written[n - 1], f, n, batch[n])
          ELSE written[n - 1]
    IN written[MaxUid]

\* Faulty: a row whose flags are up to date is passed over, hidden or not.
ConcludedByFlags(table) ==
    LET f == sync.folder
        known == DOMAIN sync.scanned \cap sync.local
        vanished == IF sync.full THEN sync.local \ DOMAIN sync.scanned ELSE {}
    IN [i \in DOMAIN table |->
          IF table[i].folder # f THEN table[i]
          ELSE IF table[i].uid \in known
               THEN [table[i] EXCEPT !.flags = sync.scanned[table[i].uid],
                                     !.gone = @ /\ table[i].flags = sync.scanned[table[i].uid]]
          ELSE IF table[i].uid \in vanished THEN [table[i] EXCEPT !.gone = TRUE]
          ELSE table[i]]

\* applyServerFlags for the known UIDs, then, after a full scan, markVanished.
Concluded(table) ==
    LET f == sync.folder
        known == DOMAIN sync.scanned \cap sync.local
        vanished == IF sync.full THEN sync.local \ DOMAIN sync.scanned ELSE {}
    IN [i \in DOMAIN table |->
          IF table[i].folder # f THEN table[i]
          ELSE IF table[i].uid \in known
               THEN [table[i] EXCEPT !.flags = sync.scanned[table[i].uid], !.gone = FALSE]
          ELSE IF table[i].uid \in vanished THEN [table[i] EXCEPT !.gone = TRUE]
          ELSE table[i]]

\* What runs after the last answer: flags, vanished letters, and the cursor
\* with its counts (updateFolderCursor).
Conclude(table) ==
    /\ rows' = Concluded(table)
    /\ cursor' = [cursor EXCEPT ![sync.folder] = sync.validity]
    /\ unread' = Recount(rows', {sync.folder})
    /\ lagging' = lagging \ {sync.folder}
    /\ sync' = NoSync

\* fetchAndStore: a batch is in the database before the next one is fetched.
\* Letters expunged since the scan are missing from the answer.  What happens
\* elsewhere between the answer and the transaction is as good as after it.
FetchAndStore ==
    LET f == sync.folder
        batch == Batch(sync.todo)
        table == WriteMessages(rows, f, Only(box[f], batch))
        left == sync.todo \ batch
    IN
    /\ sync.stage = "fetch"
    /\ IF left = {} THEN Conclude(table)
       ELSE /\ rows' = table
            /\ sync' = [sync EXCEPT !.todo = left]
            /\ UNCHANGED <<cursor, unread, lagging>>
    /\ UNCHANGED <<server, req, quiet, crossed>>

NothingNew ==
    /\ sync.stage = "conclude"
    /\ Conclude(rows)
    /\ UNCHANGED <<server, req, quiet, crossed>>

\* A timeout, a lost connection or an answer that is an error ends the round
\* wherever it is.  What it has written stays.
BreakOff ==
    /\ sync.stage # "idle"
    /\ sync' = NoSync
    /\ quiet' = quiet \ {sync.folder}
    /\ lagging' = lagging \cup {sync.folder}
    /\ UNCHANGED <<server, rows, cursor, unread, req, crossed>>

(***************************************************************************)
(* Requests of the user                                                    *)
(***************************************************************************)

\* #group reads the row, and what it reads is used to the end of the request.
\* The kinds: "flag" (setRead, setStarred), "move", "remove" outside the trash,
\* which moves and then hides, "expunge", which is remove in the trash, and
\* "restore" of a hidden row, whose flag \Deleted the letter has not on the server.
Ask(r) ==
    /\ req[r].stage = "idle"
    /\ \E i \in DOMAIN rows :
         LET f == rows[i].folder
             read == [NoRequest EXCEPT !.stage = "asked", !.row = i, !.from = f, !.to = f,
                         !.uid = rows[i].uid, !.flags = rows[i].flags, !.known = cursor[f]]
         IN \/ \E flag \in Flags :
                 req' = [req EXCEPT ![r] = [read EXCEPT !.kind = "flag", !.flag = flag,
                                               !.on = flag \notin rows[i].flags]]
            \/ \E g \in Folders \ {f} :
                 req' = [req EXCEPT ![r] = [read EXCEPT !.kind = "move", !.to = g]]
            \/ /\ f # Trash
               /\ req' = [req EXCEPT ![r] = [read EXCEPT !.kind = "remove", !.to = Trash]]
            \/ /\ f = Trash
               /\ req' = [req EXCEPT ![r] = [read EXCEPT !.kind = "expunge"]]
            \/ /\ rows[i].gone
               /\ req' = [req EXCEPT ![r] = [read EXCEPT !.kind = "restore"]]
    /\ UNCHANGED <<server, rows, cursor, unread, sync, quiet, crossed, lagging>>

\* The send service saves a copy of a letter, which it gave a Message-ID: #saveToSent.
AskAppend(r, l) ==
    /\ MessageId[l] # NoId
    /\ req[r].stage = "idle"
    /\ req' = [req EXCEPT ![r] = [NoRequest EXCEPT !.kind = "append", !.stage = "asked",
                                    !.letter = l, !.from = Sent, !.to = Sent]]
    /\ UNCHANGED <<server, rows, cursor, unread, sync, quiet, crossed, lagging>>

\* What a request keeps of an answer; what it does not read again it forgets.
Answered(r, uid, astray) ==
    req' = [req EXCEPT ![r] = [@ EXCEPT !.stage = "answered", !.uid = Null, !.known = 0, !.given = uid,
                                 !.under = IF uid = Null THEN 0 ELSE validity[req[r].to],
                                 !.astray = astray /\ uid # Null]]

Changed(flags, flag, on) == IF on THEN flags \cup {flag} ELSE flags \ {flag}

\* The server carries out what a request asks: STORE, MOVE or EXPUNGE of a UID, or
\* APPEND.  It is sent nothing for a row without UID, and does nothing to a
\* UID that it has not (any more).
ServerActs(r) ==
    LET q == req[r]
        f == q.from
        hit == q.uid # Null /\ q.uid \in DOMAIN box[f]
        astray == q.uid # Null /\ q.known # validity[f]
    IN
    /\ q.stage = "asked"
    /\ \/ /\ q.kind = "append"
          /\ uidNext[Sent] <= MaxUid
          /\ box' = [box EXCEPT ![Sent] = With(@, uidNext[Sent], [letter |-> q.letter, flags |-> {"seen"}])]
          /\ uidNext' = [uidNext EXCEPT ![Sent] = @ + 1]
          /\ \E tells \in UidPlus : Answered(r, IF tells THEN uidNext[Sent] ELSE Null, FALSE)
          /\ quiet' = quiet \ {Sent}
       \/ /\ q.kind \in {"move", "remove"} /\ hit
          /\ uidNext[q.to] <= MaxUid
          /\ box' = [box EXCEPT ![f] = Without(@, q.uid),
                                ![q.to] = With(@, uidNext[q.to], box[f][q.uid])]
          /\ uidNext' = [uidNext EXCEPT ![q.to] = @ + 1]
          /\ \E tells \in UidPlus : Answered(r, IF tells THEN uidNext[q.to] ELSE Null, astray)
          /\ quiet' = quiet \ {f, q.to}
       \/ /\ q.kind = "flag" /\ hit
          /\ box' = [box EXCEPT ![f][q.uid].flags = Changed(@, q.flag, q.on)]
          /\ Answered(r, Null, astray)
          /\ quiet' = quiet \ {f}
          /\ UNCHANGED uidNext
       \/ /\ q.kind = "expunge" /\ hit
          /\ box' = [box EXCEPT ![f] = Without(@, q.uid)]
          /\ Answered(r, Null, astray)
          /\ quiet' = quiet \ {f}
          /\ UNCHANGED uidNext
       \/ /\ q.kind = "restore" \/ (q.kind # "append" /\ ~hit)
          /\ Answered(r, Null, astray)
          /\ UNCHANGED <<box, uidNext, quiet>>
    /\ UNCHANGED <<validity, rows, cursor, unread, sync, crossed, lagging>>

Taken(table, f, u, i) == \E j \in RowsOf(table, f) : j # i /\ table[j].uid = u

\* Faulty: the UID is written whoever has it.
RelocatedBlindly(q) ==
    [rows EXCEPT ![q.row].folder = q.to, ![q.row].uid = q.given]

\* #relocate: the row changes its folder and takes the UID it was told.  The
\* unique index may refuse it; then the row waits for a UID.
Relocated(q) ==
    LET uid == IF Taken(rows, q.to, q.given, q.row) THEN Null ELSE q.given
    IN [rows EXCEPT ![q.row].folder = q.to, ![q.row].uid = uid]

\* #applyFlagLocally: the flags as they were read, with the change.  The columns
\* are derived from them, so a row without \Deleted is shown again.
Flagged(q) ==
    [rows EXCEPT ![q.row].flags = IF q.kind = "flag" THEN Changed(q.flags, q.flag, q.on) ELSE q.flags,
                 ![q.row].gone = FALSE]

Hidden(i, gone) == [rows EXCEPT ![i].gone = gone]

\* The UID that a relocated or saved row takes was given under another
\* UIDVALIDITY, or to another letter.
TakesForeignUid(q) == q.given # Null /\ (q.astray \/ validity[q.to] # q.under)

\* The row after the server's answer.
WriteBack(r) ==
    LET q == req[r]
    IN
    /\ q.stage = "answered"
    /\ \/ /\ q.kind \in {"move", "remove"}
          /\ rows' = Relocated(q)
          /\ unread' = Recount(rows', {q.from, q.to})
          /\ lagging' = (lagging \ {q.from, q.to}) \cup ({rows[q.row].folder} \ {q.from, q.to})
          /\ quiet' = quiet \ {rows[q.row].folder, q.from, q.to}
          /\ crossed' = crossed \cup (IF TakesForeignUid(q) THEN {q.row} ELSE {})
       \/ /\ q.kind \in {"flag", "restore"}
          /\ rows' = Flagged(q)
          /\ unread' = Recount(rows', {q.from})
          /\ lagging' = (lagging \ {q.from}) \cup ({rows[q.row].folder} \ {q.from})
          /\ quiet' = quiet \ {rows[q.row].folder}
          /\ UNCHANGED crossed
       \/ /\ q.kind = "expunge"
          /\ rows' = Hidden(q.row, TRUE)
          /\ unread' = Recount(rows', {q.from, rows[q.row].folder})
          /\ lagging' = lagging \ {q.from, rows[q.row].folder}
          /\ quiet' = quiet \ {rows[q.row].folder}
          /\ UNCHANGED crossed
       \/ /\ q.kind = "append"
          /\ rows' = IF q.given # Null /\ Taken(rows, Sent, q.given, 0) THEN rows
                     ELSE Append(rows, [folder |-> Sent, uid |-> q.given, letter |-> q.letter,
                                        flags |-> {"seen"}, gone |-> FALSE])
          /\ unread' = Recount(rows', {Sent})
          /\ lagging' = lagging \ {Sent}
          /\ quiet' = quiet \ {Sent}
          /\ crossed' = crossed \cup
                         (IF TakesForeignUid(q) /\ rows' # rows THEN {Len(rows')} ELSE {})
    /\ req' = [req EXCEPT ![r] = IF q.kind \in {"remove", "restore"}
                                 THEN [NoRequest EXCEPT !.kind = q.kind, !.stage = "closing", !.row = q.row]
                                 ELSE NoRequest]
    /\ UNCHANGED <<server, cursor, sync>>

\* Faulty: the row is hidden and the count beside its folder is left.
MarkDeletedUncounted(r) ==
    LET q == req[r]
    IN
    /\ q.stage = "closing"
    /\ rows' = Hidden(q.row, q.kind = "remove")
    /\ quiet' = quiet \ {rows[q.row].folder}
    /\ req' = [req EXCEPT ![r] = NoRequest]
    /\ UNCHANGED <<server, cursor, unread, lagging, sync, crossed>>

\* #markDeletedLocally after the connection of the request is closed: remove
\* hides the row it has moved, restore shows its own.
MarkDeleted(r) ==
    LET q == req[r]
    IN
    /\ q.stage = "closing"
    /\ rows' = Hidden(q.row, q.kind = "remove")
    /\ unread' = Recount(rows', {rows[q.row].folder})
    /\ lagging' = lagging \ {rows[q.row].folder}
    /\ quiet' = quiet \ {rows[q.row].folder}
    /\ req' = [req EXCEPT ![r] = NoRequest]
    /\ UNCHANGED <<server, cursor, sync, crossed>>

\* The connection fails or times out, before or after the server has acted:
\* nothing is written.
RequestFails(r) ==
    /\ req[r].stage \in {"asked", "answered"}
    /\ req' = [req EXCEPT ![r] = NoRequest]
    /\ UNCHANGED <<server, rows, cursor, unread, sync, quiet, crossed, lagging>>

\* The process ends; SQLite keeps what was written.
Crash ==
    /\ sync.stage # "idle" \/ \E r \in Requests : req[r].stage # "idle"
    /\ sync' = NoSync
    /\ req' = [r \in Requests |-> NoRequest]
    /\ IF sync.stage = "idle" THEN UNCHANGED <<quiet, lagging>>
       ELSE quiet' = quiet \ {sync.folder} /\ lagging' = lagging \cup {sync.folder}
    /\ UNCHANGED <<server, rows, cursor, unread, crossed>>

Elsewhere ==
    \E f \in Folders :
        \/ \E l \in Letters : Arrives(f, l)
        \/ IsFlaggedElsewhere(f)
        \/ IsExpungedElsewhere(f)
        \/ IsRebuilt(f)

Failure == BreakOff \/ (\E r \in Requests : RequestFails(r)) \/ Crash

\* A user asks: of the requests that are idle it is of no account which is used.
UserAsks ==
    \E r \in Requests : Ask(r) \/ \E l \in Letters : AskAppend(r, l)

Disturbance ==
    /\ events < MaxEvents
    /\ events' = events + 1
    /\ Elsewhere \/ UserAsks \/ Failure

Round ==
    /\ UNCHANGED events
    /\ (\E f \in Folders : Select(f)) \/ Open \/ Scan \/ FetchAndStore \/ NothingNew

Answer ==
    /\ UNCHANGED events
    /\ \E r \in Requests : ServerActs(r) \/ WriteBack(r) \/ MarkDeleted(r)

Next == Round \/ Answer \/ Disturbance

Spec == Init /\ [][Next]_vars

(***************************************************************************)
(* Properties                                                              *)
(***************************************************************************)

\* Types; in particular the unique index: a UID is in a folder once.
TypeOK ==
    /\ \A f \in Folders :
         /\ DOMAIN box[f] \subseteq 1 .. (uidNext[f] - 1)
         /\ \A u \in DOMAIN box[f] : box[f][u] \in [letter : Letters, flags : SUBSET Flags]
    /\ uidNext \in [Folders -> 1 .. MaxUid + 1]
    /\ validity \in [Folders -> 1 .. MaxValidity]
    /\ rows \in Seq(Row)
    /\ \A i, j \in DOMAIN rows :
         i # j /\ rows[i].folder = rows[j].folder /\ rows[i].uid # Null => rows[i].uid # rows[j].uid
    /\ cursor \in [Folders -> 0 .. MaxValidity]
    /\ unread \in [Folders -> Nat]
    /\ sync.stage \in {"idle", "opened", "scan", "fetch", "conclude"}
    /\ \A r \in Requests : req[r].stage \in {"idle", "asked", "answered", "closing"}
    /\ events \in 0 .. MaxEvents
    /\ quiet \subseteq Folders /\ lagging \subseteq Folders /\ crossed \subseteq DOMAIN rows

\* A round of the folder has ended, and nobody has touched the folder or its rows
\* since that round began.
Settled(f) == f \in quiet /\ ~InRound(f)

\* What such a round has scanned in full.
ReadsAll(f) ==
    \/ HasUidGap(uidNext[f], Cardinality(DOMAIN box[f]))
    \/ Cardinality(DOMAIN box[f]) <= ReconcileMax

\* Letters that the code cannot tell apart: a row of one may be claimed for the other.
SameLetter(l, m) == l = m \/ (MessageId[l] # NoId /\ MessageId[l] = MessageId[m])

\* One undisturbed round repairs whatever came before it: stale answers,
\* requests that failed half-way, broken rounds, crashes, rebuilt folders.
\* The rows that are shown and have a UID are then the letters on the server, with
\* their content and, if the folder is small or has gaps, with their flags.  In a
\* folder that is neither, a row with a foreign UID can stand in for another
\* in the number the round compares, and hide that there is a letter to fetch.
QuietRoundRepairs ==
    \A f \in Folders : Settled(f) =>
        LET shown == {i \in LiveRows(rows, f) : rows[i].uid # Null}
        IN /\ ReadsAll(f) \/ shown \cap crossed = {} =>
                /\ {rows[i].uid : i \in shown} = DOMAIN box[f]
                /\ \A i \in shown \ crossed : SameLetter(rows[i].letter, box[f][rows[i].uid].letter)
           /\ ReadsAll(f) => \A i \in shown : rows[i].flags = box[f][rows[i].uid].flags

\* The number of unread letters beside a folder is that of its rows, except
\* while a round is at work on them, after a round that broke off, and when a
\* request has changed a row that another one had moved.
CountsFollowRows ==
    \A f \in Folders :
        unread[f] = CountUnread(rows, f) \/ InRound(f) \/ f \in lagging

\* The archive keeps every letter: the content of a row is replaced by a
\* letter of the same Message-ID only, unless the row carries a foreign UID.
ContentIsKept ==
    [][\A i \in DOMAIN rows :
        SameLetter(rows[i].letter, rows'[i].letter) \/ i \in crossed]_vars
=============================================================================
