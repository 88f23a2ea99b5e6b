-------------------------- MODULE MailboxSyncProofs --------------------------
(***************************************************************************)
(* What holds of the mirror for any folders, letters and requests, any     *)
(* limits of a round, and however often the server, other clients, the     *)
(* network or the process disturb it.                                      *)
(***************************************************************************)
EXTENDS MailboxSync, FunctionTheorems, FiniteSetTheorems, TLAPS

Mail == [letter : Letters, flags : SUBSET Flags]
Mailboxes == UNION {[us -> Mail] : us \in SUBSET Uids}
FlagLists == UNION {[us -> SUBSET Flags] : us \in SUBSET Uids}

SyncStates ==
    [stage : {"idle", "opened", "scan", "fetch", "conclude"}, folder : Folders,
     exists : Nat, uidNext : 1 .. MaxUid + 1, validity : 0 .. MaxValidity,
     full : BOOLEAN, local : SUBSET Uids, scanned : FlagLists, todo : SUBSET Uids]

\* The folder of a round is not rebuilt, and a round fetches what it has scanned
\* and does not have.
SyncOK ==
    /\ sync \in SyncStates
    /\ sync.stage # "idle" => sync.validity = validity[sync.folder]
    /\ sync.todo \subseteq DOMAIN sync.scanned \ sync.local
    /\ sync.stage \in {"scan", "conclude"} => sync.todo = {}
    /\ sync.stage = "fetch" => sync.todo # {}

Fields == {"kind", "stage", "row", "from", "to", "uid", "flags", "flag", "on", "letter",
           "given", "known", "under", "astray"}

\* What a request has read and been told.
RequestIsOK(q) ==
    /\ DOMAIN q = Fields
    /\ q.kind \in {"none", "flag", "move", "remove", "expunge", "restore", "append"}
    /\ q.stage \in {"idle", "asked", "answered", "closing"}
    /\ q.from \in Folders /\ q.to \in Folders
    /\ q.uid \in Uids \cup {Null} /\ q.given \in Uids \cup {Null}
    /\ q.flags \subseteq Flags /\ q.astray \in BOOLEAN
    /\ q.known \in 0 .. validity[q.from] /\ q.under \in 0 .. validity[q.to]
    /\ q.kind = "none" <=> q.stage = "idle"
    /\ q.stage = "closing" => q.kind \in {"remove", "restore"}
    /\ q.kind \notin {"none", "append"} => q.row \in DOMAIN rows
    /\ q.kind = "append" => q.letter \in Letters /\ q.to = Sent
    /\ q.kind = "flag" => q.flag \in Flags
    /\ q.kind \in {"move", "remove"} /\ q.stage # "closing" => q.from # q.to

\* A table, with the unique index on folder and UID.
UidsAreUnique(t) ==
    \A i, j \in DOMAIN t :
        i # j /\ t[i].folder = t[j].folder /\ t[i].uid # Null => t[i].uid # t[j].uid

Table(t) == t \in Seq(Row) /\ UidsAreUnique(t)

ServerOK ==
    /\ box \in [Folders -> Mailboxes]
    /\ uidNext \in [Folders -> 1 .. MaxUid + 1] /\ validity \in [Folders -> 1 .. MaxValidity]
    /\ \A f \in Folders : DOMAIN box[f] \subseteq 1 .. (uidNext[f] - 1)

TableOK ==
    /\ Table(rows) /\ crossed \subseteq DOMAIN rows
    /\ unread \in [Folders -> Nat] /\ cursor \in [Folders -> 0 .. MaxValidity]
    /\ quiet \subseteq Folders /\ lagging \subseteq Folders

RequestsOK == DOMAIN req = Requests /\ \A r \in Requests : RequestIsOK(req[r])

TypesOK == ServerOK /\ TableOK /\ SyncOK /\ RequestsOK

\* The rows of a folder have UIDs of its present UIDVALIDITY.
Current(f) == cursor[f] \in {0, validity[f]} \/ (InRound(f) /\ sync.stage # "opened")

\* A UID leads to a letter: it has been given to it, or to one that is taken for
\* it, and will not be given to another.
Leads(f, u, l) == u < uidNext[f] /\ (u \in DOMAIN box[f] => SameLetter(l, box[f][u].letter))

RowsAreTrue ==
    \A i \in DOMAIN rows \ crossed :
        rows[i].uid # Null /\ Current(rows[i].folder)
          => Leads(rows[i].folder, rows[i].uid, rows[i].letter)

\* What a request has read of its row, and what it will write to it, is true of
\* the letter in the row, unless a UIDVALIDITY has changed.
RequestIsTrue(q) ==
    /\ q.stage = "asked" /\ q.kind \in {"move", "remove"} /\ q.uid # Null
            /\ q.known = validity[q.from] /\ q.row \notin crossed =>
        Leads(q.from, q.uid, rows[q.row].letter)
    /\ q.stage = "answered" /\ q.kind \in {"move", "remove"} /\ q.given # Null
            /\ ~q.astray /\ q.under = validity[q.to] /\ q.row \notin crossed =>
        Leads(q.to, q.given, rows[q.row].letter)
    /\ q.stage = "answered" /\ q.kind = "append" /\ q.given # Null /\ q.under = validity[Sent] =>
        Leads(Sent, q.given, q.letter)

CursorOK ==
    \A f \in Folders : cursor[f] <= validity[f] /\ (Settled(f) => cursor[f] = validity[f])

TruthOK == CursorOK /\ RowsAreTrue /\ \A r \in Requests : RequestIsTrue(req[r])

Shown(f) == {i \in LiveRows(rows, f) : rows[i].uid # Null}
ShownUids(f) == {rows[i].uid : i \in Shown(f)}

\* A round that scans the new UIDs only has no others to scan.
PartIsEnough(f) ==
    ~sync.full => /\ ~ReadsAll(f)
                  /\ Shown(f) \cap crossed = {} => ShownUids(f) = DOMAIN box[f]

\* How far a round has come that nobody disturbs.
QuietRound ==
    LET f == sync.folder
        new == DOMAIN sync.scanned \ sync.local
    IN f \in quiet =>
        /\ sync.stage = "opened" =>
            sync.exists = Cardinality(DOMAIN box[f]) /\ sync.uidNext = uidNext[f]
        /\ sync.stage = "scan" =>
            /\ (sync.exists = 0 <=> DOMAIN box[f] = {})
            /\ sync.local = UidsOf(rows, f)
        /\ sync.stage \in {"scan", "fetch", "conclude"} => PartIsEnough(f)
        /\ sync.stage \in {"fetch", "conclude"} =>
            /\ DOMAIN sync.scanned \subseteq DOMAIN box[f]
            /\ \A u \in DOMAIN sync.scanned : sync.scanned[u] = box[f][u].flags
            /\ sync.full => DOMAIN sync.scanned = DOMAIN box[f]
            /\ UidsOf(rows, f) = sync.local \cup (new \ sync.todo)
            /\ \A i \in RowsOf(rows, f) : rows[i].uid \in new =>
                    ~rows[i].gone /\ rows[i].flags = sync.scanned[rows[i].uid]

\* The inductive invariant.
Inv ==
    /\ TypesOK /\ events \in 0 .. MaxEvents
    /\ TruthOK /\ QuietRound /\ QuietRoundRepairs /\ CountsFollowRows

-----------------------------------------------------------------------------
(* Natural numbers: the least of a set, and induction                      *)

Less == {p \in Nat \X Nat : p[1] < p[2]}

LEMMA LeastOf ==
    ASSUME NEW S \in SUBSET Nat, S # {}
    PROVE  \E m \in S : \A k \in S : m <= k
<1>1. IsWellFoundedOn(Less, Nat)
  BY NatLessThanWellFounded DEF OpToRel, Less
<1>2. PICK m \in S : \A k \in S : ~ (<<k, m>> \in Less)
  BY <1>1, WFMin
<1>3. \A k \in S : ~ (k < m)
  BY <1>2 DEF Less
<1>. QED
  BY <1>3

LEMMA InductionOn ==
    ASSUME NEW S, 0 \in S, \A n \in Nat : n \in S => n + 1 \in S
    PROVE  \A n \in Nat : n \in S
<1>. DEFINE T == Nat \ S
<1>1. SUFFICES ASSUME T # {} PROVE FALSE
  OBVIOUS
<1>2. PICK m \in T : \A k \in T : m <= k
  BY <1>1, LeastOf
<1>3. m # 0 /\ m - 1 \in Nat /\ m - 1 \notin T
  BY <1>2
<1>. QED
  BY <1>2, <1>3

\* First(S) is the least element of S.
LEMMA FirstOf ==
    ASSUME NEW S \in SUBSET Nat, S # {}
    PROVE  First(S) \in S /\ \A j \in S : First(S) <= j
<1>1. \E i \in S : \A j \in S : i <= j
  BY LeastOf
<1>. QED
  BY <1>1 DEF First

-----------------------------------------------------------------------------
(* Letters                                                                 *)

LEMMA SameLetterIsEquivalence ==
    /\ \A l : SameLetter(l, l)
    /\ \A l, m : SameLetter(l, m) => SameLetter(m, l)
    /\ \A l, m, n : SameLetter(l, m) /\ SameLetter(m, n) => SameLetter(l, n)
BY DEF SameLetter

-----------------------------------------------------------------------------
(* Tables, and what writing a row does to them                             *)

\* No row but k has the UID u of folder f.
Free(t, f, u, k) == \A j \in RowsOf(t, f) \ {k} : t[j].uid # u

\* The rows of folder g are the same in t and s.
SameRows(t, s, g) == RowsOf(t, g) = RowsOf(s, g) /\ \A i \in RowsOf(t, g) : t[i] = s[i]

RowAt(f, u, m) == [folder |-> f, uid |-> u, letter |-> m.letter, flags |-> m.flags, gone |-> FALSE]

LEMMA TableDomain ==
    ASSUME NEW t \in Seq(Row)
    PROVE  /\ DOMAIN t = 1 .. Len(t) /\ Len(t) \in Nat
           /\ DOMAIN t \in SUBSET Nat /\ 0 \notin DOMAIN t
           /\ \A i \in DOMAIN t : /\ t[i] \in Row /\ t[i].folder \in Folders
                                  /\ t[i].uid \in Uids \cup {Null} /\ t[i].letter \in Letters
                                  /\ t[i].flags \in SUBSET Flags /\ t[i].gone \in BOOLEAN
<1>1. DOMAIN t = 1 .. Len(t) /\ Len(t) \in Nat /\ \A i \in 1 .. Len(t) : t[i] \in Row
  OBVIOUS
<1>2. \A r \in Row : /\ r.folder \in Folders /\ r.uid \in Uids \cup {Null} /\ r.letter \in Letters
                     /\ r.flags \in SUBSET Flags /\ r.gone \in BOOLEAN
  BY DEF Row
<1>. QED
  BY <1>1, <1>2

\* A row is replaced.
LEMMA PutRow ==
    ASSUME NEW t, Table(t), NEW k \in DOMAIN t, NEW row \in Row,
           row.uid = Null \/ Free(t, row.folder, row.uid, k)
    PROVE  LET s == [t EXCEPT ![k] = row]
           IN  /\ Table(s) /\ DOMAIN s = DOMAIN t /\ s[k] = row
               /\ \A i \in DOMAIN t \ {k} : s[i] = t[i]
               /\ \A g : g # t[k].folder /\ g # row.folder => SameRows(t, s, g)
<1>. DEFINE s == [t EXCEPT ![k] = row]
<1>1. t \in Seq(Row) /\ UidsAreUnique(t)
  BY DEF Table
<1>2. DOMAIN s = DOMAIN t /\ s[k] = row /\ \A i \in DOMAIN t \ {k} : s[i] = t[i]
  BY <1>1
<1>3. s \in Seq(Row)
  BY <1>1
<1>. HIDE DEF s
<1>4. UidsAreUnique(s)
  <2>1. SUFFICES ASSUME NEW i \in DOMAIN t, NEW j \in DOMAIN t, i # j,
                        s[i].folder = s[j].folder, s[i].uid # Null, s[i].uid = s[j].uid
                 PROVE  FALSE
    BY <1>2 DEF UidsAreUnique
  <2>2. CASE i = k
    BY <1>2, <2>1, <2>2 DEF Free, RowsOf
  <2>3. CASE j = k
    BY <1>2, <2>1, <2>3 DEF Free, RowsOf
  <2>4. CASE i # k /\ j # k
    BY <1>1, <1>2, <2>1, <2>4 DEF UidsAreUnique
  <2>. QED
    BY <2>2, <2>3, <2>4
<1>5. ASSUME NEW g, g # t[k].folder, g # row.folder PROVE SameRows(t, s, g)
  BY <1>2, <1>5 DEF SameRows, RowsOf
<1>6. Table(s)
  BY <1>3, <1>4 DEF Table
<1>. QED
  BY <1>2, <1>5, <1>6 DEF s

\* A row is added.
LEMMA AddRow ==
    ASSUME NEW t, Table(t), NEW row \in Row,
           row.uid = Null \/ Free(t, row.folder, row.uid, 0)
    PROVE  LET s == Append(t, row)
           IN  /\ Table(s) /\ DOMAIN s = DOMAIN t \cup {Len(t) + 1} /\ s[Len(t) + 1] = row
               /\ Len(t) + 1 \notin DOMAIN t
               /\ Len(s) = Len(t) + 1
               /\ \A i \in DOMAIN t : s[i] = t[i]
               /\ \A g : g # row.folder => SameRows(t, s, g)
<1>. DEFINE s == Append(t, row)
            k == Len(t) + 1
<1>1. t \in Seq(Row) /\ UidsAreUnique(t)
  BY DEF Table
<1>2. /\ DOMAIN s = DOMAIN t \cup {k} /\ s[k] = row /\ k \notin DOMAIN t
      /\ \A i \in DOMAIN t : s[i] = t[i]
      /\ Len(s) = k
  BY <1>1
<1>3. s \in Seq(Row)
  BY <1>1
<1>4. 0 \notin DOMAIN t
  BY <1>1, TableDomain
<1>. HIDE DEF s, k
<1>5. UidsAreUnique(s)
  <2>1. SUFFICES ASSUME NEW i \in DOMAIN s, NEW j \in DOMAIN s, i # j,
                        s[i].folder = s[j].folder, s[i].uid # Null, s[i].uid = s[j].uid
                 PROVE  FALSE
    BY DEF UidsAreUnique
  <2>2. CASE i = k
    <3>1. j \in RowsOf(t, row.folder) \ {0} /\ t[j].uid = row.uid /\ row.uid # Null
      BY <1>2, <1>4, <2>1, <2>2 DEF RowsOf
    <3>. QED
      BY <3>1 DEF Free
  <2>3. CASE j = k
    <3>1. i \in RowsOf(t, row.folder) \ {0} /\ t[i].uid = row.uid /\ row.uid # Null
      BY <1>2, <1>4, <2>1, <2>3 DEF RowsOf
    <3>. QED
      BY <3>1 DEF Free
  <2>4. CASE i # k /\ j # k
    BY <1>1, <1>2, <2>1, <2>4 DEF UidsAreUnique
  <2>. QED
    BY <2>2, <2>3, <2>4
<1>6. ASSUME NEW g, g # row.folder PROVE SameRows(t, s, g)
  BY <1>2, <1>6 DEF SameRows, RowsOf
<1>7. Table(s)
  BY <1>3, <1>5 DEF Table
<1>. QED
  BY <1>2, <1>6, <1>7 DEF s, k

\* What is the same for a folder whose rows are the same.
LEMMA SameFolder ==
    ASSUME NEW t, NEW s, NEW g, SameRows(t, s, g)
    PROVE  /\ LiveRows(t, g) = LiveRows(s, g)
           /\ UidsOf(t, g) = UidsOf(s, g)
           /\ CountUnread(t, g) = CountUnread(s, g)
           /\ {i \in LiveRows(t, g) : t[i].uid # Null} = {i \in LiveRows(s, g) : s[i].uid # Null}
<1>1. RowsOf(t, g) = RowsOf(s, g) /\ \A i \in RowsOf(t, g) : t[i] = s[i]
  BY DEF SameRows
<1>2. LiveRows(t, g) = LiveRows(s, g)
  BY <1>1 DEF LiveRows
<1>3. \A i \in LiveRows(t, g) : t[i] = s[i]
  BY <1>1 DEF LiveRows
<1>4. UidsOf(t, g) = UidsOf(s, g)
  BY <1>1 DEF UidsOf
<1>5. {i \in LiveRows(t, g) : "seen" \notin t[i].flags} = {i \in LiveRows(s, g) : "seen" \notin s[i].flags}
  BY <1>2, <1>3
<1>6. CountUnread(t, g) = CountUnread(s, g)
  BY <1>5 DEF CountUnread
<1>. QED
  BY <1>2, <1>3, <1>4, <1>6

LEMMA SameRowsCompose ==
    ASSUME NEW t, NEW s, NEW v, NEW g, SameRows(t, s, g), SameRows(s, v, g)
    PROVE  SameRows(t, v, g)
BY DEF SameRows

-----------------------------------------------------------------------------
(* writeOne and writeMessages                                              *)

\* One letter is written into the row of its UID, into a row that has none and may
\* be the letter's, or into a new one.
LEMMA WriteOneCases ==
    ASSUME NEW t, Table(t), NEW f \in Folders, NEW u \in Uids, NEW m \in Mail
    PROVE  \/ \E k \in RowsOf(t, f) :
                /\ WriteOne(t, f, u, m) = [t EXCEPT ![k] = RowAt(f, u, m)]
                /\ Free(t, f, u, k)
                /\ t[k].uid = u \/ (t[k].uid = Null /\ SameLetter(t[k].letter, m.letter))
           \/ /\ WriteOne(t, f, u, m) = Append(t, RowAt(f, u, m))
              /\ Free(t, f, u, 0)
<1>. DEFINE same == {i \in RowsOf(t, f) : t[i].uid = u}
            orphans == Orphans(t, f, m.letter)
            row == RowAt(f, u, m)
<1>1. t \in Seq(Row) /\ UidsAreUnique(t)
  BY DEF Table
<1>2. DOMAIN t \in SUBSET Nat
  BY <1>1, TableDomain
<1>3. same \in SUBSET Nat /\ orphans \in SUBSET Nat
  BY <1>2 DEF RowsOf, Orphans
<1>4. WriteOne(t, f, u, m) =
        IF (IF same # {} THEN same ELSE orphans) # {}
        THEN [t EXCEPT ![First(IF same # {} THEN same ELSE orphans)] = row] ELSE Append(t, row)
  BY DEF WriteOne, RowAt
<1>. HIDE DEF orphans
<1>5. u # Null
  BY DEF Uids, Null
<1>6. CASE same # {}
  <2>1. First(same) \in same
    BY <1>3, <1>6, FirstOf
  <2>2. Free(t, f, u, First(same))
    BY <1>1, <1>5, <2>1 DEF Free, RowsOf, UidsAreUnique
  <2>. QED
    BY <1>4, <1>6, <2>1, <2>2
<1>7. CASE same = {} /\ orphans # {}
  <2>1. First(orphans) \in orphans
    BY <1>3, <1>7, FirstOf
  <2>2. Free(t, f, u, First(orphans))
    BY <1>7 DEF Free
  <2>3. /\ First(orphans) \in RowsOf(t, f) /\ t[First(orphans)].uid = Null
        /\ SameLetter(t[First(orphans)].letter, m.letter)
    BY <2>1 DEF orphans, Orphans, SameLetter
  <2>. QED
    BY <1>4, <1>7, <2>2, <2>3
<1>8. CASE same = {} /\ orphans = {}
  BY <1>4, <1>8 DEF Free
<1>. QED
  BY <1>6, <1>7, <1>8

\* Mail of folder f has been written into table t, which has become s.
Stores(s, t, f, batch, n) ==
    /\ Table(s) /\ DOMAIN t \subseteq DOMAIN s
    /\ \A g : g # f => SameRows(t, s, g)
    /\ \A i \in DOMAIN t : s[i] # t[i] =>
          \E u \in DOMAIN batch \cap 1 .. n :
             /\ t[i].folder = f /\ s[i] = RowAt(f, u, batch[u])
             /\ t[i].uid = u \/ (t[i].uid = Null /\ SameLetter(t[i].letter, batch[u].letter))
    /\ \A i \in DOMAIN s \ DOMAIN t :
          \E u \in DOMAIN batch \cap 1 .. n : s[i] = RowAt(f, u, batch[u])
    /\ \A u \in DOMAIN batch \cap 1 .. n : \E i \in DOMAIN s : s[i] = RowAt(f, u, batch[u])

LEMMA StoresNothing ==
    ASSUME NEW t, Table(t), NEW f, NEW batch
    PROVE  Stores(t, t, f, batch, 0)
BY DEF Stores, SameRows

LEMMA StoresOneMore ==
    ASSUME NEW t, Table(t), NEW s, NEW f \in Folders, NEW batch \in Mailboxes, NEW n \in Nat,
           n + 1 \in DOMAIN batch, Stores(s, t, f, batch, n)
    PROVE  Stores(WriteOne(s, f, n + 1, batch[n + 1]), t, f, batch, n + 1)
<1>. DEFINE u == n + 1
            row == RowAt(f, u, batch[u])
            v == WriteOne(s, f, u, batch[u])
<1>1. u \in Uids /\ batch[u] \in Mail /\ u \in DOMAIN batch \cap 1 .. u /\ u # Null
  BY DEF Mailboxes, Uids, Null
<1>2. row \in Row /\ row.folder = f /\ row.uid = u
  BY <1>1 DEF RowAt, Row, Mail
<1>3. \A w \in DOMAIN batch \cap 1 .. n : w \in DOMAIN batch \cap 1 .. u /\ w # u
  OBVIOUS
<1>4. \A w \in DOMAIN batch \cap 1 .. u : w \in DOMAIN batch \cap 1 .. n \/ w = u
  OBVIOUS
<1>5. \A w : RowAt(f, w, batch[w]).uid = w /\ RowAt(f, w, batch[w]).folder = f
  BY DEF RowAt
<1>6. Table(s)
  BY DEF Stores
<1>. HIDE DEF u, row, v
<1>7. ASSUME NEW k \in RowsOf(s, f), v = [s EXCEPT ![k] = row], Free(s, f, u, k),
             s[k].uid = u \/ (s[k].uid = Null /\ SameLetter(s[k].letter, batch[u].letter))
      PROVE  Stores(v, t, f, batch, u)
  <2>1. k \in DOMAIN s /\ s[k].folder = f
    BY <1>7 DEF RowsOf
  <2>2. /\ Table(v) /\ DOMAIN v = DOMAIN s /\ v[k] = row
        /\ \A i \in DOMAIN s \ {k} : v[i] = s[i]
        /\ \A g : g # f => SameRows(s, v, g)
    <3>1. Free(s, row.folder, row.uid, k)
      BY <1>2, <1>7
    <3>2. LET p == [s EXCEPT ![k] = row]
          IN  /\ Table(p) /\ DOMAIN p = DOMAIN s /\ p[k] = row
              /\ \A i \in DOMAIN s \ {k} : p[i] = s[i]
              /\ \A g : g # s[k].folder /\ g # row.folder => SameRows(s, p, g)
      BY <1>2, <1>6, <2>1, <3>1, PutRow
    <3>. QED
      BY <1>2, <1>7, <2>1, <3>2
  <2>3. \A g : g # f => SameRows(t, v, g)
    BY <2>2, SameRowsCompose DEF Stores
  <2>4. ASSUME NEW i \in DOMAIN t, v[i] # t[i]
        PROVE  \E w \in DOMAIN batch \cap 1 .. u :
                 /\ t[i].folder = f /\ v[i] = RowAt(f, w, batch[w])
                 /\ t[i].uid = w \/ (t[i].uid = Null /\ SameLetter(t[i].letter, batch[w].letter))
    <3>1. i \in DOMAIN s
      BY DEF Stores
    <3>2. CASE i # k
      BY <1>3, <2>2, <2>4, <3>1, <3>2 DEF Stores
    <3>3. CASE i = k
      <4>1. s[i] = t[i]
        <5>1. SUFFICES ASSUME s[i] # t[i] PROVE FALSE
          OBVIOUS
        <5>2. PICK w \in DOMAIN batch \cap 1 .. n : s[i] = RowAt(f, w, batch[w])
          BY <5>1 DEF Stores
        <5>3. s[i].uid = w /\ w # u /\ w # Null
          BY <1>3, <1>5, <5>2 DEF Null
        <5>. QED
          BY <1>7, <3>3, <5>3
      <4>. QED
        BY <1>1, <1>7, <2>1, <2>2, <3>3, <4>1 DEF row
    <3>. QED
      BY <3>2, <3>3
  <2>5. ASSUME NEW i \in DOMAIN v \ DOMAIN t
        PROVE  \E w \in DOMAIN batch \cap 1 .. u : v[i] = RowAt(f, w, batch[w])
    BY <1>1, <1>3, <2>2, <2>5 DEF Stores, row
  <2>6. ASSUME NEW w \in DOMAIN batch \cap 1 .. u
        PROVE  \E i \in DOMAIN v : v[i] = RowAt(f, w, batch[w])
    <3>1. CASE w = u
      BY <2>1, <2>2, <3>1 DEF row
    <3>2. CASE w # u
      <4>1. w \in DOMAIN batch \cap 1 .. n
        BY <1>4, <3>2
      <4>2. PICK i \in DOMAIN s : s[i] = RowAt(f, w, batch[w])
        BY <4>1 DEF Stores
      <4>3. s[i].uid = w /\ w # Null /\ w # u
        BY <1>3, <1>5, <4>1, <4>2 DEF Null
      <4>4. i # k
        BY <1>7, <4>3
      <4>. QED
        BY <2>2, <4>2, <4>4
    <3>. QED
      BY <3>1, <3>2
  <2>. QED
    BY <2>2, <2>3, <2>4, <2>5, <2>6 DEF Stores
<1>8. ASSUME v = Append(s, row), Free(s, f, u, 0)
      PROVE  Stores(v, t, f, batch, u)
  <2>1. /\ Table(v) /\ DOMAIN v = DOMAIN s \cup {Len(s) + 1} /\ v[Len(s) + 1] = row
        /\ Len(s) + 1 \notin DOMAIN s
        /\ \A i \in DOMAIN s : v[i] = s[i]
        /\ \A g : g # f => SameRows(s, v, g)
    BY <1>2, <1>6, <1>8, AddRow
  <2>2. \A g : g # f => SameRows(t, v, g)
    BY <2>1, SameRowsCompose DEF Stores
  <2>3. ASSUME NEW i \in DOMAIN t, v[i] # t[i]
        PROVE  \E w \in DOMAIN batch \cap 1 .. u :
                 /\ t[i].folder = f /\ v[i] = RowAt(f, w, batch[w])
                 /\ t[i].uid = w \/ (t[i].uid = Null /\ SameLetter(t[i].letter, batch[w].letter))
    BY <1>3, <2>1, <2>3 DEF Stores
  <2>4. ASSUME NEW i \in DOMAIN v \ DOMAIN t
        PROVE  \E w \in DOMAIN batch \cap 1 .. u : v[i] = RowAt(f, w, batch[w])
    BY <1>1, <1>3, <2>1, <2>4 DEF Stores, row
  <2>5. ASSUME NEW w \in DOMAIN batch \cap 1 .. u
        PROVE  \E i \in DOMAIN v : v[i] = RowAt(f, w, batch[w])
    BY <1>4, <2>1 DEF Stores, row
  <2>. QED
    BY <2>1, <2>2, <2>3, <2>4, <2>5 DEF Stores
<1>9. Stores(v, t, f, batch, u)
  <2>1. u \in Uids /\ batch[u] \in Mail
    BY <1>1
  <2>. QED
    BY <1>6, <1>7, <1>8, <2>1, WriteOneCases DEF v, row
<1>. QED
  BY <1>9 DEF u, v

\* The table after the mail with UID n is written.
Stored(s, f, batch, n) == IF n \in DOMAIN batch THEN WriteOne(s, f, n, batch[n]) ELSE s

LEMMA StoresNext ==
    ASSUME NEW t, Table(t), NEW s, NEW f \in Folders, NEW batch \in Mailboxes, NEW n \in Nat,
           Stores(s, t, f, batch, n)
    PROVE  Stores(Stored(s, f, batch, n + 1), t, f, batch, n + 1)
<1>1. CASE n + 1 \in DOMAIN batch
  BY <1>1, StoresOneMore DEF Stored
<1>2. CASE n + 1 \notin DOMAIN batch
  <2>1. DOMAIN batch \cap 1 .. n + 1 = DOMAIN batch \cap 1 .. n
    BY <1>2
  <2>. QED
    BY <1>2, <2>1 DEF Stored, Stores
<1>. QED
  BY <1>1, <1>2

\* A recursive definition over 0 .. m has a solution, and what is true of the
\* first value and kept by each step is true of the last.
LEMMA StoresAll ==
    ASSUME NEW t, Table(t), NEW f \in Folders, NEW batch \in Mailboxes
    PROVE  Stores(WriteMessages(t, f, batch), t, f, batch, MaxUid)
<1>. DEFINE IsRun(w, n) ==
                w = [k \in 0 .. n |-> IF k = 0 THEN t ELSE Stored(w[k - 1], f, batch, k)]
            G == {n \in Nat : \E w : IsRun(w, n)}
            Def(w) == [k \in 0 .. MaxUid |-> IF k = 0 THEN t ELSE Stored(w[k - 1], f, batch, k)]
<1>1. 0 \in G
  <2>. DEFINE w == [k \in 0 .. 0 |-> t]
  <2>1. \A k \in 0 .. 0 : k = 0
    OBVIOUS
  <2>2. IsRun(w, 0)
    BY <2>1
  <2>. QED
    BY <2>2
<1>2. ASSUME NEW n \in Nat, n \in G PROVE n + 1 \in G
  <2>1. PICK w : IsRun(w, n)
    BY <1>2
  <2>. DEFINE v == [k \in 0 .. n + 1 |-> IF k = n + 1 THEN Stored(w[n], f, batch, n + 1) ELSE w[k]]
  <2>2. \A k \in 0 .. n : v[k] = w[k]
    OBVIOUS
  <2>3. v[n + 1] = Stored(w[n], f, batch, n + 1)
    OBVIOUS
  <2>4. \A k \in 0 .. n + 1 : k \in 0 .. n \/ (k = n + 1 /\ k # 0 /\ k - 1 = n /\ n \in 0 .. n)
    OBVIOUS
  <2>5. \A k \in 0 .. n : k # 0 => k - 1 \in 0 .. n
    OBVIOUS
  <2>6. \A k \in 0 .. n : w[k] = IF k = 0 THEN t ELSE Stored(w[k - 1], f, batch, k)
    BY <2>1
  <2>7. v = [k \in 0 .. n + 1 |-> IF k = 0 THEN t ELSE Stored(v[k - 1], f, batch, k)]
    <3>1. \A k \in 0 .. n + 1 : v[k] = IF k = 0 THEN t ELSE Stored(v[k - 1], f, batch, k)
      <4>. HIDE DEF v
      <4>. QED
        BY <2>2, <2>3, <2>4, <2>5, <2>6
    <3>. QED
      BY <3>1
  <2>. HIDE DEF v
  <2>. QED
    BY <2>7
<1>3. PICK w : IsRun(w, MaxUid)
  <2>1. MaxUid \in Nat
    BY MailboxAssumption
  <2>2. \A n \in Nat : n \in G
    <3>. HIDE DEF G
    <3>. QED
      BY <1>1, <1>2, InductionOn
  <2>. QED
    BY <2>1, <2>2
<1>4. w = Def(w)
  BY <1>3
<1>. DEFINE c == CHOOSE x : x = Def(x)
<1>5. c = Def(c)
  BY <1>4
<1>6. WriteMessages(t, f, batch) = c[MaxUid]
  BY DEF WriteMessages, Stored
<1>7. \A k \in 0 .. MaxUid : c[k] = IF k = 0 THEN t ELSE Stored(c[k - 1], f, batch, k)
  BY <1>5
<1>. DEFINE H == {n \in Nat : n <= MaxUid => Stores(c[n], t, f, batch, n)}
<1>. HIDE DEF c
<1>8. MaxUid \in Nat
  BY MailboxAssumption
<1>9. 0 \in H
  BY <1>7, <1>8, StoresNothing
<1>10. ASSUME NEW n \in Nat, n \in H PROVE n + 1 \in H
  <2>1. SUFFICES ASSUME n + 1 <= MaxUid PROVE Stores(c[n + 1], t, f, batch, n + 1)
    OBVIOUS
  <2>2. Stores(c[n], t, f, batch, n)
    BY <1>8, <1>10, <2>1
  <2>3. c[n + 1] = Stored(c[n], f, batch, n + 1)
    BY <1>7, <1>8, <2>1
  <2>. QED
    BY <2>2, <2>3, StoresNext
<1>11. \A n \in Nat : n \in H
  <2>. HIDE DEF H
  <2>. QED
    BY <1>9, <1>10, InductionOn
<1>. QED
  BY <1>6, <1>8, <1>11

-----------------------------------------------------------------------------
(* Steps that change rows where they are                                   *)

\* Rows that stay in their folder and take no new UID are a table as before.
LEMMA RowsInPlace ==
    ASSUME NEW t, Table(t), NEW s, DOMAIN s = DOMAIN t, s = [i \in DOMAIN t |-> s[i]],
           \A i \in DOMAIN t : /\ s[i] \in Row /\ s[i].folder = t[i].folder
                               /\ s[i].uid \in {t[i].uid, Null}
    PROVE  Table(s) /\ Len(s) = Len(t)
<1>1. t \in Seq(Row) /\ UidsAreUnique(t)
  BY DEF Table
<1>2. DOMAIN t = 1 .. Len(t) /\ Len(t) \in Nat
  BY <1>1
<1>3. s \in [1 .. Len(t) -> Row]
  BY <1>2
<1>4. s \in Seq(Row)
  BY <1>2, <1>3
<1>5. Len(s) = Len(t)
  BY <1>2, <1>4
<1>6. UidsAreUnique(s)
  BY <1>1 DEF UidsAreUnique
<1>. QED
  BY <1>4, <1>5, <1>6 DEF Table

LEMMA DetachedTable ==
    ASSUME NEW t, Table(t), NEW f
    PROVE  LET s == Detached(t, f)
           IN  /\ Table(s) /\ DOMAIN s = DOMAIN t
               /\ \A g : g # f => SameRows(t, s, g)
               /\ \A i \in DOMAIN t : s[i] = IF t[i].folder = f THEN [t[i] EXCEPT !.uid = Null] ELSE t[i]
               /\ \A i \in DOMAIN t : /\ s[i].folder = t[i].folder /\ s[i].letter = t[i].letter
                                      /\ s[i].uid = IF t[i].folder = f THEN Null ELSE t[i].uid
<1>. DEFINE s == Detached(t, f)
<1>1. t \in Seq(Row)
  BY DEF Table
<1>2. /\ DOMAIN s = DOMAIN t /\ s = [i \in DOMAIN t |-> s[i]]
      /\ \A i \in DOMAIN t : s[i] = IF t[i].folder = f THEN [t[i] EXCEPT !.uid = Null] ELSE t[i]
  BY DEF Detached
<1>. HIDE DEF s
<1>3. ASSUME NEW i \in DOMAIN t
      PROVE  /\ s[i] \in Row /\ s[i].folder = t[i].folder /\ s[i].letter = t[i].letter
             /\ s[i].uid = IF t[i].folder = f THEN Null ELSE t[i].uid
  <2>1. t[i] \in Row
    BY <1>1
  <2>2. \A r \in Row : LET d == [r EXCEPT !.uid = Null]
                       IN /\ d \in Row /\ d.folder = r.folder /\ d.letter = r.letter
                          /\ d.uid = Null
    BY DEF Row
  <2>. QED
    BY <1>2, <2>1, <2>2
<1>4. Table(s)
  BY <1>2, <1>3, RowsInPlace
<1>5. \A g : g # f => SameRows(t, s, g)
  BY <1>2, <1>3 DEF SameRows, RowsOf
<1>. QED
  BY <1>2, <1>3, <1>4, <1>5 DEF s

Vanished == IF sync.full THEN sync.local \ DOMAIN sync.scanned ELSE {}
Known == DOMAIN sync.scanned \cap sync.local

LEMMA ConcludedTable ==
    ASSUME NEW t, Table(t), sync \in SyncStates
    PROVE  LET s == Concluded(t)
               f == sync.folder
           IN  /\ Table(s) /\ DOMAIN s = DOMAIN t
               /\ \A g : g # f => SameRows(t, s, g)
               /\ \A i \in DOMAIN t : /\ s[i].folder = t[i].folder /\ s[i].letter = t[i].letter
                                      /\ s[i].uid = t[i].uid
               /\ \A i \in RowsOf(t, f) :
                    /\ t[i].uid \in Known => s[i].flags = sync.scanned[t[i].uid] /\ ~s[i].gone
                    /\ t[i].uid \in Vanished => s[i].gone
                    /\ t[i].uid \notin Known \cup Vanished => s[i] = t[i]
<1>. DEFINE s == Concluded(t)
            f == sync.folder
<1>1. t \in Seq(Row)
  BY DEF Table
<1>2. /\ DOMAIN s = DOMAIN t /\ s = [i \in DOMAIN t |-> s[i]]
      /\ \A i \in DOMAIN t : s[i] = IF t[i].folder # f THEN t[i]
              ELSE IF t[i].uid \in Known
                   THEN [t[i] EXCEPT !.flags = sync.scanned[t[i].uid], !.gone = FALSE]
              ELSE IF t[i].uid \in Vanished THEN [t[i] EXCEPT !.gone = TRUE]
              ELSE t[i]
  BY DEF Concluded, Known, Vanished
<1>. HIDE DEF s
<1>3. Known \cap Vanished = {}
  BY DEF Known, Vanished
<1>4. \A u \in Known : sync.scanned[u] \in SUBSET Flags
  BY DEF SyncStates, FlagLists, Known
<1>5. ASSUME NEW i \in DOMAIN t
      PROVE  /\ s[i] \in Row /\ s[i].folder = t[i].folder /\ s[i].letter = t[i].letter
             /\ s[i].uid = t[i].uid
             /\ i \in RowsOf(t, f) =>
                  /\ t[i].uid \in Known => s[i].flags = sync.scanned[t[i].uid] /\ ~s[i].gone
                  /\ t[i].uid \in Vanished => s[i].gone
                  /\ t[i].uid \notin Known \cup Vanished => s[i] = t[i]
  <2>1. t[i] \in Row
    BY <1>1
  <2>3. \A r \in Row :
            LET d == [r EXCEPT !.gone = TRUE]
            IN /\ d \in Row /\ d.folder = r.folder /\ d.letter = r.letter
               /\ d.uid = r.uid /\ d.gone
    BY DEF Row
  <2>4. CASE t[i].folder # f
    BY <1>2, <2>1, <2>4 DEF RowsOf
  <2>5. CASE t[i].folder = f /\ t[i].uid \in Known
    <3>1. s[i] = [t[i] EXCEPT !.flags = sync.scanned[t[i].uid], !.gone = FALSE]
      BY <1>2, <2>5
    <3>2. sync.scanned[t[i].uid] \in SUBSET Flags
      BY <1>4, <2>5
    <3>3. s[i] \in Row /\ s[i].folder = t[i].folder /\ s[i].letter = t[i].letter
          /\ s[i].uid = t[i].uid /\ s[i].flags = sync.scanned[t[i].uid] /\ ~s[i].gone
      BY <2>1, <3>1, <3>2 DEF Row
    <3>4. t[i].uid \notin Vanished
      BY <1>3, <2>5
    <3>. QED
      BY <2>5, <3>3, <3>4
  <2>6. CASE t[i].folder = f /\ t[i].uid \notin Known /\ t[i].uid \in Vanished
    <3>1. s[i] = [t[i] EXCEPT !.gone = TRUE]
      BY <1>2, <2>6
    <3>. QED
      BY <2>1, <2>3, <2>6, <3>1
  <2>7. CASE t[i].folder = f /\ t[i].uid \notin Known /\ t[i].uid \notin Vanished
    BY <1>2, <2>1, <2>7
  <2>. QED
    BY <2>4, <2>5, <2>6, <2>7
<1>6. Table(s)
  BY <1>2, <1>5, RowsInPlace
<1>7. \A g : g # f => SameRows(t, s, g)
  BY <1>2, <1>5 DEF SameRows, RowsOf
<1>8. RowsOf(t, f) \subseteq DOMAIN t
  BY DEF RowsOf
<1>9. \A i \in RowsOf(t, f) :
        /\ t[i].uid \in Known => s[i].flags = sync.scanned[t[i].uid] /\ ~s[i].gone
        /\ t[i].uid \in Vanished => s[i].gone
        /\ t[i].uid \notin Known \cup Vanished => s[i] = t[i]
  BY <1>5, <1>8
<1>. QED
  BY <1>2, <1>5, <1>6, <1>7, <1>9 DEF s

-----------------------------------------------------------------------------
(* Folders on the server                                                   *)

LEMMA Mailbox ==
    ASSUME NEW b \in Mailboxes
    PROVE  /\ DOMAIN b \in SUBSET Uids /\ b = [u \in DOMAIN b |-> b[u]]
           /\ \A u \in DOMAIN b : /\ b[u] \in Mail
                                  /\ b[u].letter \in Letters /\ b[u].flags \in SUBSET Flags
BY DEF Mailboxes, Mail

LEMMA IsMailbox ==
    ASSUME NEW b, DOMAIN b \in SUBSET Uids, b = [u \in DOMAIN b |-> b[u]],
           \A u \in DOMAIN b : b[u] \in Mail
    PROVE  b \in Mailboxes
<1>1. b \in [DOMAIN b -> Mail]
  OBVIOUS
<1>. QED
  BY <1>1 DEF Mailboxes

LEMMA WithMail ==
    ASSUME NEW b \in Mailboxes, NEW u \in Uids, NEW m \in Mail
    PROVE  /\ With(b, u, m) \in Mailboxes /\ DOMAIN With(b, u, m) = DOMAIN b \cup {u}
           /\ With(b, u, m)[u] = m /\ \A v \in DOMAIN b \ {u} : With(b, u, m)[v] = b[v]
<1>. DEFINE c == With(b, u, m)
<1>1. /\ DOMAIN c = DOMAIN b \cup {u} /\ c = [v \in DOMAIN c |-> c[v]]
      /\ c[u] = m /\ \A v \in DOMAIN b \ {u} : c[v] = b[v]
  BY DEF With
<1>. HIDE DEF c
<1>2. c \in Mailboxes
  BY <1>1, Mailbox, IsMailbox
<1>. QED
  BY <1>1, <1>2 DEF c

LEMMA WithoutMail ==
    ASSUME NEW b \in Mailboxes, NEW u
    PROVE  /\ Without(b, u) \in Mailboxes /\ DOMAIN Without(b, u) = DOMAIN b \ {u}
           /\ \A v \in DOMAIN b \ {u} : Without(b, u)[v] = b[v]
<1>. DEFINE c == Without(b, u)
<1>1. /\ DOMAIN c = DOMAIN b \ {u} /\ c = [v \in DOMAIN c |-> c[v]]
      /\ \A v \in DOMAIN b \ {u} : c[v] = b[v]
  BY DEF Without
<1>. HIDE DEF c
<1>2. c \in Mailboxes
  BY <1>1, Mailbox, IsMailbox
<1>. QED
  BY <1>1, <1>2 DEF c

LEMMA OnlyMail ==
    ASSUME NEW b \in Mailboxes, NEW us
    PROVE  /\ Only(b, us) \in Mailboxes /\ DOMAIN Only(b, us) = DOMAIN b \cap us
           /\ \A v \in DOMAIN b \cap us : Only(b, us)[v] = b[v]
<1>. DEFINE c == Only(b, us)
<1>1. /\ DOMAIN c = DOMAIN b \cap us /\ c = [v \in DOMAIN c |-> c[v]]
      /\ \A v \in DOMAIN b \cap us : c[v] = b[v]
  BY DEF Only
<1>. HIDE DEF c
<1>2. c \in Mailboxes
  BY <1>1, Mailbox, IsMailbox
<1>. QED
  BY <1>1, <1>2 DEF c

LEMMA FlaggedMail ==
    ASSUME NEW b \in Mailboxes, NEW u \in DOMAIN b, NEW fl \in SUBSET Flags
    PROVE  LET c == [b EXCEPT ![u].flags = fl]
           IN  /\ c \in Mailboxes /\ DOMAIN c = DOMAIN b
               /\ \A v \in DOMAIN b : c[v].letter = b[v].letter
<1>. DEFINE c == [b EXCEPT ![u].flags = fl]
<1>1. /\ DOMAIN c = DOMAIN b /\ c = [v \in DOMAIN c |-> c[v]]
      /\ \A v \in DOMAIN b : c[v] = IF v = u THEN [b[v] EXCEPT !.flags = fl] ELSE b[v]
  OBVIOUS
<1>. HIDE DEF c
<1>2. ASSUME NEW v \in DOMAIN b PROVE c[v] \in Mail /\ c[v].letter = b[v].letter
  <2>1. b[v] \in Mail
    BY Mailbox
  <2>2. [b[v] EXCEPT !.flags = fl] \in Mail /\ [b[v] EXCEPT !.flags = fl].letter = b[v].letter
    BY <2>1 DEF Mail
  <2>. QED
    BY <1>1, <2>1, <2>2
<1>3. DOMAIN c \in SUBSET Uids
  BY <1>1, Mailbox
<1>4. c \in Mailboxes
  BY <1>1, <1>2, <1>3, IsMailbox
<1>. QED
  BY <1>1, <1>2, <1>4 DEF c

\* A set of UIDs is finite, and has an element of every rank.
LEMMA Ranks ==
    ASSUME NEW us \in SUBSET Uids
    PROVE  /\ IsFiniteSet(us) /\ Cardinality(us) \in 0 .. MaxUid
           /\ \A n \in 1 .. Cardinality(us) :
                \E u \in us : Cardinality({v \in us : v <= u}) = n
<1>. DEFINE upto(m) == {v \in us : v <= m}
<1>1. MaxUid \in Nat /\ \A u \in us : u \in Nat /\ u >= 1 /\ u <= MaxUid
  BY MailboxAssumption DEF Uids
<1>2. IsFiniteSet(Uids) /\ Cardinality(Uids) = MaxUid
  BY <1>1, FS_Interval DEF Uids
<1>3. IsFiniteSet(us) /\ Cardinality(us) \in 0 .. MaxUid
  <2>1. IsFiniteSet(us) /\ Cardinality(us) <= Cardinality(Uids)
    BY <1>2, FS_Subset
  <2>2. Cardinality(us) \in Nat
    BY <2>1, FS_CardinalityType
  <2>. QED
    BY <1>1, <1>2, <2>1, <2>2
<1>4. ASSUME NEW m PROVE IsFiniteSet(upto(m)) /\ Cardinality(upto(m)) \in Nat
  <2>1. upto(m) \in SUBSET us
    OBVIOUS
  <2>. QED
    BY <1>3, <2>1, FS_Subset, FS_CardinalityType
<1>5. ASSUME NEW n \in 1 .. Cardinality(us) PROVE \E u \in us : Cardinality(upto(u)) = n
  <2>. DEFINE T == {m \in Nat : Cardinality(upto(m)) >= n}
  <2>1. upto(MaxUid) = us
    BY <1>1
  <2>2. MaxUid \in T
    BY <1>1, <1>3, <2>1
  <2>3. PICK m \in T : \A k \in T : m <= k
    BY <2>2, LeastOf
  <2>4. Cardinality(upto(m)) >= n /\ m \in Nat
    BY <2>3
  <2>5. m # 0
    <3>1. upto(0) = {}
      BY <1>1
    <3>2. Cardinality(upto(0)) = 0
      BY <3>1, FS_EmptySet
    <3>. HIDE DEF upto
    <3>. QED
      BY <2>4, <3>2
  <2>6. Cardinality(upto(m - 1)) < n
    <3>1. m - 1 \in Nat /\ m - 1 \notin T
      BY <2>3, <2>4, <2>5
    <3>2. Cardinality(upto(m - 1)) \in Nat
      BY <1>4
    <3>. HIDE DEF upto
    <3>. QED
      BY <3>1, <3>2
  <2>7. m \in us
    <3>1. SUFFICES ASSUME m \notin us PROVE FALSE
      OBVIOUS
    <3>2. upto(m) = upto(m - 1)
      BY <1>1, <2>4, <3>1
    <3>. HIDE DEF upto
    <3>4. Cardinality(upto(m)) \in Nat
      BY <1>4
    <3>. QED
      BY <2>4, <2>6, <3>2, <3>4
  <2>8. upto(m) = upto(m - 1) \cup {m} /\ m \notin upto(m - 1)
    <3>1. \A v \in us : v <= m <=> (v <= m - 1 \/ v = m)
      BY <1>1, <2>4
    <3>2. m <= m /\ ~(m <= m - 1)
      BY <2>4
    <3>. QED
      BY <2>7, <3>1, <3>2
  <2>9. Cardinality(upto(m)) = Cardinality(upto(m - 1)) + 1
    <3>1. IsFiniteSet(upto(m - 1))
      BY <1>4
    <3>. HIDE DEF upto
    <3>. QED
      BY <2>8, <3>1, FS_AddElement
  <2>10. Cardinality(upto(m)) \in Nat /\ Cardinality(upto(m - 1)) \in Nat
    BY <1>4
  <2>. HIDE DEF upto
  <2>. QED
    BY <2>4, <2>6, <2>7, <2>9, <2>10
<1>. QED
  BY <1>3, <1>5

-----------------------------------------------------------------------------
(* Steps as the parts of the invariant see them                            *)

LEMMA Bounds ==
    /\ Trash \in Folders /\ Sent \in Folders /\ "seen" \in Flags
    /\ MaxUid \in Nat /\ MaxValidity \in Nat \ {0} /\ MaxEvents \in Nat
    /\ Uids = 1 .. MaxUid /\ Null = 0 /\ Null \notin Uids
BY MailboxAssumption DEF Uids, Null

\* The server gives every UID to one letter, as long as it does not rebuild the folder.
Onward ==
    \A g \in Folders :
        /\ validity[g] <= validity'[g]
        /\ validity'[g] = validity[g] =>
            /\ uidNext[g] <= uidNext'[g]
            /\ \A u \in DOMAIN box'[g] :
                 u < uidNext[g] => u \in DOMAIN box[g] /\ box'[g][u].letter = box[g][u].letter

\* No row is lost or gets another letter, unless it is crossed.
Kept ==
    /\ DOMAIN rows \subseteq DOMAIN rows' /\ crossed \subseteq crossed'
    /\ \A i \in DOMAIN rows \ crossed : SameLetter(rows[i].letter, rows'[i].letter)

LEMMA SameServerIsOnward ==
    ASSUME ServerOK, UNCHANGED server
    PROVE  Onward
BY DEF ServerOK, Onward, server

LEMMA SameRowsAreKept ==
    ASSUME UNCHANGED <<rows, crossed>>
    PROVE  Kept
BY SameLetterIsEquivalence DEF Kept

\* What a UID leads to after a step.
LeadsNext(g, u, k) == u < uidNext'[g] /\ (u \in DOMAIN box'[g] => SameLetter(k, box'[g][u].letter))

\* What a UID leads to it leads to later, too.
LEMMA StillLeads ==
    ASSUME ServerOK, ServerOK', Onward
    PROVE  \A g \in Folders, u \in Uids : \A l, k :
             validity'[g] = validity[g] /\ Leads(g, u, l) /\ SameLetter(l, k) => LeadsNext(g, u, k)
<1>1. SUFFICES ASSUME NEW g \in Folders, NEW u \in Uids, NEW l, NEW k,
                      validity'[g] = validity[g], Leads(g, u, l), SameLetter(l, k)
               PROVE  LeadsNext(g, u, k)
  OBVIOUS
<1>2. u \in Nat /\ uidNext[g] \in Nat /\ uidNext'[g] \in Nat
  BY Bounds DEF ServerOK
<1>3. u < uidNext[g] /\ (u \in DOMAIN box[g] => SameLetter(l, box[g][u].letter))
  BY <1>1 DEF Leads
<1>4. u < uidNext'[g]
  BY <1>1, <1>2, <1>3 DEF Onward
<1>5. u \in DOMAIN box'[g] => SameLetter(k, box'[g][u].letter)
  BY <1>1, <1>3, SameLetterIsEquivalence DEF Onward
<1>. QED
  BY <1>4, <1>5 DEF LeadsNext

\* A request that a step leaves alone.
LEMMA RequestStays ==
    ASSUME TypesOK, TruthOK, ServerOK', Onward, Kept, NEW r \in Requests, req'[r] = req[r]
    PROVE  RequestIsOK(req[r])' /\ RequestIsTrue(req[r])'
<1>1. RequestIsOK(req[r]) /\ RequestIsTrue(req[r])
  BY DEF TypesOK, RequestsOK, TruthOK
<1>2. PICK q : q = req[r] /\ q = req'[r]
  OBVIOUS
<1>3. /\ q.from \in Folders /\ q.to \in Folders /\ Sent \in Folders
      /\ q.known \in 0 .. validity[q.from] /\ q.under \in 0 .. validity[q.to]
      /\ q.uid \in Uids \cup {Null} /\ q.given \in Uids \cup {Null}
      /\ q.kind \notin {"none", "append"} => q.row \in DOMAIN rows
      /\ q.kind = "append" => q.to = Sent
  BY <1>1, <1>2, Bounds DEF RequestIsOK
<1>4. /\ \A g \in Folders : validity[g] \in Nat /\ validity'[g] \in Nat /\ validity[g] <= validity'[g]
  BY DEF TypesOK, ServerOK, Onward
<1>5. RequestIsOK(req[r])'
  BY <1>1, <1>2, <1>3, <1>4 DEF RequestIsOK, Kept
<1>6. /\ q.stage = "asked" /\ q.kind \in {"move", "remove"} /\ q.uid # Null
              /\ q.known = validity[q.from] /\ q.row \notin crossed =>
          Leads(q.from, q.uid, rows[q.row].letter)
      /\ q.stage = "answered" /\ q.kind \in {"move", "remove"} /\ q.given # Null
              /\ ~q.astray /\ q.under = validity[q.to] /\ q.row \notin crossed =>
          Leads(q.to, q.given, rows[q.row].letter)
      /\ q.stage = "answered" /\ q.kind = "append" /\ q.given # Null /\ q.under = validity[Sent] =>
          Leads(Sent, q.given, q.letter)
  BY <1>1, <1>2 DEF RequestIsTrue
<1>7. \A g \in Folders, u \in Uids : \A l, k :
        validity'[g] = validity[g] /\ Leads(g, u, l) /\ SameLetter(l, k) => LeadsNext(g, u, k)
  BY StillLeads DEF TypesOK
<1>8. q.row \in DOMAIN rows /\ q.row \notin crossed' =>
        q.row \notin crossed /\ SameLetter(rows[q.row].letter, rows'[q.row].letter)
  BY DEF Kept
<1>9. ASSUME q.stage = "asked", q.kind \in {"move", "remove"}, q.uid # Null,
             q.known = validity'[q.from], q.row \notin crossed'
      PROVE  LeadsNext(q.from, q.uid, rows'[q.row].letter)
  <2>1. q.known = validity[q.from] /\ validity'[q.from] = validity[q.from]
    BY <1>3, <1>4, <1>9
  <2>. QED
    BY <1>3, <1>6, <1>7, <1>8, <1>9, <2>1
<1>10. ASSUME q.stage = "answered", q.kind \in {"move", "remove"}, q.given # Null,
              ~q.astray, q.under = validity'[q.to], q.row \notin crossed'
       PROVE  LeadsNext(q.to, q.given, rows'[q.row].letter)
  <2>1. q.under = validity[q.to] /\ validity'[q.to] = validity[q.to]
    BY <1>3, <1>4, <1>10
  <2>. QED
    BY <1>3, <1>6, <1>7, <1>8, <1>10, <2>1
<1>11. ASSUME q.stage = "answered", q.kind = "append", q.given # Null, q.under = validity'[Sent]
       PROVE  LeadsNext(Sent, q.given, q.letter)
  <2>1. q.under = validity[Sent] /\ validity'[Sent] = validity[Sent]
    BY <1>3, <1>4, <1>11
  <2>. QED
    BY <1>3, <1>6, <1>7, <1>11, <2>1, SameLetterIsEquivalence
<1>12. RequestIsTrue(req[r])'
  BY <1>2, <1>9, <1>10, <1>11 DEF RequestIsTrue, Leads, LeadsNext
<1>. QED
  BY <1>5, <1>12

-----------------------------------------------------------------------------
(* Steps that do not concern the folder of a round                         *)

\* What QuietRoundRepairs says of one folder.
Repaired(f) ==
    /\ ReadsAll(f) \/ Shown(f) \cap crossed = {} =>
          /\ ShownUids(f) = DOMAIN box[f]
          /\ \A i \in Shown(f) \ crossed : SameLetter(rows[i].letter, box[f][rows[i].uid].letter)
    /\ ReadsAll(f) => \A i \in Shown(f) : rows[i].flags = box[f][rows[i].uid].flags

LEMMA RepairsFolders == QuietRoundRepairs <=> \A f \in Folders : Settled(f) => Repaired(f)
BY DEF QuietRoundRepairs, Repaired, Shown, ShownUids

SameView(g) == box'[g] = box[g] /\ uidNext'[g] = uidNext[g] /\ SameRows(rows, rows', g)

\* A folder that is as it was.
LEMMA ViewStays ==
    ASSUME NEW g, SameView(g), crossed \subseteq crossed'
    PROVE  /\ ReadsAll(g)' <=> ReadsAll(g)
           /\ UidsOf(rows, g)' = UidsOf(rows, g)
           /\ Shown(g)' = Shown(g) /\ ShownUids(g)' = ShownUids(g)
           /\ Repaired(g) => Repaired(g)'
           /\ sync' = sync /\ PartIsEnough(g) => PartIsEnough(g)'
<1>1. box'[g] = box[g] /\ uidNext'[g] = uidNext[g] /\ SameRows(rows, rows', g)
  BY DEF SameView
<1>2. ReadsAll(g)' <=> ReadsAll(g)
  BY <1>1 DEF ReadsAll, HasUidGap
<1>3. UidsOf(rows, g)' = UidsOf(rows, g) /\ Shown(g)' = Shown(g)
  BY <1>1, SameFolder DEF Shown
<1>4. \A i \in Shown(g) : rows'[i] = rows[i]
  BY <1>1 DEF Shown, LiveRows, SameRows
<1>5. ShownUids(g)' = ShownUids(g)
  BY <1>3, <1>4 DEF ShownUids
<1>6. Repaired(g) => Repaired(g)'
  BY <1>1, <1>2, <1>3, <1>4, <1>5 DEF Repaired
<1>7. sync' = sync /\ PartIsEnough(g) => PartIsEnough(g)'
  BY <1>1, <1>2, <1>3, <1>5 DEF PartIsEnough
<1>. QED
  BY <1>2, <1>3, <1>5, <1>6, <1>7

\* The folders that stay quiet are as they were, and a round goes on or is broken off.
Aside ==
    /\ \A g \in quiet' : g \in quiet /\ SameView(g)
    /\ crossed \subseteq crossed' /\ cursor' = cursor
    /\ \/ sync' = sync
       \/ sync' = NoSync /\ (sync.stage # "idle" => sync.folder \notin quiet')

LEMMA AsideKeepsRounds ==
    ASSUME TypesOK, CursorOK, QuietRound, QuietRoundRepairs, Aside, ServerOK', Onward,
           \A g \in quiet' : validity'[g] = validity[g]
    PROVE  QuietRound' /\ QuietRoundRepairs' /\ CursorOK'
<1>1. ASSUME NEW g \in Folders, Settled(g)' PROVE Settled(g) /\ g \in quiet'
  <2>1. g \in quiet' /\ g \in quiet
    BY <1>1 DEF Settled, Aside
  <2>2. ~InRound(g)
    BY <1>1, <2>1 DEF Settled, InRound, Aside
  <2>. QED
    BY <2>1, <2>2 DEF Settled
<1>2. QuietRoundRepairs'
  <2>1. ASSUME NEW g \in Folders, Settled(g)' PROVE Repaired(g)'
    BY <1>1, <2>1, ViewStays, RepairsFolders DEF Aside
  <2>. QED
    BY <2>1 DEF QuietRoundRepairs, Repaired, Shown, ShownUids
<1>3. CursorOK'
  <2>1. ASSUME NEW g \in Folders
        PROVE  cursor'[g] <= validity'[g] /\ (Settled(g)' => cursor'[g] = validity'[g])
    <3>1. cursor[g] \in Nat /\ validity[g] \in Nat /\ validity'[g] \in Nat /\ validity[g] <= validity'[g]
          /\ cursor[g] <= validity[g] /\ cursor' = cursor
      BY DEF TypesOK, ServerOK, TableOK, Onward, CursorOK, Aside
    <3>2. Settled(g)' => cursor[g] = validity[g] /\ validity'[g] = validity[g]
      BY <1>1 DEF CursorOK
    <3>. QED
      BY <3>1, <3>2
  <2>. QED
    BY <2>1 DEF CursorOK
<1>4. QuietRound'
  <2>1. CASE sync' = NoSync
    BY <2>1 DEF QuietRound, NoSync
  <2>2. CASE sync' = sync
    <3>1. PICK f : f = sync.folder /\ f = sync'.folder
      BY <2>2
    <3>2. CASE f \notin quiet'
      BY <3>1, <3>2 DEF QuietRound
    <3>3. CASE f \in quiet'
      <4>1. /\ f \in quiet /\ SameView(f) /\ crossed \subseteq crossed'
        BY <3>3 DEF Aside
      <4>2. /\ UidsOf(rows, f)' = UidsOf(rows, f) /\ (PartIsEnough(f) => PartIsEnough(f)')
        BY <2>2, <4>1, ViewStays
      <4>3. /\ box'[f] = box[f] /\ uidNext'[f] = uidNext[f] /\ RowsOf(rows, f)' = RowsOf(rows, f)
            /\ \A i \in RowsOf(rows, f) : rows'[i] = rows[i]
        BY <4>1 DEF SameView, SameRows
      <4>. QED
        BY <2>2, <3>1, <4>1, <4>2, <4>3 DEF QuietRound
    <3>. QED
      BY <3>2, <3>3
  <2>. QED
    BY <2>1, <2>2 DEF Aside
<1>. QED
  BY <1>2, <1>3, <1>4

\* A row that keeps its place and its letter.
RowIsTrue(i) ==
    rows[i].uid # Null /\ Current(rows[i].folder) => Leads(rows[i].folder, rows[i].uid, rows[i].letter)

LEMMA RowStays ==
    ASSUME TypesOK, RowsAreTrue, ServerOK', Onward, NEW i \in DOMAIN rows \ crossed,
           rows'[i].folder = rows[i].folder, rows'[i].uid \in {rows[i].uid, Null},
           SameLetter(rows[i].letter, rows'[i].letter),
           Current(rows[i].folder)' =>
               Current(rows[i].folder) /\ validity'[rows[i].folder] = validity[rows[i].folder]
    PROVE  RowIsTrue(i)'
<1>1. PICK g, u, l : g = rows[i].folder /\ u = rows[i].uid /\ l = rows[i].letter
  OBVIOUS
<1>2. PICK k : k = rows'[i].letter
  OBVIOUS
<1>3. i \in DOMAIN rows /\ rows \in Seq(Row)
  BY DEF TypesOK, TableOK, Table
<1>4. g \in Folders /\ u \in Uids \cup {Null}
  BY <1>1, <1>3, TableDomain
<1>5. SUFFICES ASSUME rows'[i].uid # Null, Current(rows[i].folder)'
               PROVE  RowIsTrue(i)'
  BY DEF RowIsTrue
<1>6. u \in Uids /\ rows'[i].uid = u /\ rows'[i].folder = g
  BY <1>1, <1>4, <1>5
<1>7. Current(g) /\ validity'[g] = validity[g]
  BY <1>1, <1>5
<1>8. Leads(g, u, l)
  BY <1>1, <1>6, <1>7, Bounds DEF RowsAreTrue
<1>9. LeadsNext(g, u, k)
  BY <1>1, <1>2, <1>4, <1>6, <1>7, <1>8, StillLeads DEF TypesOK
<1>. QED
  BY <1>2, <1>6, <1>9 DEF RowIsTrue, Leads, LeadsNext

-----------------------------------------------------------------------------
(* The server and its other clients                                        *)

\* A folder that is not rebuilt.
GoesOn(g) ==
    /\ box'[g] \in Mailboxes /\ uidNext'[g] \in uidNext[g] .. MaxUid + 1
    /\ DOMAIN box'[g] \subseteq 1 .. (uidNext'[g] - 1)
    /\ \A u \in DOMAIN box'[g] :
         u < uidNext[g] => u \in DOMAIN box[g] /\ box'[g][u].letter = box[g][u].letter

LEMMA ServerGoesOn ==
    ASSUME ServerOK, DOMAIN box' = Folders, box' = [g \in Folders |-> box'[g]],
           DOMAIN uidNext' = Folders, uidNext' = [g \in Folders |-> uidNext'[g]],
           validity' = validity, \A g \in Folders : GoesOn(g)
    PROVE  ServerOK' /\ Onward
<1>1. \A g \in Folders : uidNext[g] \in 1 .. MaxUid + 1 /\ validity[g] \in 1 .. MaxValidity
  BY DEF ServerOK
<1>2. \A g \in Folders : uidNext'[g] \in 1 .. MaxUid + 1 /\ uidNext[g] <= uidNext'[g]
  BY <1>1, Bounds DEF GoesOn
<1>3. box' \in [Folders -> Mailboxes]
  BY DEF GoesOn
<1>4. uidNext' \in [Folders -> 1 .. MaxUid + 1]
  BY <1>2
<1>5. ServerOK'
  BY <1>3, <1>4 DEF ServerOK, GoesOn
<1>6. Onward
  BY <1>1, <1>2 DEF Onward, GoesOn
<1>. QED
  BY <1>5, <1>6

LEMMA UntouchedGoesOn ==
    ASSUME ServerOK, NEW g \in Folders, box'[g] = box[g], uidNext'[g] = uidNext[g]
    PROVE  GoesOn(g)
BY Bounds DEF ServerOK, GoesOn

LEMMA ReceivingGoesOn ==
    ASSUME ServerOK, NEW g \in Folders, NEW m \in Mail, uidNext[g] <= MaxUid,
           box'[g] = With(box[g], uidNext[g], m), uidNext'[g] = uidNext[g] + 1
    PROVE  GoesOn(g)
<1>1. box[g] \in Mailboxes /\ uidNext[g] \in 1 .. MaxUid + 1 /\ DOMAIN box[g] \subseteq 1 .. (uidNext[g] - 1)
  BY DEF ServerOK
<1>2. uidNext[g] \in Uids
  BY <1>1, Bounds
<1>3. /\ box'[g] \in Mailboxes /\ DOMAIN box'[g] = DOMAIN box[g] \cup {uidNext[g]}
      /\ \A v \in DOMAIN box[g] \ {uidNext[g]} : box'[g][v] = box[g][v]
  <2>1. \A b \in Mailboxes, u \in Uids :
          /\ With(b, u, m) \in Mailboxes /\ DOMAIN With(b, u, m) = DOMAIN b \cup {u}
          /\ \A v \in DOMAIN b \ {u} : With(b, u, m)[v] = b[v]
    BY WithMail
  <2>2. /\ With(box[g], uidNext[g], m) \in Mailboxes
        /\ DOMAIN With(box[g], uidNext[g], m) = DOMAIN box[g] \cup {uidNext[g]}
        /\ \A v \in DOMAIN box[g] \ {uidNext[g]} : With(box[g], uidNext[g], m)[v] = box[g][v]
    BY ONLY <1>1, <1>2, <2>1
  <2>. QED
    BY <2>2
<1>4. uidNext'[g] \in uidNext[g] .. MaxUid + 1 /\ DOMAIN box'[g] \subseteq 1 .. (uidNext'[g] - 1)
  BY <1>1, <1>3, Bounds
<1>5. \A u \in DOMAIN box'[g] :
         u < uidNext[g] => u \in DOMAIN box[g] /\ box'[g][u].letter = box[g][u].letter
  BY <1>1, <1>3
<1>. QED
  BY <1>3, <1>4, <1>5 DEF GoesOn

LEMMA LosingGoesOn ==
    ASSUME ServerOK, NEW g \in Folders, NEW u, box'[g] = Without(box[g], u), uidNext'[g] = uidNext[g]
    PROVE  GoesOn(g)
<1>1. box[g] \in Mailboxes /\ uidNext[g] \in 1 .. MaxUid + 1 /\ DOMAIN box[g] \subseteq 1 .. (uidNext[g] - 1)
  BY DEF ServerOK
<1>2. /\ box'[g] \in Mailboxes /\ DOMAIN box'[g] = DOMAIN box[g] \ {u}
      /\ \A v \in DOMAIN box[g] \ {u} : box'[g][v] = box[g][v]
  <2>1. \A b \in Mailboxes :
          /\ Without(b, u) \in Mailboxes /\ DOMAIN Without(b, u) = DOMAIN b \ {u}
          /\ \A v \in DOMAIN b \ {u} : Without(b, u)[v] = b[v]
    BY WithoutMail
  <2>. QED
    BY <1>1, <2>1
<1>. QED
  BY <1>1, <1>2, Bounds DEF GoesOn

LEMMA FlaggingGoesOn ==
    ASSUME ServerOK, NEW g \in Folders, NEW u \in DOMAIN box[g], NEW fl \in SUBSET Flags,
           box'[g] = [box[g] EXCEPT ![u].flags = fl], uidNext'[g] = uidNext[g]
    PROVE  GoesOn(g)
<1>1. box[g] \in Mailboxes /\ uidNext[g] \in 1 .. MaxUid + 1 /\ DOMAIN box[g] \subseteq 1 .. (uidNext[g] - 1)
  BY DEF ServerOK
<1>2. /\ box'[g] \in Mailboxes /\ DOMAIN box'[g] = DOMAIN box[g]
      /\ \A v \in DOMAIN box[g] : box'[g][v].letter = box[g][v].letter
  <2>1. PICK b \in Mailboxes : b = box[g]
    BY <1>1
  <2>2. box'[g] = [b EXCEPT ![u].flags = fl]
    BY <2>1
  <2>. QED
    BY <2>1, <2>2, FlaggedMail
<1>. QED
  BY <1>1, <1>2, Bounds DEF GoesOn

\* A step of the server, and perhaps of the requests.
LEMMA ServerMoves ==
    ASSUME Inv, ServerOK', Onward, NEW S, quiet' = quiet \ S,
           \A g \in Folders \ S : box'[g] = box[g] /\ uidNext'[g] = uidNext[g],
           UNCHANGED <<validity, rows, cursor, unread, sync, crossed, lagging>>,
           events' \in 0 .. MaxEvents, DOMAIN req' = Requests,
           \A r \in Requests : RequestIsOK(req[r])' /\ RequestIsTrue(req[r])'
    PROVE  Inv' /\ Kept
<1>1. TypesOK /\ ServerOK /\ TableOK /\ SyncOK /\ RequestsOK /\ CursorOK /\ RowsAreTrue
      /\ QuietRound /\ QuietRoundRepairs /\ CountsFollowRows
  BY DEF Inv, TypesOK, TruthOK
<1>2. Aside
  BY <1>1 DEF Aside, SameView, SameRows, TableOK
<1>3. QuietRound' /\ QuietRoundRepairs' /\ CursorOK'
  BY <1>1, <1>2, AsideKeepsRounds
<1>4. Kept
  BY SameRowsAreKept
<1>5. TypesOK'
  <2>1. TableOK'
    BY <1>1 DEF TableOK
  <2>2. SyncOK'
    BY <1>1 DEF SyncOK
  <2>3. RequestsOK'
    BY DEF RequestsOK
  <2>. QED
    BY <2>1, <2>2, <2>3 DEF TypesOK
<1>6. RowsAreTrue'
  <2>1. ASSUME NEW i \in DOMAIN rows' \ crossed' PROVE RowIsTrue(i)'
    <3>1. Current(rows[i].folder)' => Current(rows[i].folder)
      BY DEF Current, InRound
    <3>. QED
      BY <1>1, <2>1, <3>1, SameLetterIsEquivalence, RowStays
  <2>. QED
    BY <2>1 DEF RowsAreTrue, RowIsTrue
<1>7. CountsFollowRows'
  BY <1>1 DEF CountsFollowRows, InRound
<1>. QED
  BY <1>3, <1>4, <1>5, <1>6, <1>7 DEF Inv, TruthOK

\* One folder changes on the server, and nothing else.
LEMMA OneFolder ==
    ASSUME Inv, NEW f \in Folders, GoesOn(f),
           box' = [box EXCEPT ![f] = box'[f]], uidNext' = [uidNext EXCEPT ![f] = uidNext'[f]],
           quiet' = quiet \ {f}, events' \in 0 .. MaxEvents,
           UNCHANGED <<validity, rows, cursor, unread, sync, req, crossed, lagging>>
    PROVE  Inv' /\ Kept
<1>1. TypesOK /\ ServerOK /\ TruthOK /\ RequestsOK
  BY DEF Inv, TypesOK
<1>2. DOMAIN box = Folders /\ DOMAIN uidNext = Folders
  BY <1>1 DEF ServerOK
<1>3. \A g \in Folders \ {f} : box'[g] = box[g] /\ uidNext'[g] = uidNext[g]
  BY <1>2
<1>4. \A g \in Folders : GoesOn(g)
  BY <1>1, <1>3, UntouchedGoesOn
<1>5. /\ DOMAIN box' = Folders /\ box' = [g \in Folders |-> box'[g]]
      /\ DOMAIN uidNext' = Folders /\ uidNext' = [g \in Folders |-> uidNext'[g]]
  BY <1>2
<1>6. ServerOK' /\ Onward
  BY <1>1, <1>4, <1>5, ServerGoesOn
<1>7. \A r \in Requests : RequestIsOK(req[r])' /\ RequestIsTrue(req[r])'
  BY <1>1, <1>6, SameRowsAreKept, RequestStays
<1>8. DOMAIN req' = Requests
  BY <1>1 DEF RequestsOK
<1>. QED
  BY <1>3, <1>6, <1>7, <1>8, ServerMoves

LEMMA Arriving ==
    ASSUME Inv, NEW f \in Folders, NEW l \in Letters, Arrives(f, l), events' \in 0 .. MaxEvents
    PROVE  Inv' /\ Kept
<1>1. ServerOK
  BY DEF Inv, TypesOK
<1>. DEFINE m == [letter |-> l, flags |-> {}]
<1>2. m \in Mail
  BY DEF Mail
<1>. HIDE DEF m
<1>3. /\ uidNext[f] <= MaxUid
      /\ box' = [box EXCEPT ![f] = With(box[f], uidNext[f], m)]
      /\ uidNext' = [uidNext EXCEPT ![f] = uidNext[f] + 1]
  BY DEF Arrives, m
<1>4. box'[f] = With(box[f], uidNext[f], m) /\ uidNext'[f] = uidNext[f] + 1
  BY <1>1, <1>3 DEF ServerOK
<1>5. GoesOn(f)
  BY <1>1, <1>2, <1>3, <1>4, ReceivingGoesOn
<1>. QED
  BY <1>3, <1>4, <1>5, OneFolder DEF Arrives

LEMMA FlaggingElsewhere ==
    ASSUME Inv, NEW f \in Folders, IsFlaggedElsewhere(f), events' \in 0 .. MaxEvents
    PROVE  Inv' /\ Kept
<1>1. ServerOK
  BY DEF Inv, TypesOK
<1>2. PICK u \in DOMAIN box[f], flag \in Flags :
        box' = [box EXCEPT ![f][u].flags = (@ \ {flag}) \cup ({flag} \ @)]
  BY DEF IsFlaggedElsewhere
<1>. DEFINE fl == (box[f][u].flags \ {flag}) \cup ({flag} \ box[f][u].flags)
<1>3. box[f] \in Mailboxes
  BY <1>1 DEF ServerOK
<1>4. fl \in SUBSET Flags
  BY <1>2, <1>3, Mailbox
<1>5. box' = [box EXCEPT ![f] = [box[f] EXCEPT ![u].flags = fl]]
  BY <1>2
<1>. HIDE DEF fl
<1>6. box'[f] = [box[f] EXCEPT ![u].flags = fl] /\ uidNext'[f] = uidNext[f]
  BY <1>1, <1>5 DEF ServerOK, IsFlaggedElsewhere
<1>7. GoesOn(f)
  BY <1>1, <1>4, <1>6, FlaggingGoesOn
<1>8. uidNext' = [uidNext EXCEPT ![f] = uidNext'[f]]
  BY <1>1 DEF ServerOK, IsFlaggedElsewhere
<1>. QED
  BY <1>5, <1>6, <1>7, <1>8, OneFolder DEF IsFlaggedElsewhere

LEMMA ExpungingElsewhere ==
    ASSUME Inv, NEW f \in Folders, IsExpungedElsewhere(f), events' \in 0 .. MaxEvents
    PROVE  Inv' /\ Kept
<1>1. ServerOK
  BY DEF Inv, TypesOK
<1>2. PICK u \in DOMAIN box[f] : box' = [box EXCEPT ![f] = Without(box[f], u)]
  BY DEF IsExpungedElsewhere
<1>3. box'[f] = Without(box[f], u) /\ uidNext'[f] = uidNext[f]
  BY <1>1, <1>2 DEF ServerOK, IsExpungedElsewhere
<1>4. GoesOn(f)
  BY <1>1, <1>3, LosingGoesOn
<1>5. uidNext' = [uidNext EXCEPT ![f] = uidNext'[f]]
  BY <1>1 DEF ServerOK, IsExpungedElsewhere
<1>. QED
  BY <1>2, <1>3, <1>4, <1>5, OneFolder DEF IsExpungedElsewhere

\* A folder is rebuilt: what its rows and the requests know of it is out of date.
LEMMA Rebuilding ==
    ASSUME Inv, NEW f \in Folders, IsRebuilt(f), events' \in 0 .. MaxEvents
    PROVE  Inv' /\ Kept
<1>1. /\ TypesOK /\ ServerOK /\ TableOK /\ SyncOK /\ RequestsOK /\ TruthOK /\ CursorOK /\ RowsAreTrue
      /\ QuietRound /\ QuietRoundRepairs /\ CountsFollowRows
  BY DEF Inv, TypesOK, TruthOK
<1>. DEFINE us == DOMAIN box[f]
            place(u) == Cardinality({v \in us : v <= u})
            b == [n \in 1 .. Cardinality(us) |-> box[f][CHOOSE u \in us : place(u) = n]]
<1>2. /\ validity' = [validity EXCEPT ![f] = @ + 1] /\ validity[f] < MaxValidity /\ ~InRound(f)
      /\ box' = [box EXCEPT ![f] = b]
      /\ uidNext' = [uidNext EXCEPT ![f] = Cardinality(us) + 1]
      /\ quiet' = quiet \ {f}
      /\ crossed' = crossed \cup
                   (IF cursor[f] = 0 THEN {i \in RowsOf(rows, f) : rows[i].uid # Null} ELSE {})
      /\ UNCHANGED <<rows, cursor, unread, sync, req, lagging>>
  BY DEF IsRebuilt
<1>3. box[f] \in Mailboxes /\ us \in SUBSET Uids
  BY <1>1, Mailbox DEF ServerOK
<1>4. Cardinality(us) \in 0 .. MaxUid /\ \A n \in 1 .. Cardinality(us) : \E u \in us : place(u) = n
  BY <1>3, Ranks
<1>5. b \in Mailboxes /\ DOMAIN b = 1 .. Cardinality(us)
  <2>1. \A n \in 1 .. Cardinality(us) : b[n] \in Mail
    <3>1. SUFFICES ASSUME NEW n \in 1 .. Cardinality(us) PROVE b[n] \in Mail
      OBVIOUS
    <3>2. (CHOOSE u \in us : place(u) = n) \in us
      <4>. HIDE DEF us, place
      <4>. QED
        BY <1>4
    <3>3. \A u \in us : box[f][u] \in Mail
      BY <1>3, Mailbox
    <3>4. b[n] = box[f][CHOOSE u \in us : place(u) = n]
      OBVIOUS
    <3>. HIDE DEF b, place
    <3>. QED
      BY <3>2, <3>3, <3>4
  <2>2. DOMAIN b = 1 .. Cardinality(us) /\ b = [n \in DOMAIN b |-> b[n]]
    OBVIOUS
  <2>3. 1 .. Cardinality(us) \in SUBSET Uids
    BY <1>4, Bounds
  <2>. HIDE DEF b, place, us
  <2>. QED
    BY <2>1, <2>2, <2>3, IsMailbox
<1>. HIDE DEF b, place
<1>6. \A g \in Folders : /\ validity[g] \in 1 .. MaxValidity /\ uidNext[g] \in 1 .. MaxUid + 1
                         /\ cursor[g] \in Nat /\ cursor[g] <= validity[g]
  BY <1>1 DEF ServerOK, TableOK, CursorOK
<1>7. /\ box'[f] = b /\ uidNext'[f] = Cardinality(us) + 1 /\ validity'[f] = validity[f] + 1
      /\ \A g \in Folders \ {f} :
           box'[g] = box[g] /\ uidNext'[g] = uidNext[g] /\ validity'[g] = validity[g]
      /\ DOMAIN box' = Folders /\ DOMAIN uidNext' = Folders /\ DOMAIN validity' = Folders
      /\ box' = [g \in Folders |-> box'[g]] /\ uidNext' = [g \in Folders |-> uidNext'[g]]
      /\ validity' = [g \in Folders |-> validity'[g]]
  BY <1>1, <1>2 DEF ServerOK
<1>8. ServerOK'
  <2>1. \A g \in Folders : box'[g] \in Mailboxes
    BY <1>1, <1>5, <1>7 DEF ServerOK
  <2>2. \A g \in Folders : uidNext'[g] \in 1 .. MaxUid + 1
    BY <1>4, <1>6, <1>7, Bounds
  <2>3. \A g \in Folders : validity'[g] \in 1 .. MaxValidity
    BY <1>2, <1>6, <1>7, Bounds
  <2>4. \A g \in Folders : DOMAIN box'[g] \subseteq 1 .. (uidNext'[g] - 1)
    <3>1. DOMAIN box'[f] \subseteq 1 .. (uidNext'[f] - 1)
      BY <1>4, <1>5, <1>7
    <3>. QED
      BY <1>1, <1>7, <3>1 DEF ServerOK
  <2>. QED
    BY <1>7, <2>1, <2>2, <2>3, <2>4 DEF ServerOK
<1>9. Onward
  BY <1>6, <1>7 DEF Onward
<1>10. \A i \in DOMAIN rows : SameLetter(rows[i].letter, rows'[i].letter)
  BY <1>2, SameLetterIsEquivalence
<1>11. Kept
  BY <1>2, <1>10 DEF Kept
<1>12. Aside
  BY <1>1, <1>2, <1>7 DEF Aside, SameView, SameRows, TableOK
<1>13. QuietRound' /\ QuietRoundRepairs' /\ CursorOK'
  <2>1. \A g \in quiet' : validity'[g] = validity[g]
    BY <1>1, <1>2, <1>7 DEF TableOK
  <2>. QED
    BY <1>1, <1>8, <1>9, <1>12, <2>1, AsideKeepsRounds
<1>14. \A r \in Requests : RequestIsOK(req[r])' /\ RequestIsTrue(req[r])'
  BY <1>1, <1>2, <1>8, <1>9, <1>11, RequestStays
<1>15. TypesOK'
  <2>1. TableOK'
    BY <1>1, <1>2 DEF TableOK, RowsOf
  <2>2. SyncOK'
    <3>1. sync.stage # "idle" => sync.folder \in Folders \ {f}
      BY <1>1, <1>2 DEF InRound, SyncOK, SyncStates
    <3>. QED
      BY <1>1, <1>2, <1>7, <3>1 DEF SyncOK
  <2>3. RequestsOK'
    BY <1>1, <1>2, <1>14 DEF RequestsOK
  <2>. QED
    BY <1>8, <2>1, <2>2, <2>3 DEF TypesOK
<1>16. RowsAreTrue'
  <2>1. ASSUME NEW i \in DOMAIN rows' \ crossed' PROVE RowIsTrue(i)'
    <3>1. i \in DOMAIN rows \ crossed /\ rows'[i] = rows[i]
      BY <1>2
    <3>2. rows[i].folder \in Folders
      BY <1>1, <3>1, TableDomain DEF TableOK, Table
    <3>3. CASE rows[i].folder = f
      <4>1. Current(f)' => cursor[f] = 0
        BY <1>2, <1>6, <1>7 DEF Current, InRound
      <4>2. cursor[f] = 0 => rows[i].uid = Null
        BY <1>2, <2>1, <3>1, <3>3 DEF RowsOf
      <4>. QED
        BY <3>1, <3>3, <4>1, <4>2 DEF RowIsTrue
    <3>4. CASE rows[i].folder # f
      <4>1. Current(rows[i].folder)' => Current(rows[i].folder)
        BY <1>2, <1>7, <3>2, <3>4 DEF Current, InRound
      <4>. QED
        BY <1>1, <1>7, <1>8, <1>9, <3>1, <3>2, <3>4, <4>1, SameLetterIsEquivalence, RowStays
    <3>. QED
      BY <3>3, <3>4
  <2>. QED
    BY <2>1 DEF RowsAreTrue, RowIsTrue
<1>17. CountsFollowRows'
  BY <1>1, <1>2 DEF CountsFollowRows, InRound
<1>. QED
  BY <1>11, <1>13, <1>14, <1>15, <1>16, <1>17 DEF Inv, TruthOK

-----------------------------------------------------------------------------
(* Requests: what they read and what they are told                         *)

LEMMA NoRequestIsTrue ==
    ASSUME ServerOK
    PROVE  RequestIsOK(NoRequest) /\ RequestIsTrue(NoRequest)
<1>1. /\ NoRequest.kind = "none" /\ NoRequest.stage = "idle" /\ NoRequest.from = Sent
      /\ NoRequest.to = Sent /\ NoRequest.uid = Null /\ NoRequest.given = Null
      /\ NoRequest.flags = {} /\ NoRequest.astray = FALSE /\ NoRequest.known = 0
      /\ NoRequest.under = 0 /\ DOMAIN NoRequest = Fields
  BY DEF NoRequest, Fields
<1>2. 0 \in 0 .. validity[Sent]
  BY Bounds DEF ServerOK
<1>3. RequestIsOK(NoRequest)
  BY <1>1, <1>2, Bounds DEF RequestIsOK
<1>4. RequestIsTrue(NoRequest)
  BY <1>1 DEF RequestIsTrue
<1>. QED
  BY <1>3, <1>4

\* A request changes, and nothing else.
LEMMA RequestBecomes ==
    ASSUME Inv, NEW r \in Requests, NEW q, RequestIsOK(q), RequestIsTrue(q),
           req' = [req EXCEPT ![r] = q], events' \in 0 .. MaxEvents,
           UNCHANGED <<server, rows, cursor, unread, sync, quiet, crossed, lagging>>
    PROVE  Inv' /\ Kept
<1>1. TypesOK /\ ServerOK /\ TruthOK /\ RequestsOK
  BY DEF Inv, TypesOK
<1>2. ServerOK' /\ Onward
  BY <1>1, SameServerIsOnward DEF ServerOK, server
<1>3. Kept
  BY SameRowsAreKept
<1>4. DOMAIN req' = Requests /\ req'[r] = q /\ \A p \in Requests \ {r} : req'[p] = req[p]
  BY <1>1 DEF RequestsOK
<1>5. RequestIsOK(req[r])' /\ RequestIsTrue(req[r])'
  BY <1>4 DEF RequestIsOK, RequestIsTrue, Leads, server
<1>6. \A p \in Requests \ {r} : RequestIsOK(req[p])' /\ RequestIsTrue(req[p])'
  BY <1>1, <1>2, <1>3, <1>4, RequestStays
<1>7. quiet' = quiet \ {} /\ \A g \in Folders \ {} : box'[g] = box[g] /\ uidNext'[g] = uidNext[g]
  BY DEF server
<1>. QED
  BY <1>2, <1>4, <1>5, <1>6, <1>7, ServerMoves DEF server

LEMMA Failing ==
    ASSUME Inv, NEW r \in Requests, RequestFails(r), events' \in 0 .. MaxEvents
    PROVE  Inv' /\ Kept
BY NoRequestIsTrue, RequestBecomes DEF RequestFails, Inv, TypesOK

LEMMA AskingToAppend ==
    ASSUME Inv, NEW r \in Requests, NEW l \in Letters, AskAppend(r, l), events' \in 0 .. MaxEvents
    PROVE  Inv' /\ Kept
<1>. DEFINE q == [NoRequest EXCEPT !.kind = "append", !.stage = "asked",
                                    !.letter = l, !.from = Sent, !.to = Sent]
<1>1. /\ q.kind = "append" /\ q.stage = "asked" /\ q.from = Sent /\ q.to = Sent
      /\ q.uid = Null /\ q.given = Null /\ q.flags = {} /\ q.astray = FALSE /\ q.known = 0
      /\ q.under = 0 /\ q.letter = l /\ DOMAIN q = Fields
  BY DEF NoRequest, Fields
<1>2. 0 \in 0 .. validity[Sent]
  BY Bounds DEF Inv, TypesOK, ServerOK
<1>3. req' = [req EXCEPT ![r] = q]
  BY DEF AskAppend
<1>. HIDE DEF q
<1>4. RequestIsOK(q)
  BY <1>1, <1>2, Bounds DEF RequestIsOK
<1>5. RequestIsTrue(q)
  BY <1>1 DEF RequestIsTrue
<1>. QED
  BY <1>3, <1>4, <1>5, RequestBecomes DEF AskAppend

LEMMA Asking ==
    ASSUME Inv, NEW r \in Requests, Ask(r), events' \in 0 .. MaxEvents
    PROVE  Inv' /\ Kept
<1>1. TypesOK /\ ServerOK /\ TableOK /\ CursorOK /\ RowsAreTrue
  BY DEF Inv, TypesOK, TruthOK
<1>. DEFINE Asks(q, i) ==
                /\ DOMAIN q = Fields /\ q.stage = "asked" /\ q.row = i /\ q.from = rows[i].folder
                /\ q.uid = rows[i].uid /\ q.flags = rows[i].flags /\ q.known = cursor[rows[i].folder]
                /\ q.given = Null /\ q.under = 0 /\ q.astray = FALSE
                /\ \/ q.kind = "flag" /\ q.flag \in Flags /\ q.to = rows[i].folder
                   \/ q.kind = "move" /\ q.to \in Folders \ {rows[i].folder}
                   \/ q.kind = "remove" /\ q.to = Trash /\ rows[i].folder # Trash
                   \/ q.kind \in {"expunge", "restore"} /\ q.to = rows[i].folder
<1>2. PICK i, q : i \in DOMAIN rows /\ req' = [req EXCEPT ![r] = q] /\ Asks(q, i)
  <2>1. PICK i \in DOMAIN rows :
         LET f == rows[i].folder
             read == [NoRequest EXCEPT !.stage = "asked", !.row = i, !.from = f, !.to = f,
                         !.uid = rows[i].uid, !.flags = rows[i].flags, !.known = cursor[f]]
         IN \/ \E flag \in Flags :
                 req' = [req EXCEPT ![r] = [read EXCEPT !.kind = "flag", !.flag = flag,
                                               !.on = flag \notin rows[i].flags]]
            \/ \E g \in Folders \ {f} :
                 req' = [req EXCEPT ![r] = [read EXCEPT !.kind = "move", !.to = g]]
            \/ /\ f # Trash
               /\ req' = [req EXCEPT ![r] = [read EXCEPT !.kind = "remove", !.to = Trash]]
            \/ /\ f = Trash
               /\ req' = [req EXCEPT ![r] = [read EXCEPT !.kind = "expunge"]]
            \/ /\ rows[i].gone
               /\ req' = [req EXCEPT ![r] = [read EXCEPT !.kind = "restore"]]
    BY DEF Ask
  <2>. DEFINE f == rows[i].folder
              read == [NoRequest EXCEPT !.stage = "asked", !.row = i, !.from = f, !.to = f,
                         !.uid = rows[i].uid, !.flags = rows[i].flags, !.known = cursor[f]]
  <2>2. CASE \E flag \in Flags :
               req' = [req EXCEPT ![r] = [read EXCEPT !.kind = "flag", !.flag = flag,
                                               !.on = flag \notin rows[i].flags]]
    <3>1. PICK flag \in Flags :
               req' = [req EXCEPT ![r] = [read EXCEPT !.kind = "flag", !.flag = flag,
                                               !.on = flag \notin rows[i].flags]]
      BY <2>2
    <3>2. Asks([read EXCEPT !.kind = "flag", !.flag = flag, !.on = flag \notin rows[i].flags], i)
      BY DEF NoRequest, Fields
    <3>. QED
      BY <3>1, <3>2
  <2>3. CASE \E g \in Folders \ {f} :
               req' = [req EXCEPT ![r] = [read EXCEPT !.kind = "move", !.to = g]]
    <3>1. PICK g \in Folders \ {f} :
               req' = [req EXCEPT ![r] = [read EXCEPT !.kind = "move", !.to = g]]
      BY <2>3
    <3>2. Asks([read EXCEPT !.kind = "move", !.to = g], i)
      BY DEF NoRequest, Fields
    <3>. QED
      BY <3>1, <3>2
  <2>4. CASE f # Trash /\ req' = [req EXCEPT ![r] = [read EXCEPT !.kind = "remove", !.to = Trash]]
    <3>1. Asks([read EXCEPT !.kind = "remove", !.to = Trash], i)
      BY <2>4 DEF NoRequest, Fields
    <3>. QED
      BY <2>4, <3>1
  <2>5. CASE req' = [req EXCEPT ![r] = [read EXCEPT !.kind = "expunge"]]
    <3>1. Asks([read EXCEPT !.kind = "expunge"], i)
      BY DEF NoRequest, Fields
    <3>. QED
      BY <2>5, <3>1
  <2>6. CASE req' = [req EXCEPT ![r] = [read EXCEPT !.kind = "restore"]]
    <3>1. Asks([read EXCEPT !.kind = "restore"], i)
      BY DEF NoRequest, Fields
    <3>. QED
      BY <2>6, <3>1
  <2>. QED
    BY <2>1, <2>2, <2>3, <2>4, <2>5, <2>6
<1>3. /\ rows[i].folder \in Folders /\ rows[i].uid \in Uids \cup {Null}
      /\ rows[i].flags \in SUBSET Flags
  BY <1>1, <1>2, TableDomain DEF TableOK, Table
<1>4. /\ cursor[rows[i].folder] \in 0 .. validity[rows[i].folder]
      /\ \A g \in Folders : 0 \in 0 .. validity[g]
  BY <1>1, <1>3 DEF ServerOK, TableOK, CursorOK
<1>5. RequestIsOK(q)
  BY <1>2, <1>3, <1>4, Bounds DEF RequestIsOK
<1>6. RequestIsTrue(q)
  <2>1. ASSUME q.uid # Null, q.known = validity[q.from], q.row \notin crossed
        PROVE  Leads(q.from, q.uid, rows[q.row].letter)
    <3>1. Current(rows[i].folder)
      BY <1>2, <2>1 DEF Current
    <3>. QED
      BY <1>1, <1>2, <2>1, <3>1 DEF RowsAreTrue
  <2>. QED
    BY <1>2, <2>1 DEF RequestIsTrue
<1>. QED
  BY <1>2, <1>5, <1>6, RequestBecomes DEF Ask

\* The server answers a request.
LEMMA Answering ==
    ASSUME Inv, NEW r \in Requests, NEW S, NEW given \in Uids \cup {Null}, NEW astray,
           req[r].stage = "asked", Answered(r, given, astray), ServerOK', Onward,
           quiet' = quiet \ S, events' \in 0 .. MaxEvents,
           \A g \in Folders \ S : box'[g] = box[g] /\ uidNext'[g] = uidNext[g],
           UNCHANGED <<validity, rows, cursor, unread, sync, crossed, lagging>>,
           given # Null /\ req[r].kind = "append" => LeadsNext(Sent, given, req[r].letter),
           given # Null /\ req[r].kind \in {"move", "remove"} /\ ~astray /\ req[r].row \notin crossed =>
               LeadsNext(req[r].to, given, rows[req[r].row].letter)
    PROVE  Inv' /\ Kept
<1>1. TypesOK /\ ServerOK /\ TruthOK /\ RequestsOK
  BY DEF Inv, TypesOK
<1>2. Kept
  BY SameRowsAreKept
<1>3. PICK q : q = req[r]
  OBVIOUS
<1>4. RequestIsOK(q)
  BY <1>1, <1>3 DEF RequestsOK
<1>. DEFINE p == [q EXCEPT !.stage = "answered", !.uid = Null, !.known = 0, !.given = given,
                           !.under = IF given = Null THEN 0 ELSE validity[q.to],
                           !.astray = astray /\ given # Null]
<1>5. /\ DOMAIN req' = Requests /\ req'[r] = p
      /\ \A s \in Requests \ {r} : req'[s] = req[s]
  BY <1>1, <1>3 DEF RequestsOK, Answered
<1>6. \A s \in Requests \ {r} : RequestIsOK(req[s])' /\ RequestIsTrue(req[s])'
  BY <1>1, <1>2, <1>5, RequestStays
<1>7. /\ DOMAIN p = Fields /\ p.stage = "answered" /\ p.uid = Null /\ p.known = 0 /\ p.given = given
      /\ p.under = (IF given = Null THEN 0 ELSE validity[q.to]) /\ p.astray = (astray /\ given # Null)
      /\ p.kind = q.kind /\ p.row = q.row /\ p.from = q.from /\ p.to = q.to /\ p.flags = q.flags
      /\ p.flag = q.flag /\ p.letter = q.letter
  BY <1>4 DEF RequestIsOK, Fields
<1>. HIDE DEF p
<1>8. q.from \in Folders /\ q.to \in Folders /\ (q.kind = "append" => q.to = Sent)
  BY <1>4 DEF RequestIsOK
<1>9. p.known \in 0 .. validity[q.from] /\ p.under \in 0 .. validity[q.to]
  BY <1>1, <1>7, <1>8 DEF ServerOK
<1>10. RequestIsOK(p)
  BY <1>3, <1>4, <1>7, <1>9 DEF RequestIsOK
<1>11. RequestIsOK(req[r])'
  BY <1>5, <1>10 DEF RequestIsOK
<1>12. RequestIsTrue(req[r])'
  BY <1>3, <1>5, <1>7, <1>8 DEF RequestIsTrue, Leads, LeadsNext
<1>. QED
  BY <1>5, <1>6, <1>11, <1>12, ServerMoves

LEMMA Acting ==
    ASSUME Inv, NEW r \in Requests, ServerActs(r), events' \in 0 .. MaxEvents
    PROVE  Inv' /\ Kept
<1>1. TypesOK /\ ServerOK /\ TruthOK /\ RequestsOK /\ TableOK
  BY DEF Inv, TypesOK
<1>2. PICK q : q = req[r]
  OBVIOUS
<1>3. RequestIsOK(q) /\ RequestIsTrue(q)
  BY <1>1, <1>2 DEF RequestsOK, TruthOK
<1>4. PICK f : f = q.from
  OBVIOUS
<1>5. PICK astray : astray = (q.uid # Null /\ q.known # validity[f])
  OBVIOUS
<1>6. /\ f \in Folders /\ q.to \in Folders /\ Sent \in Folders
      /\ q.uid \in Uids \cup {Null} /\ q.flags \subseteq Flags
      /\ q.kind = "append" => q.letter \in Letters /\ q.to = Sent
      /\ q.kind = "flag" => q.flag \in Flags
      /\ q.kind \in {"move", "remove"} /\ q.stage # "closing" => f # q.to
      /\ q.kind \notin {"none", "append"} => q.row \in DOMAIN rows
  BY <1>3, <1>4, Bounds DEF RequestIsOK
<1>7. /\ q.stage = "asked"
      /\ UNCHANGED <<validity, rows, cursor, unread, sync, crossed, lagging>>
  BY <1>2 DEF ServerActs
<1>8. \A g \in Folders : uidNext[g] \in 1 .. MaxUid + 1 /\ box[g] \in Mailboxes
  BY <1>1 DEF ServerOK
<1>9. DOMAIN box = Folders /\ DOMAIN uidNext = Folders
  BY <1>1 DEF ServerOK
<1>10. CASE /\ q.kind = "append"
            /\ uidNext[Sent] <= MaxUid
            /\ box' = [box EXCEPT ![Sent] = With(@, uidNext[Sent], [letter |-> q.letter, flags |-> {"seen"}])]
            /\ uidNext' = [uidNext EXCEPT ![Sent] = @ + 1]
            /\ \E tells \in UidPlus : Answered(r, IF tells THEN uidNext[Sent] ELSE Null, FALSE)
            /\ quiet' = quiet \ {Sent}
  <2>. DEFINE m == [letter |-> q.letter, flags |-> {"seen"}]
  <2>1. m \in Mail /\ m.letter = q.letter
    BY <1>6, <1>10, Bounds DEF Mail
  <2>. HIDE DEF m
  <2>2. box' = [box EXCEPT ![Sent] = With(box[Sent], uidNext[Sent], m)]
    BY <1>10 DEF m
  <2>3. /\ box'[Sent] = With(box[Sent], uidNext[Sent], m) /\ uidNext'[Sent] = uidNext[Sent] + 1
        /\ \A g \in Folders \ {Sent} : box'[g] = box[g] /\ uidNext'[g] = uidNext[g]
        /\ DOMAIN box' = Folders /\ box' = [g \in Folders |-> box'[g]]
        /\ DOMAIN uidNext' = Folders /\ uidNext' = [g \in Folders |-> uidNext'[g]]
    BY <1>6, <1>9, <1>10, <2>2
  <2>4. GoesOn(Sent)
    BY <1>1, <1>6, <1>10, <2>1, <2>3, ReceivingGoesOn
  <2>5. \A g \in Folders : GoesOn(g)
    BY <1>1, <2>3, <2>4, UntouchedGoesOn
  <2>6. ServerOK' /\ Onward
    BY <1>1, <1>7, <2>3, <2>5, ServerGoesOn
  <2>7. PICK n \in Uids : n = uidNext[Sent]
    BY <1>6, <1>8, <1>10, Bounds
  <2>8. PICK given \in Uids \cup {Null} : given \in {n, Null} /\ Answered(r, given, FALSE)
    BY <1>10, <2>7
  <2>9. LeadsNext(Sent, n, q.letter)
    <3>1. With(box[Sent], uidNext[Sent], m)[uidNext[Sent]] = m
      BY DEF With
    <3>2. n < uidNext'[Sent]
      BY <1>6, <1>8, <2>3, <2>7
    <3>. QED
      BY <2>1, <2>3, <2>7, <3>1, <3>2, SameLetterIsEquivalence DEF LeadsNext
  <2>10. given # Null => LeadsNext(Sent, given, q.letter)
    BY <2>8, <2>9
  <2>. QED
    BY <1>2, <1>7, <1>10, <2>3, <2>6, <2>8, <2>10, Answering
<1>11. CASE /\ q.kind \in {"move", "remove"} /\ q.uid # Null /\ q.uid \in DOMAIN box[f]
            /\ uidNext[q.to] <= MaxUid
            /\ box' = [box EXCEPT ![f] = Without(@, q.uid),
                                  ![q.to] = With(@, uidNext[q.to], box[f][q.uid])]
            /\ uidNext' = [uidNext EXCEPT ![q.to] = @ + 1]
            /\ \E tells \in UidPlus : Answered(r, IF tells THEN uidNext[q.to] ELSE Null, astray)
            /\ quiet' = quiet \ {f, q.to}
  <2>1. PICK t \in Folders \ {f}, m \in Mail, n \in Uids :
            t = q.to /\ m = box[f][q.uid] /\ n = uidNext[t]
    <3>1. box[f][q.uid] \in Mail
      BY <1>6, <1>8, <1>11, Mailbox
    <3>2. q.to \in Folders \ {f} /\ uidNext[q.to] \in Uids
      BY <1>6, <1>7, <1>8, <1>11, Bounds
    <3>. QED
      BY <3>1, <3>2
  <2>2. m \in Mail
    BY <2>1
  <2>3. /\ box'[t] = With(box[t], uidNext[t], m) /\ uidNext'[t] = uidNext[t] + 1
        /\ box'[f] = Without(box[f], q.uid) /\ uidNext'[f] = uidNext[f]
        /\ \A g \in Folders \ {f, t} : box'[g] = box[g] /\ uidNext'[g] = uidNext[g]
        /\ DOMAIN box' = Folders /\ box' = [g \in Folders |-> box'[g]]
        /\ DOMAIN uidNext' = Folders /\ uidNext' = [g \in Folders |-> uidNext'[g]]
    BY <1>6, <1>9, <1>11, <2>1
  <2>4. GoesOn(t) /\ GoesOn(f)
    BY <1>1, <1>6, <1>11, <2>1, <2>2, <2>3, ReceivingGoesOn, LosingGoesOn
  <2>5. \A g \in Folders : GoesOn(g)
    BY <1>1, <2>3, <2>4, UntouchedGoesOn
  <2>6. ServerOK' /\ Onward
    BY <1>1, <1>7, <2>3, <2>5, ServerGoesOn
  <2>7. PICK given \in Uids \cup {Null} : given \in {n, Null} /\ Answered(r, given, astray)
    BY <1>11, <2>1
  <2>8. ASSUME given # Null, ~astray, q.row \notin crossed
        PROVE  LeadsNext(q.to, given, rows[q.row].letter)
    <3>1. given = n /\ q.known = validity[f]
      BY <1>5, <1>11, <2>7, <2>8
    <3>2. Leads(f, q.uid, rows[q.row].letter)
      BY <1>3, <1>4, <1>7, <1>11, <2>8, <3>1 DEF RequestIsTrue
    <3>3. SameLetter(rows[q.row].letter, m.letter)
      BY <1>11, <2>1, <3>2 DEF Leads
    <3>4. With(box[t], uidNext[t], m)[uidNext[t]] = m
      BY DEF With
    <3>5. n < uidNext'[t]
      BY <1>8, <2>1, <2>3
    <3>. QED
      BY <2>1, <2>3, <3>1, <3>3, <3>4, <3>5 DEF LeadsNext
  <2>9. PICK S : S = {f, t} /\ quiet' = quiet \ S
    BY <1>11, <2>1
  <2>10. \A g \in Folders \ S : box'[g] = box[g] /\ uidNext'[g] = uidNext[g]
    BY <2>3, <2>9
  <2>. QED
    BY <1>2, <1>7, <1>11, <2>6, <2>7, <2>8, <2>9, <2>10, Answering
<1>12. CASE /\ q.kind = "flag" /\ q.uid # Null /\ q.uid \in DOMAIN box[f]
            /\ box' = [box EXCEPT ![f][q.uid].flags = Changed(@, q.flag, q.on)]
            /\ Answered(r, Null, astray)
            /\ quiet' = quiet \ {f}
            /\ UNCHANGED uidNext
  <2>. DEFINE fl == Changed(box[f][q.uid].flags, q.flag, q.on)
  <2>1. fl \in SUBSET Flags
    <3>1. box[f][q.uid].flags \in SUBSET Flags
      BY <1>6, <1>8, <1>12, Mailbox
    <3>. QED
      BY <1>6, <1>12, <3>1 DEF Changed
  <2>2. box' = [box EXCEPT ![f] = [box[f] EXCEPT ![q.uid].flags = fl]]
    BY <1>12
  <2>. HIDE DEF fl
  <2>3. /\ box'[f] = [box[f] EXCEPT ![q.uid].flags = fl] /\ uidNext'[f] = uidNext[f]
        /\ \A g \in Folders \ {f} : box'[g] = box[g] /\ uidNext'[g] = uidNext[g]
        /\ DOMAIN box' = Folders /\ box' = [g \in Folders |-> box'[g]]
        /\ DOMAIN uidNext' = Folders /\ uidNext' = [g \in Folders |-> uidNext'[g]]
    BY <1>1, <1>6, <1>9, <1>12, <2>2 DEF ServerOK
  <2>4. GoesOn(f)
    BY <1>1, <1>6, <1>12, <2>1, <2>3, FlaggingGoesOn
  <2>5. \A g \in Folders : GoesOn(g)
    BY <1>1, <2>3, <2>4, UntouchedGoesOn
  <2>6. ServerOK' /\ Onward
    BY <1>1, <1>7, <2>3, <2>5, ServerGoesOn
  <2>7. PICK given \in Uids \cup {Null} : given = Null
    OBVIOUS
  <2>. QED
    BY <1>2, <1>7, <1>12, <2>3, <2>6, <2>7, Answering
<1>13. CASE /\ q.kind = "expunge" /\ q.uid # Null /\ q.uid \in DOMAIN box[f]
            /\ box' = [box EXCEPT ![f] = Without(@, q.uid)]
            /\ Answered(r, Null, astray)
            /\ quiet' = quiet \ {f}
            /\ UNCHANGED uidNext
  <2>1. /\ box'[f] = Without(box[f], q.uid) /\ uidNext'[f] = uidNext[f]
        /\ \A g \in Folders \ {f} : box'[g] = box[g] /\ uidNext'[g] = uidNext[g]
        /\ DOMAIN box' = Folders /\ box' = [g \in Folders |-> box'[g]]
        /\ DOMAIN uidNext' = Folders /\ uidNext' = [g \in Folders |-> uidNext'[g]]
    BY <1>1, <1>6, <1>9, <1>13 DEF ServerOK
  <2>2. GoesOn(f)
    BY <1>1, <1>6, <2>1, LosingGoesOn
  <2>3. \A g \in Folders : GoesOn(g)
    BY <1>1, <2>1, <2>2, UntouchedGoesOn
  <2>4. ServerOK' /\ Onward
    BY <1>1, <1>7, <2>1, <2>3, ServerGoesOn
  <2>5. PICK given \in Uids \cup {Null} : given = Null
    OBVIOUS
  <2>. QED
    BY <1>2, <1>7, <1>13, <2>1, <2>4, <2>5, Answering
<1>14. CASE Answered(r, Null, astray) /\ UNCHANGED <<box, uidNext, quiet>>
  <2>1. ServerOK' /\ Onward
    BY <1>1, <1>7, <1>14, SameServerIsOnward DEF ServerOK, server
  <2>2. quiet' = quiet \ {} /\ \A g \in Folders \ {} : box'[g] = box[g] /\ uidNext'[g] = uidNext[g]
    BY <1>14
  <2>3. PICK given \in Uids \cup {Null} : given = Null
    OBVIOUS
  <2>. QED
    BY <1>2, <1>7, <1>14, <2>1, <2>2, <2>3, Answering
<1>. QED
  BY <1>2, <1>4, <1>5, <1>10, <1>11, <1>12, <1>13, <1>14 DEF ServerActs

-----------------------------------------------------------------------------
(* Requests: what they write                                               *)

LEMMA CountIsNatural ==
    ASSUME NEW t, Table(t), NEW f
    PROVE  CountUnread(t, f) \in Nat
<1>1. DOMAIN t = 1 .. Len(t) /\ Len(t) \in Nat
  BY TableDomain DEF Table
<1>2. IsFiniteSet(DOMAIN t)
  BY <1>1, FS_Interval
<1>. DEFINE S == {i \in LiveRows(t, f) : "seen" \notin t[i].flags}
<1>3. S \in SUBSET DOMAIN t
  BY DEF LiveRows, RowsOf
<1>4. CountUnread(t, f) = Cardinality(S)
  BY DEF CountUnread
<1>. HIDE DEF S
<1>. QED
  BY <1>2, <1>3, <1>4, FS_Subset, FS_CardinalityType

\* Rows are written in the folders of W, and the folders fs are counted again.
LEMMA CountsAfter ==
    ASSUME TableOK, CountsFollowRows, Table(rows'), sync' = sync, NEW W, NEW fs,
           \A g \in Folders \ W : SameRows(rows, rows', g),
           unread' = Recount(rows', fs), lagging \ fs \subseteq lagging', W \ fs \subseteq lagging'
    PROVE  CountsFollowRows' /\ unread' \in [Folders -> Nat]
<1>1. \A g \in Folders : unread'[g] = IF g \in fs THEN CountUnread(rows', g) ELSE unread[g]
  BY DEF Recount
<1>2. \A g \in Folders : CountUnread(rows', g) \in Nat
  BY CountIsNatural
<1>3. unread' \in [Folders -> Nat]
  <2>1. \A g \in Folders : unread'[g] \in Nat
    BY <1>1, <1>2 DEF TableOK
  <2>2. unread' = [g \in Folders |-> unread'[g]]
    BY DEF Recount
  <2>. QED
    BY <2>1, <2>2
<1>4. ASSUME NEW g \in Folders
      PROVE  unread'[g] = CountUnread(rows', g) \/ InRound(g)' \/ g \in lagging'
  <2>1. CASE g \in fs
    BY <1>1, <2>1
  <2>2. CASE g \notin fs /\ g \in W
    BY <2>2
  <2>3. CASE g \notin fs /\ g \notin W
    <3>1. CountUnread(rows, g) = CountUnread(rows', g)
      BY <2>3, SameFolder
    <3>2. unread[g] = CountUnread(rows, g) \/ InRound(g) \/ g \in lagging
      BY DEF CountsFollowRows
    <3>. QED
      BY <1>1, <2>3, <3>1, <3>2 DEF InRound
  <2>. QED
    BY <2>1, <2>2, <2>3
<1>. QED
  BY <1>3, <1>4 DEF CountsFollowRows

\* A request has no more to read, and its row is there.
Closes(q) == RequestIsOK(q) /\ q.stage \in {"idle", "closing"}

\* A step of a request that leaves the server, the cursors and the round alone.
LEMMA TableMoves ==
    ASSUME Inv, NEW r \in Requests, NEW q, Closes(q), req' = [req EXCEPT ![r] = q],
           UNCHANGED <<server, cursor, sync>>, events' \in 0 .. MaxEvents,
           Table(rows'), crossed' \subseteq DOMAIN rows', Kept,
           NEW W, NEW fs, \A g \in Folders \ W : SameRows(rows, rows', g),
           quiet' \subseteq quiet \ W, lagging' \subseteq Folders,
           unread' = Recount(rows', fs), lagging \ fs \subseteq lagging', W \ fs \subseteq lagging',
           \A i \in DOMAIN rows' \ crossed' : RowIsTrue(i)'
    PROVE  Inv' /\ Kept
<1>1. TypesOK /\ ServerOK /\ TableOK /\ SyncOK /\ RequestsOK /\ TruthOK /\ CursorOK /\ RowsAreTrue
      /\ QuietRound /\ QuietRoundRepairs /\ CountsFollowRows
  BY DEF Inv, TypesOK, TruthOK
<1>2. ServerOK' /\ Onward
  BY <1>1, SameServerIsOnward DEF ServerOK, server
<1>3. /\ box' = box /\ uidNext' = uidNext /\ validity' = validity /\ cursor' = cursor /\ sync' = sync
  BY DEF server
<1>4. CountsFollowRows' /\ unread' \in [Folders -> Nat]
  BY <1>1, CountsAfter
<1>5. Aside
  BY <1>1, <1>3 DEF Aside, SameView, TableOK, Kept
<1>6. QuietRound' /\ QuietRoundRepairs' /\ CursorOK'
  BY <1>1, <1>2, <1>3, <1>5, AsideKeepsRounds
<1>7. DOMAIN req' = Requests /\ req'[r] = q /\ \A p \in Requests \ {r} : req'[p] = req[p]
  BY <1>1 DEF RequestsOK
<1>8. RequestIsOK(req[r])' /\ RequestIsTrue(req[r])'
  <2>1. RequestIsTrue(req[r])'
    BY <1>7 DEF Closes, RequestIsTrue
  <2>2. RequestIsOK(req[r])'
    BY <1>3, <1>7 DEF Closes, RequestIsOK, Kept
  <2>. QED
    BY <2>1, <2>2
<1>9. \A p \in Requests \ {r} : RequestIsOK(req[p])' /\ RequestIsTrue(req[p])'
  BY <1>1, <1>2, <1>7, RequestStays
<1>10. \A p \in Requests : RequestIsOK(req[p])' /\ RequestIsTrue(req[p])'
  BY <1>8, <1>9
<1>11. TypesOK'
  <2>1. TableOK'
    BY <1>1, <1>3, <1>4 DEF TableOK
  <2>2. SyncOK'
    BY <1>1, <1>3 DEF SyncOK
  <2>3. RequestsOK'
    BY <1>7, <1>10 DEF RequestsOK
  <2>. QED
    BY <1>2, <2>1, <2>2, <2>3 DEF TypesOK
<1>12. RowsAreTrue'
  BY DEF RowsAreTrue, RowIsTrue
<1>. QED
  BY <1>4, <1>6, <1>10, <1>11, <1>12 DEF Inv, TruthOK

\* A row is written whose letter stays.
LEMMA RowWritten ==
    ASSUME Inv, NEW r \in Requests, NEW q, Closes(q), req' = [req EXCEPT ![r] = q],
           UNCHANGED <<server, cursor, sync>>, events' \in 0 .. MaxEvents,
           NEW k \in DOMAIN rows, NEW row \in Row, rows' = [rows EXCEPT ![k] = row],
           row.letter = rows[k].letter, row.uid = Null \/ Free(rows, row.folder, row.uid, k),
           crossed \subseteq crossed', crossed' \subseteq DOMAIN rows,
           NEW fs, quiet' \subseteq quiet \ {rows[k].folder, row.folder}, lagging' \subseteq Folders,
           unread' = Recount(rows', fs), lagging \ fs \subseteq lagging',
           {rows[k].folder, row.folder} \ fs \subseteq lagging',
           \/ row.folder = rows[k].folder /\ row.uid = rows[k].uid
           \/ k \notin crossed' /\ row.uid # Null => Leads(row.folder, row.uid, row.letter)
    PROVE  Inv' /\ Kept
<1>1. TypesOK /\ ServerOK /\ TableOK /\ RowsAreTrue /\ Table(rows)
  BY DEF Inv, TypesOK, TruthOK, TableOK
<1>2. ServerOK' /\ Onward
  BY <1>1, SameServerIsOnward DEF ServerOK, server
<1>3. LET s == [rows EXCEPT ![k] = row]
      IN  /\ Table(s) /\ DOMAIN s = DOMAIN rows /\ s[k] = row
          /\ \A i \in DOMAIN rows \ {k} : s[i] = rows[i]
          /\ \A g : g # rows[k].folder /\ g # row.folder => SameRows(rows, s, g)
  BY <1>1, PutRow
<1>4. /\ Table(rows') /\ DOMAIN rows' = DOMAIN rows /\ rows'[k] = row
      /\ \A i \in DOMAIN rows \ {k} : rows'[i] = rows[i]
      /\ \A g : g # rows[k].folder /\ g # row.folder => SameRows(rows, rows', g)
  BY <1>3
<1>5. Kept
  BY <1>4, SameLetterIsEquivalence DEF Kept
<1>6. ASSUME NEW i \in DOMAIN rows' \ crossed' PROVE RowIsTrue(i)'
  <2>1. i \in DOMAIN rows \ crossed
    BY <1>4
  <2>2. \A g : Current(g)' => Current(g)
    BY DEF Current, InRound, server
  <2>3. validity' = validity
    BY DEF server
  <2>4. CASE i # k \/ (row.folder = rows[k].folder /\ row.uid = rows[k].uid)
    BY <1>1, <1>2, <1>4, <2>1, <2>2, <2>3, <2>4, SameLetterIsEquivalence, RowStays
  <2>5. CASE i = k /\ (row.uid # Null => Leads(row.folder, row.uid, row.letter))
    BY <1>4, <2>5 DEF RowIsTrue, Leads, server
  <2>. QED
    BY <1>6, <2>4, <2>5
<1>7. PICK W : W = {rows[k].folder, row.folder}
  OBVIOUS
<1>. QED
  BY <1>4, <1>5, <1>6, <1>7, TableMoves

LEMMA ClosingRequest ==
    ASSUME TypesOK, NEW q, RequestIsOK(q), q.kind \in {"remove", "restore"}
    PROVE  Closes([NoRequest EXCEPT !.kind = q.kind, !.stage = "closing", !.row = q.row])
<1>. DEFINE p == [NoRequest EXCEPT !.kind = q.kind, !.stage = "closing", !.row = q.row]
<1>1. /\ p.kind = q.kind /\ p.stage = "closing" /\ p.row = q.row /\ p.from = Sent
      /\ p.to = Sent /\ p.uid = Null /\ p.given = Null
      /\ p.flags = {} /\ p.astray = FALSE /\ p.known = 0
      /\ p.under = 0 /\ DOMAIN p = Fields
  BY DEF NoRequest, Fields
<1>2. 0 \in 0 .. validity[Sent]
  BY Bounds DEF TypesOK, ServerOK
<1>3. q.row \in DOMAIN rows
  BY DEF RequestIsOK
<1>. HIDE DEF p
<1>4. Closes(p)
  BY <1>1, <1>2, <1>3, Bounds DEF Closes, RequestIsOK
<1>. QED
  BY <1>4 DEF p

LEMMA Hiding ==
    ASSUME Inv, NEW r \in Requests, MarkDeleted(r), events' \in 0 .. MaxEvents
    PROVE  Inv' /\ Kept
<1>1. TypesOK /\ TableOK /\ Table(rows)
  BY DEF Inv, TypesOK, TableOK
<1>2. PICK q : q = req[r]
  OBVIOUS
<1>3. RequestIsOK(q) /\ q.stage = "closing"
  BY <1>1, <1>2 DEF TypesOK, RequestsOK, MarkDeleted
<1>4. PICK k \in DOMAIN rows : k = q.row
  BY <1>3 DEF RequestIsOK
<1>. DEFINE gone == q.kind = "remove"
            row == [rows[k] EXCEPT !.gone = gone]
            fs == {rows[k].folder}
<1>5. rows[k] \in Row /\ UidsAreUnique(rows)
  BY <1>1 DEF Table
<1>6. row \in Row /\ row.folder = rows[k].folder /\ row.uid = rows[k].uid /\ row.letter = rows[k].letter
  BY <1>5 DEF Row
<1>7. /\ rows' = [rows EXCEPT ![k] = row]
      /\ unread' = Recount(rows', fs)
      /\ lagging' = lagging \ fs
      /\ quiet' = quiet \ fs
      /\ req' = [req EXCEPT ![r] = NoRequest]
      /\ UNCHANGED <<server, cursor, sync, crossed>>
  <2>1. Hidden(k, gone) = [rows EXCEPT ![k] = row]
    BY <1>4, <1>5 DEF Hidden
  <2>. QED
    BY <1>2, <1>4, <2>1 DEF MarkDeleted
<1>. HIDE DEF row, gone
<1>8. row.uid = Null \/ Free(rows, row.folder, row.uid, k)
  BY <1>4, <1>5, <1>6 DEF Free, RowsOf, UidsAreUnique
<1>9. Closes(NoRequest)
  BY <1>1, NoRequestIsTrue DEF Closes, NoRequest, TypesOK
<1>10. /\ crossed \subseteq crossed' /\ crossed' \subseteq DOMAIN rows /\ lagging' \subseteq Folders
       /\ lagging \ fs \subseteq lagging' /\ {rows[k].folder, row.folder} \ fs \subseteq lagging'
       /\ quiet' \subseteq quiet \ {rows[k].folder, row.folder}
  BY <1>1, <1>6, <1>7 DEF TableOK
<1>. HIDE DEF fs
<1>. QED
  BY <1>6, <1>7, <1>8, <1>9, <1>10, RowWritten

LEMMA WritingBack ==
    ASSUME Inv, NEW r \in Requests, WriteBack(r), events' \in 0 .. MaxEvents
    PROVE  Inv' /\ Kept
<1>1. TypesOK /\ ServerOK /\ TableOK /\ Table(rows) /\ UidsAreUnique(rows) /\ rows \in Seq(Row)
      /\ RowsAreTrue
  BY DEF Inv, TypesOK, TruthOK, TableOK, Table
<1>2. PICK q : q = req[r]
  OBVIOUS
<1>3. RequestIsOK(q) /\ RequestIsTrue(q) /\ q.stage = "answered"
  BY <1>1, <1>2 DEF Inv, TruthOK, TypesOK, RequestsOK, WriteBack
<1>4. PICK p : /\ req' = [req EXCEPT ![r] = p] /\ Closes(p)
  <2>1. Closes(NoRequest)
    BY <1>1, NoRequestIsTrue DEF Closes, NoRequest
  <2>2. q.kind \in {"remove", "restore"} =>
            Closes([NoRequest EXCEPT !.kind = q.kind, !.stage = "closing", !.row = q.row])
    BY <1>1, <1>3, ClosingRequest
  <2>3. req' = [req EXCEPT ![r] = IF q.kind \in {"remove", "restore"}
                                 THEN [NoRequest EXCEPT !.kind = q.kind, !.stage = "closing", !.row = q.row]
                                 ELSE NoRequest]
    BY <1>2 DEF WriteBack
  <2>. QED
    BY <2>1, <2>2, <2>3
<1>5. UNCHANGED <<server, cursor, sync>>
  BY DEF WriteBack
<1>6. /\ q.from \in Folders /\ q.to \in Folders /\ Sent \in Folders /\ q.flags \in SUBSET Flags
      /\ q.given \in Uids \cup {Null}
      /\ q.kind \notin {"none", "append"} => q.row \in DOMAIN rows
      /\ q.kind = "append" => q.letter \in Letters /\ q.to = Sent
      /\ q.kind = "flag" => q.flag \in Flags
  BY <1>3, Bounds DEF RequestIsOK
<1>7. \A i \in DOMAIN rows : rows[i] \in Row /\ rows[i].folder \in Folders
  BY <1>1, TableDomain
<1>8. CASE /\ q.kind \in {"move", "remove"}
           /\ rows' = Relocated(q)
           /\ unread' = Recount(rows', {q.from, q.to})
           /\ lagging' = (lagging \ {q.from, q.to}) \cup ({rows[q.row].folder} \ {q.from, q.to})
           /\ quiet' = quiet \ {rows[q.row].folder, q.from, q.to}
           /\ crossed' = crossed \cup (IF TakesForeignUid(q) THEN {q.row} ELSE {})
  <2>1. PICK k \in DOMAIN rows : k = q.row
    BY <1>6, <1>8
  <2>2. PICK u \in Uids \cup {Null} : u = IF Taken(rows, q.to, q.given, k) THEN Null ELSE q.given
    BY <1>6
  <2>. DEFINE row == [rows[k] EXCEPT !.folder = q.to, !.uid = u]
              fs == {q.from, q.to}
  <2>3. row \in Row /\ row.folder = q.to /\ row.uid = u /\ row.letter = rows[k].letter
    BY <1>6, <1>7 DEF Row
  <2>4. rows' = [rows EXCEPT ![k] = row]
    BY <1>8, <2>1, <2>2 DEF Relocated
  <2>. HIDE DEF row
  <2>5. row.uid = Null \/ Free(rows, row.folder, row.uid, k)
    BY <2>2, <2>3 DEF Taken, Free
  <2>6. k \notin crossed' /\ row.uid # Null => Leads(row.folder, row.uid, row.letter)
    <3>1. SUFFICES ASSUME k \notin crossed', row.uid # Null
                   PROVE  Leads(row.folder, row.uid, row.letter)
      OBVIOUS
    <3>2. u = q.given /\ q.given # Null /\ ~TakesForeignUid(q) /\ k \notin crossed
      BY <1>8, <2>1, <2>2, <2>3, <3>1
    <3>3. ~q.astray /\ q.under = validity[q.to]
      BY <3>2 DEF TakesForeignUid
    <3>. QED
      BY <1>3, <1>8, <2>1, <2>3, <3>2, <3>3 DEF RequestIsTrue
  <2>7. /\ crossed \subseteq crossed' /\ crossed' \subseteq DOMAIN rows /\ lagging' \subseteq Folders
        /\ lagging \ fs \subseteq lagging' /\ {rows[k].folder, row.folder} \ fs \subseteq lagging'
        /\ quiet' \subseteq quiet \ {rows[k].folder, row.folder}
    BY <1>1, <1>6, <1>7, <1>8, <2>1, <2>3 DEF TableOK
  <2>8. unread' = Recount(rows', fs)
    BY <1>8
  <2>. HIDE DEF fs
  <2>. QED
    BY <1>4, <1>5, <2>3, <2>4, <2>5, <2>6, <2>7, <2>8, RowWritten
<1>9. CASE /\ q.kind \in {"flag", "restore"}
           /\ rows' = Flagged(q)
           /\ unread' = Recount(rows', {q.from})
           /\ lagging' = (lagging \ {q.from}) \cup ({rows[q.row].folder} \ {q.from})
           /\ quiet' = quiet \ {rows[q.row].folder}
           /\ UNCHANGED crossed
  <2>1. PICK k \in DOMAIN rows : k = q.row
    BY <1>6, <1>9
  <2>2. PICK fl \in SUBSET Flags : fl = IF q.kind = "flag" THEN Changed(q.flags, q.flag, q.on) ELSE q.flags
    <3>1. q.kind = "flag" => Changed(q.flags, q.flag, q.on) \in SUBSET Flags
      BY <1>6 DEF Changed
    <3>. QED
      BY <1>6, <3>1
  <2>. DEFINE row == [rows[k] EXCEPT !.flags = fl, !.gone = FALSE]
              fs == {q.from}
  <2>3. row \in Row /\ row.folder = rows[k].folder /\ row.uid = rows[k].uid /\ row.letter = rows[k].letter
    BY <1>7 DEF Row
  <2>4. rows' = [rows EXCEPT ![k] = row]
    BY <1>9, <2>1, <2>2 DEF Flagged
  <2>. HIDE DEF row
  <2>5. row.uid = Null \/ Free(rows, row.folder, row.uid, k)
    BY <1>1, <2>3 DEF Free, RowsOf, UidsAreUnique
  <2>6. /\ crossed \subseteq crossed' /\ crossed' \subseteq DOMAIN rows /\ lagging' \subseteq Folders
        /\ lagging \ fs \subseteq lagging' /\ {rows[k].folder, row.folder} \ fs \subseteq lagging'
        /\ quiet' \subseteq quiet \ {rows[k].folder, row.folder}
    BY <1>1, <1>6, <1>7, <1>9, <2>1, <2>3 DEF TableOK
  <2>7. unread' = Recount(rows', fs)
    BY <1>9
  <2>. HIDE DEF fs
  <2>. QED
    BY <1>4, <1>5, <2>3, <2>4, <2>5, <2>6, <2>7, RowWritten
<1>10. CASE /\ q.kind = "expunge"
            /\ rows' = Hidden(q.row, TRUE)
            /\ unread' = Recount(rows', {q.from, rows[q.row].folder})
            /\ lagging' = lagging \ {q.from, rows[q.row].folder}
            /\ quiet' = quiet \ {rows[q.row].folder}
            /\ UNCHANGED crossed
  <2>1. PICK k \in DOMAIN rows : k = q.row
    BY <1>6, <1>10
  <2>. DEFINE row == [rows[k] EXCEPT !.gone = TRUE]
              fs == {q.from, rows[k].folder}
  <2>2. row \in Row /\ row.folder = rows[k].folder /\ row.uid = rows[k].uid /\ row.letter = rows[k].letter
    BY <1>7 DEF Row
  <2>3. rows' = [rows EXCEPT ![k] = row]
    BY <1>10, <2>1 DEF Hidden
  <2>. HIDE DEF row
  <2>4. row.uid = Null \/ Free(rows, row.folder, row.uid, k)
    BY <1>1, <2>2 DEF Free, RowsOf, UidsAreUnique
  <2>5. /\ crossed \subseteq crossed' /\ crossed' \subseteq DOMAIN rows /\ lagging' \subseteq Folders
        /\ lagging \ fs \subseteq lagging' /\ {rows[k].folder, row.folder} \ fs \subseteq lagging'
        /\ quiet' \subseteq quiet \ {rows[k].folder, row.folder}
    BY <1>1, <1>6, <1>7, <1>10, <2>1, <2>2 DEF TableOK
  <2>6. unread' = Recount(rows', fs)
    BY <1>10, <2>1
  <2>. HIDE DEF fs
  <2>. QED
    BY <1>4, <1>5, <2>2, <2>3, <2>4, <2>5, <2>6, RowWritten
<1>11. CASE /\ q.kind = "append"
            /\ rows' = IF q.given # Null /\ Taken(rows, Sent, q.given, 0) THEN rows
                       ELSE Append(rows, [folder |-> Sent, uid |-> q.given, letter |-> q.letter,
                                          flags |-> {"seen"}, gone |-> FALSE])
            /\ unread' = Recount(rows', {Sent})
            /\ lagging' = lagging \ {Sent}
            /\ quiet' = quiet \ {Sent}
            /\ crossed' = crossed \cup
                           (IF TakesForeignUid(q) /\ rows' # rows THEN {Len(rows')} ELSE {})
  <2>. DEFINE row == [folder |-> Sent, uid |-> q.given, letter |-> q.letter,
                      flags |-> {"seen"}, gone |-> FALSE]
              W == {Sent}
  <2>1. row \in Row /\ row.folder = Sent /\ row.uid = q.given /\ row.letter = q.letter
    BY <1>6, <1>11, Bounds DEF Row
  <2>2. rows' = rows \/ (rows' = Append(rows, row) /\ (q.given = Null \/ ~Taken(rows, Sent, q.given, 0)))
    BY <1>11
  <2>. HIDE DEF row
  <2>3. \A g : Current(g)' => Current(g)
    BY <1>5 DEF Current, InRound, server
  <2>4. ServerOK' /\ Onward /\ validity' = validity
    BY <1>1, <1>5, SameServerIsOnward DEF ServerOK, server
  <2>5. /\ unread' = Recount(rows', W) /\ lagging \ W \subseteq lagging' /\ W \ W \subseteq lagging'
        /\ lagging' \subseteq Folders /\ quiet' \subseteq quiet \ W
    BY <1>1, <1>11 DEF TableOK
  <2>6. CASE rows' = rows
    <3>1. crossed' = crossed
      BY <1>11, <2>6
    <3>2. Kept
      BY <2>6, <3>1, SameRowsAreKept
    <3>3. \A i \in DOMAIN rows' \ crossed' : RowIsTrue(i)'
      BY <1>1, <2>3, <2>4, <2>6, <3>1, SameLetterIsEquivalence, RowStays
    <3>4. Table(rows') /\ crossed' \subseteq DOMAIN rows'
      BY <1>1, <2>6, <3>1 DEF TableOK
    <3>5. \A g \in Folders \ W : SameRows(rows, rows', g)
      BY <2>6 DEF SameRows
    <3>. HIDE DEF W
    <3>. QED
      BY <1>4, <1>5, <2>5, <3>2, <3>3, <3>4, <3>5, TableMoves
  <2>7. CASE rows' = Append(rows, row) /\ (q.given = Null \/ ~Taken(rows, Sent, q.given, 0))
    <3>1. row.uid = Null \/ Free(rows, row.folder, row.uid, 0)
      BY <2>1, <2>7 DEF Taken, Free
    <3>2. LET s == Append(rows, row)
          IN  /\ Table(s) /\ DOMAIN s = DOMAIN rows \cup {Len(rows) + 1} /\ s[Len(rows) + 1] = row
              /\ Len(rows) + 1 \notin DOMAIN rows
              /\ Len(s) = Len(rows) + 1
              /\ \A i \in DOMAIN rows : s[i] = rows[i]
              /\ \A g : g # row.folder => SameRows(rows, s, g)
      BY <1>1, <2>1, <3>1, AddRow
    <3>3. PICK k : k = Len(rows) + 1
      OBVIOUS
    <3>4. /\ Table(rows') /\ DOMAIN rows' = DOMAIN rows \cup {k} /\ rows'[k] = row
          /\ k \notin DOMAIN rows /\ Len(rows') = k
          /\ \A i \in DOMAIN rows : rows'[i] = rows[i]
          /\ \A g : g # row.folder => SameRows(rows, rows', g)
      BY <2>7, <3>2, <3>3
    <3>5. crossed' = crossed \cup (IF TakesForeignUid(q) THEN {k} ELSE {})
      BY <1>11, <3>4
    <3>6. crossed' \subseteq DOMAIN rows' /\ crossed \subseteq crossed'
      BY <1>1, <3>4, <3>5 DEF TableOK
    <3>7. Kept
      BY <3>4, <3>6, SameLetterIsEquivalence DEF Kept
    <3>8. ASSUME NEW i \in DOMAIN rows' \ crossed' PROVE RowIsTrue(i)'
      <4>1. CASE i \in DOMAIN rows
        BY <1>1, <2>3, <2>4, <3>4, <3>6, <4>1, SameLetterIsEquivalence, RowStays
      <4>2. CASE i = k
        <5>1. SUFFICES ASSUME q.given # Null PROVE RowIsTrue(i)'
          BY <2>1, <3>4, <4>2 DEF RowIsTrue
        <5>2. q.under = validity[Sent]
          BY <1>6, <1>11, <3>5, <3>8, <4>2, <5>1 DEF TakesForeignUid
        <5>3. Leads(Sent, q.given, q.letter)
          BY <1>3, <1>11, <5>1, <5>2 DEF RequestIsTrue
        <5>. QED
          BY <1>5, <2>1, <3>4, <4>2, <5>3 DEF RowIsTrue, Leads, server
      <4>. QED
        BY <3>4, <4>1, <4>2
    <3>9. \A g \in Folders \ W : SameRows(rows, rows', g)
      BY <2>1, <3>4
    <3>. HIDE DEF W
    <3>. QED
      BY <1>4, <1>5, <2>5, <3>4, <3>6, <3>7, <3>8, <3>9, TableMoves
  <2>. QED
    BY <2>2, <2>6, <2>7
<1>. QED
  BY <1>2, <1>8, <1>9, <1>10, <1>11 DEF WriteBack

-----------------------------------------------------------------------------
(* The steps of a round                                                    *)

\* What the steps of a round leave alone.
RoundStep == UNCHANGED <<server, req, crossed>> /\ events' \in 0 .. MaxEvents

\* The parts of the invariant that a step of a round keeps when it keeps the letters.
LEMMA RoundKeeps ==
    ASSUME Inv, RoundStep, Kept
    PROVE  /\ ServerOK' /\ Onward /\ RequestsOK' /\ \A r \in Requests : RequestIsTrue(req[r])'
           /\ box' = box /\ uidNext' = uidNext /\ validity' = validity /\ crossed' = crossed
<1>1. TypesOK /\ ServerOK /\ TruthOK /\ RequestsOK
  BY DEF Inv, TypesOK
<1>2. box' = box /\ uidNext' = uidNext /\ validity' = validity /\ crossed' = crossed /\ req' = req
  BY DEF RoundStep, server
<1>3. ServerOK' /\ Onward
  BY <1>1, <1>2, SameServerIsOnward DEF ServerOK, server
<1>4. \A r \in Requests : RequestIsOK(req[r])' /\ RequestIsTrue(req[r])'
  BY <1>1, <1>2, <1>3, RequestStays
<1>5. RequestsOK'
  BY <1>1, <1>2, <1>4 DEF RequestsOK
<1>. QED
  BY <1>2, <1>3, <1>4, <1>5

LEMMA Selecting ==
    ASSUME Inv, NEW f \in Folders, Select(f), events' \in 0 .. MaxEvents
    PROVE  Inv' /\ Kept
<1>1. /\ TypesOK /\ ServerOK /\ TableOK /\ SyncOK /\ TruthOK /\ CursorOK /\ RowsAreTrue
      /\ QuietRoundRepairs /\ CountsFollowRows
  BY DEF Inv, TypesOK, TruthOK
<1>2. /\ sync.stage = "idle" /\ quiet' = quiet \cup {f}
      /\ sync' = [NoSync EXCEPT !.stage = "opened", !.folder = f,
                   !.exists = Cardinality(DOMAIN box[f]),
                   !.uidNext = uidNext[f], !.validity = validity[f]]
      /\ UNCHANGED <<server, rows, cursor, unread, req, crossed, lagging>>
  BY DEF Select
<1>3. /\ sync'.stage = "opened" /\ sync'.folder = f /\ sync'.exists = Cardinality(DOMAIN box[f])
      /\ sync'.uidNext = uidNext[f] /\ sync'.validity = validity[f]
      /\ sync'.full = FALSE /\ sync'.local = {} /\ sync'.scanned = <<>> /\ sync'.todo = {}
      /\ sync' = [stage |-> "opened", folder |-> f, exists |-> Cardinality(DOMAIN box[f]),
                  uidNext |-> uidNext[f], validity |-> validity[f], full |-> FALSE,
                  local |-> {}, scanned |-> <<>>, todo |-> {}]
  BY <1>2 DEF NoSync
<1>4. RoundStep /\ Kept
  BY <1>2, SameRowsAreKept DEF RoundStep
<1>5. /\ ServerOK' /\ Onward /\ RequestsOK' /\ \A r \in Requests : RequestIsTrue(req[r])'
      /\ box' = box /\ uidNext' = uidNext /\ validity' = validity /\ crossed' = crossed
  BY <1>4, RoundKeeps
<1>6. /\ Cardinality(DOMAIN box[f]) \in Nat /\ uidNext[f] \in 1 .. MaxUid + 1
      /\ validity[f] \in 0 .. MaxValidity
  <2>1. DOMAIN box[f] \in SUBSET Uids
    BY <1>1, Mailbox DEF ServerOK
  <2>. QED
    BY <1>1, <2>1, Ranks, Bounds DEF ServerOK
<1>7. <<>> \in FlagLists
  <2>1. <<>> = [u \in {} |-> {}]
    OBVIOUS
  <2>2. [u \in {} |-> {}] \in [{} -> SUBSET Flags] /\ {} \in SUBSET Uids
    OBVIOUS
  <2>. QED
    BY <2>1, <2>2 DEF FlagLists
<1>8. SyncOK'
  <2>1. sync' \in SyncStates
    BY <1>3, <1>6, <1>7 DEF SyncStates
  <2>. QED
    BY <1>3, <1>5, <2>1 DEF SyncOK
<1>9. TypesOK'
  <2>1. TableOK'
    BY <1>1, <1>2 DEF TableOK
  <2>. QED
    BY <1>5, <1>8, <2>1 DEF TypesOK
<1>10. \A g : ~Settled(f)' /\ (g # f /\ Settled(g)' => Settled(g)) /\ (Current(g)' <=> Current(g))
  BY <1>2, <1>3, <1>5 DEF Settled, InRound, Current
<1>11. CursorOK'
  BY <1>1, <1>2, <1>5, <1>10 DEF CursorOK
<1>12. QuietRoundRepairs'
  <2>1. \A g \in Folders : SameView(g) /\ crossed \subseteq crossed'
    BY <1>2, <1>5 DEF SameView, SameRows
  <2>2. \A g \in Folders : Settled(g)' => Repaired(g)'
    BY <1>1, <1>10, <2>1, ViewStays, RepairsFolders
  <2>. QED
    BY <2>2 DEF QuietRoundRepairs, Repaired, Shown, ShownUids
<1>13. RowsAreTrue'
  <2>1. ASSUME NEW i \in DOMAIN rows' \ crossed' PROVE RowIsTrue(i)'
    BY <1>1, <1>2, <1>5, <1>10, <2>1, SameLetterIsEquivalence, RowStays
  <2>. QED
    BY <2>1 DEF RowsAreTrue, RowIsTrue
<1>14. QuietRound'
  BY <1>3, <1>5 DEF QuietRound
<1>15. CountsFollowRows'
  BY <1>1, <1>2, <1>3 DEF CountsFollowRows, InRound
<1>. QED
  BY <1>4, <1>5, <1>9, <1>11, <1>12, <1>13, <1>14, <1>15 DEF Inv, TruthOK, RoundStep

LEMMA NoSyncIsIdle == NoSync.stage = "idle" /\ NoSync \in SyncStates /\ NoSync.todo = {}
<1>1. <<>> \in FlagLists
  <2>1. <<>> = [u \in {} |-> {}]
    OBVIOUS
  <2>2. [u \in {} |-> {}] \in [{} -> SUBSET Flags] /\ {} \in SUBSET Uids
    OBVIOUS
  <2>. QED
    BY <2>1, <2>2 DEF FlagLists
<1>. QED
  BY <1>1, Bounds DEF NoSync, SyncStates

\* A round or the process ends.
LEMMA Ending ==
    ASSUME Inv, sync' = NoSync, events' \in 0 .. MaxEvents,
           UNCHANGED <<server, rows, cursor, unread, crossed>>,
           quiet' \subseteq quiet, lagging \subseteq lagging', lagging' \subseteq Folders,
           sync.stage # "idle" => sync.folder \notin quiet' /\ sync.folder \in lagging',
           DOMAIN req' = Requests, \A r \in Requests : req'[r] \in {req[r], NoRequest}
    PROVE  Inv' /\ Kept
<1>1. /\ TypesOK /\ ServerOK /\ TableOK /\ SyncOK /\ TruthOK /\ CursorOK /\ RowsAreTrue
      /\ QuietRound /\ QuietRoundRepairs /\ CountsFollowRows
  BY DEF Inv, TypesOK, TruthOK
<1>2. Kept
  BY SameRowsAreKept
<1>3. ServerOK' /\ Onward /\ box' = box /\ uidNext' = uidNext /\ validity' = validity
  BY <1>1, SameServerIsOnward DEF ServerOK, server
<1>4. Aside
  BY <1>1, <1>3 DEF Aside, SameView, SameRows, TableOK
<1>5. QuietRound' /\ QuietRoundRepairs' /\ CursorOK'
  BY <1>1, <1>3, <1>4, AsideKeepsRounds
<1>6. ASSUME NEW r \in Requests PROVE RequestIsOK(req[r])' /\ RequestIsTrue(req[r])'
  <2>1. CASE req'[r] = req[r]
    BY <1>1, <1>2, <1>3, <2>1, RequestStays
  <2>2. CASE req'[r] = NoRequest
    <3>1. RequestIsOK(NoRequest) /\ RequestIsTrue(NoRequest)
      BY <1>1, NoRequestIsTrue
    <3>2. NoRequest.stage = "idle"
      BY DEF NoRequest
    <3>3. RequestIsOK(req[r])'
      BY <1>3, <2>2, <3>1 DEF RequestIsOK
    <3>4. RequestIsTrue(req[r])'
      BY <2>2, <3>2 DEF RequestIsTrue
    <3>. QED
      BY <3>3, <3>4
  <2>. QED
    BY <2>1, <2>2
<1>7. /\ sync'.stage = "idle" /\ sync' \in SyncStates /\ sync'.todo = {}
  BY NoSyncIsIdle
<1>8. TypesOK'
  <2>1. TableOK'
    BY <1>1 DEF TableOK
  <2>2. SyncOK'
    BY <1>7 DEF SyncOK
  <2>3. RequestsOK'
    BY <1>6 DEF RequestsOK
  <2>. QED
    BY <1>3, <2>1, <2>2, <2>3 DEF TypesOK
<1>9. RowsAreTrue'
  <2>1. ASSUME NEW i \in DOMAIN rows' \ crossed' PROVE RowIsTrue(i)'
    <3>1. Current(rows[i].folder)' => Current(rows[i].folder)
      BY <1>3, <1>7 DEF Current, InRound
    <3>. QED
      BY <1>1, <1>3, <2>1, <3>1, SameLetterIsEquivalence, RowStays
  <2>. QED
    BY <2>1 DEF RowsAreTrue, RowIsTrue
<1>10. CountsFollowRows'
  BY <1>1 DEF CountsFollowRows, InRound
<1>. QED
  BY <1>2, <1>5, <1>6, <1>8, <1>9, <1>10 DEF Inv, TruthOK

LEMMA BreakingOff ==
    ASSUME Inv, BreakOff, events' \in 0 .. MaxEvents
    PROVE  Inv' /\ Kept
<1>1. TableOK /\ SyncOK /\ RequestsOK
  BY DEF Inv, TypesOK
<1>2. sync.folder \in Folders
  BY <1>1 DEF SyncOK, SyncStates
<1>3. quiet' \subseteq quiet /\ lagging \subseteq lagging' /\ lagging' \subseteq Folders
  BY <1>1, <1>2 DEF BreakOff, TableOK
<1>4. DOMAIN req' = Requests /\ \A r \in Requests : req'[r] \in {req[r], NoRequest}
  BY <1>1 DEF BreakOff, RequestsOK
<1>. QED
  BY <1>3, <1>4, Ending DEF BreakOff

LEMMA Crashing ==
    ASSUME Inv, Crash, events' \in 0 .. MaxEvents
    PROVE  Inv' /\ Kept
<1>1. TableOK /\ SyncOK
  BY DEF Inv, TypesOK
<1>2. sync.folder \in Folders
  BY <1>1 DEF SyncOK, SyncStates
<1>3. /\ quiet' \subseteq quiet /\ lagging \subseteq lagging' /\ lagging' \subseteq Folders
      /\ sync.stage # "idle" => sync.folder \notin quiet' /\ sync.folder \in lagging'
  BY <1>1, <1>2 DEF Crash, TableOK
<1>4. DOMAIN req' = Requests /\ \A r \in Requests : req'[r] \in {req[r], NoRequest}
  BY DEF Crash
<1>. QED
  BY <1>3, <1>4, Ending DEF Crash

\* The numbers that a round compares leave nothing to scan but what they count.
LEMMA NumbersTell ==
    ASSUME ServerOK, TableOK, RowsAreTrue, NEW f \in Folders, Current(f), Shown(f) \cap crossed = {},
           Cardinality(DOMAIN box[f]) = uidNext[f] - 1, Cardinality(DOMAIN box[f]) = Cardinality(Shown(f))
    PROVE  ShownUids(f) = DOMAIN box[f]
<1>1. PICK n \in Nat : n = uidNext[f] - 1 /\ uidNext[f] = n + 1
  BY DEF ServerOK
<1>2. DOMAIN box[f] \subseteq 1 .. n
  BY <1>1 DEF ServerOK
<1>3. IsFiniteSet(1 .. n) /\ Cardinality(1 .. n) = n
  <2>1. 1 \in Int /\ n \in Int
    OBVIOUS
  <2>2. IsFiniteSet(1 .. n) /\ Cardinality(1 .. n) = IF 1 > n THEN 0 ELSE n - 1 + 1
    BY ONLY <2>1, FS_Interval
  <2>. QED
    BY <2>2
<1>4. DOMAIN box[f] = 1 .. n
  BY <1>1, <1>2, <1>3, FS_Subset
<1>5. rows \in Seq(Row) /\ UidsAreUnique(rows)
  BY DEF TableOK, Table
<1>6. ASSUME NEW i \in Shown(f)
      PROVE  i \in DOMAIN rows /\ rows[i].folder = f /\ rows[i].uid # Null /\ rows[i].uid \in 1 .. n
  <2>1. i \in DOMAIN rows \ crossed /\ rows[i].folder = f /\ rows[i].uid # Null
    BY DEF Shown, LiveRows, RowsOf
  <2>2. rows[i].uid \in Uids /\ rows[i].uid < uidNext[f]
    BY <1>5, <2>1, TableDomain DEF RowsAreTrue, Leads
  <2>. QED
    BY <1>1, <2>1, <2>2, Bounds
<1>. DEFINE F == [i \in Shown(f) |-> rows[i].uid]
<1>7. F \in Injection(Shown(f), 1 .. n)
  <2>1. F \in [Shown(f) -> 1 .. n]
    BY <1>6
  <2>2. \A i, j \in Shown(f) : F[i] = F[j] => i = j
    BY <1>5, <1>6 DEF UidsAreUnique
  <2>. QED
    BY <2>1, <2>2 DEF Injection, IsInjective
<1>8. F \in Surjection(Shown(f), 1 .. n)
  <2>. HIDE DEF F
  <2>. QED
    BY <1>1, <1>3, <1>7, FS_Injection
<1>9. {rows[i].uid : i \in Shown(f)} = 1 .. n
  BY <1>6, <1>8 DEF Surjection
<1>. QED
  BY <1>4, <1>9 DEF ShownUids

LEMMA Opening ==
    ASSUME Inv, Open, UNCHANGED events
    PROVE  Inv' /\ Kept
<1>1. /\ TypesOK /\ ServerOK /\ TableOK /\ SyncOK /\ TruthOK /\ CursorOK /\ RowsAreTrue /\ Table(rows)
      /\ QuietRound /\ QuietRoundRepairs /\ CountsFollowRows
  BY DEF Inv, TypesOK, TruthOK, TableOK
<1>2. PICK f : f = sync.folder
  OBVIOUS
<1>3. PICK changed \in BOOLEAN : changed = (cursor[f] # 0 /\ cursor[f] # sync.validity)
  OBVIOUS
<1>4. PICK n : n = Cardinality({i \in LiveRows(rows', f) : rows'[i].uid # Null})
  OBVIOUS
<1>5. /\ sync.stage = "opened"
      /\ rows' = (IF changed THEN Detached(rows, f) ELSE rows)
      /\ sync' = [NoSync EXCEPT !.stage = "scan", !.folder = f,
                     !.exists = IF sync.exists = 0 THEN 0 ELSE 1, !.validity = sync.validity,
                     !.full = MustReconcile(f, changed, n),
                     !.local = UidsOf(rows', f)]
      /\ UNCHANGED <<server, cursor, unread, req, quiet, crossed, lagging>>
  <2>1. /\ rows' = (IF cursor[f] # 0 /\ cursor[f] # sync.validity THEN Detached(rows, f) ELSE rows)
        /\ sync' = [NoSync EXCEPT !.stage = "scan", !.folder = f,
                     !.exists = IF sync.exists = 0 THEN 0 ELSE 1, !.validity = sync.validity,
                     !.full = MustReconcile(f, cursor[f] # 0 /\ cursor[f] # sync.validity, n),
                     !.local = UidsOf(rows', f)]
    BY <1>2, <1>4 DEF Open
  <2>. QED
    BY <1>2, <1>3, <2>1 DEF Open
<1>6. PICK full \in BOOLEAN : full = MustReconcile(f, changed, n)
  BY DEF MustReconcile
<1>7. /\ f \in Folders /\ sync.validity = validity[f] /\ validity[f] \in 1 .. MaxValidity
      /\ sync.exists \in Nat
  BY <1>1, <1>2, <1>5 DEF SyncOK, SyncStates, ServerOK
<1>8. /\ Table(rows') /\ DOMAIN rows' = DOMAIN rows
      /\ \A g : g # f => SameRows(rows, rows', g)
      /\ \A i \in DOMAIN rows : /\ rows'[i].folder = rows[i].folder /\ rows'[i].letter = rows[i].letter
                                /\ rows'[i].uid = IF changed /\ rows[i].folder = f THEN Null ELSE rows[i].uid
  <2>1. CASE changed
    BY <1>1, <1>5, <2>1, DetachedTable
  <2>2. CASE ~changed
    BY <1>1, <1>5, <2>2 DEF SameRows
  <2>. QED
    BY <2>1, <2>2
<1>9. Kept
  BY <1>5, <1>8, SameLetterIsEquivalence DEF Kept
<1>10. /\ ServerOK' /\ Onward /\ RequestsOK' /\ \A r \in Requests : RequestIsTrue(req[r])'
       /\ box' = box /\ uidNext' = uidNext /\ validity' = validity /\ crossed' = crossed
  <2>1. RoundStep
    BY <1>5 DEF RoundStep, Inv
  <2>. QED
    BY <1>9, <2>1, RoundKeeps
<1>11. PICK exists \in {0, 1} : exists = IF sync.exists = 0 THEN 0 ELSE 1
  OBVIOUS
<1>12. PICK local \in SUBSET Uids : local = UidsOf(rows', f)
  <2>1. rows' \in Seq(Row)
    BY <1>8 DEF Table
  <2>2. \A i \in DOMAIN rows' : rows'[i].uid \in Uids \cup {Null}
    BY <2>1, TableDomain
  <2>. QED
    BY <2>2 DEF UidsOf, RowsOf
<1>13. /\ sync' = [stage |-> "scan", folder |-> f, exists |-> exists, uidNext |-> 1,
                   validity |-> validity[f], full |-> full, local |-> local,
                   scanned |-> <<>>, todo |-> {}]
  BY <1>5, <1>6, <1>7, <1>11, <1>12 DEF NoSync
<1>14. SyncOK'
  <2>1. <<>> \in FlagLists
    <3>1. <<>> = [u \in {} |-> {}]
      OBVIOUS
    <3>2. [u \in {} |-> {}] \in [{} -> SUBSET Flags] /\ {} \in SUBSET Uids
      OBVIOUS
    <3>. QED
      BY <3>1, <3>2 DEF FlagLists
  <2>2. sync' \in SyncStates
    BY <1>7, <1>13, <2>1, Bounds DEF SyncStates
  <2>. QED
    BY <1>10, <1>13, <2>2 DEF SyncOK
<1>15. TypesOK'
  <2>1. TableOK'
    BY <1>1, <1>5, <1>8 DEF TableOK
  <2>. QED
    BY <1>10, <1>14, <2>1 DEF TypesOK
<1>16. \A g : Settled(g)' => Settled(g) /\ g # f
  <2>1. sync'.stage = "scan" /\ sync'.folder = f
    BY <1>13
  <2>. QED
    BY <1>2, <1>5, <2>1 DEF Settled, InRound
<1>17. CursorOK'
  BY <1>1, <1>5, <1>10, <1>16 DEF CursorOK
<1>18. QuietRoundRepairs'
  <2>1. ASSUME NEW g \in Folders, Settled(g)' PROVE Repaired(g)'
    <3>1. SameView(g) /\ crossed \subseteq crossed' /\ Repaired(g)
      BY <1>1, <1>8, <1>10, <1>16, <2>1, RepairsFolders DEF SameView
    <3>. QED
      BY <3>1, ViewStays
  <2>. QED
    BY <2>1 DEF QuietRoundRepairs, Repaired, Shown, ShownUids
<1>19. RowsAreTrue'
  <2>1. ASSUME NEW i \in DOMAIN rows' \ crossed' PROVE RowIsTrue(i)'
    <3>1. i \in DOMAIN rows \ crossed
      BY <1>8, <1>10, <2>1
    <3>2. CASE rows[i].folder = f /\ changed
      BY <1>8, <3>1, <3>2 DEF RowIsTrue
    <3>3. CASE ~(rows[i].folder = f /\ changed)
      <4>1. Current(rows[i].folder)' => Current(rows[i].folder)
        <5>1. ~changed => cursor[f] \in {0, validity[f]}
          BY <1>3, <1>7
        <5>2. sync'.folder = f /\ cursor' = cursor /\ validity' = validity
          BY <1>5, <1>10, <1>13
        <5>3. rows[i].folder = f => Current(rows[i].folder)
          BY <3>3, <5>1 DEF Current
        <5>4. rows[i].folder # f => ~InRound(rows[i].folder)'
          BY <1>8, <3>1, <5>2 DEF InRound
        <5>. QED
          BY <1>8, <3>1, <5>2, <5>3, <5>4 DEF Current
      <4>. QED
        BY <1>1, <1>8, <1>10, <3>1, <3>3, <4>1, SameLetterIsEquivalence, RowStays
    <3>. QED
      BY <3>2, <3>3
  <2>. QED
    BY <2>1 DEF RowsAreTrue, RowIsTrue
<1>20. QuietRound'
  <2>1. SUFFICES ASSUME f \in quiet
                 PROVE  /\ exists = 0 <=> DOMAIN box[f] = {}
                        /\ local = UidsOf(rows', f)
                        /\ PartIsEnough(f)'
    <3>1. /\ sync'.stage = "scan" /\ sync'.folder = f /\ sync'.exists = exists /\ sync'.local = local
          /\ quiet' = quiet /\ box' = box
      <4>1. quiet' = quiet /\ box' = box
        BY <1>5, <1>10
      <4>. QED
        BY <1>13, <4>1
    <3>. QED
      BY <3>1 DEF QuietRound
  <2>2. sync.exists = Cardinality(DOMAIN box[f]) /\ sync.uidNext = uidNext[f]
    BY <1>1, <1>2, <1>5, <2>1 DEF QuietRound
  <2>3. exists = 0 <=> DOMAIN box[f] = {}
    <3>1. DOMAIN box[f] \in SUBSET Uids
      BY <1>1, <1>7, Mailbox DEF ServerOK
    <3>2. IsFiniteSet(DOMAIN box[f])
      BY <3>1, Ranks
    <3>. QED
      BY <1>11, <2>2, <3>2, FS_EmptySet
  <2>4. PartIsEnough(f)'
    <3>1. SUFFICES ASSUME ~full
                   PROVE  ~ReadsAll(f)' /\ (Shown(f)' \cap crossed' = {} => ShownUids(f)' = DOMAIN box'[f])
      BY <1>13 DEF PartIsEnough
    <3>2. /\ ~changed /\ cursor[f] # 0 /\ sync.exists = n
          /\ ~HasUidGap(sync.uidNext, sync.exists) /\ ~(sync.exists <= ReconcileMax)
      BY <1>6, <3>1 DEF MustReconcile
    <3>3. rows' = rows
      BY <1>5, <3>2
    <3>4. ~ReadsAll(f)'
      BY <1>10, <2>2, <3>2 DEF ReadsAll
    <3>5. n = Cardinality(Shown(f))
      BY <1>4, <3>3 DEF Shown
    <3>6. Cardinality(DOMAIN box[f]) = uidNext[f] - 1
      BY <2>2, <3>2 DEF HasUidGap
    <3>7. Current(f)
      BY <1>3, <1>7, <3>2 DEF Current
    <3>8. Shown(f)' = Shown(f) /\ ShownUids(f)' = ShownUids(f)
      BY <3>3 DEF Shown, ShownUids
    <3>9. Shown(f) \cap crossed = {} => ShownUids(f) = DOMAIN box[f]
      BY <1>1, <1>7, <2>2, <3>2, <3>5, <3>6, <3>7, NumbersTell
    <3>. QED
      BY <1>10, <3>4, <3>8, <3>9
  <2>. QED
    BY <1>12, <2>3, <2>4
<1>21. CountsFollowRows'
  <2>1. ASSUME NEW g \in Folders
        PROVE  unread'[g] = CountUnread(rows', g) \/ InRound(g)' \/ g \in lagging'
    <3>1. CASE g = f
      BY <1>13, <3>1 DEF InRound
    <3>2. CASE g # f
      <4>1. CountUnread(rows', g) = CountUnread(rows, g)
        BY <1>8, <3>2, SameFolder
      <4>2. ~InRound(g)
        BY <1>2, <3>2 DEF InRound
      <4>. QED
        BY <1>1, <1>5, <4>1, <4>2 DEF CountsFollowRows
    <3>. QED
      BY <3>1, <3>2
  <2>. QED
    BY <2>1 DEF CountsFollowRows
<1>. QED
  BY <1>9, <1>10, <1>15, <1>17, <1>18, <1>19, <1>20, <1>21 DEF Inv, TruthOK

LEMMA Scanning ==
    ASSUME Inv, Scan, UNCHANGED events
    PROVE  Inv' /\ Kept
<1>1. /\ TypesOK /\ ServerOK /\ TableOK /\ SyncOK /\ TruthOK /\ CursorOK /\ RowsAreTrue /\ Table(rows)
      /\ QuietRound /\ QuietRoundRepairs /\ CountsFollowRows
  BY DEF Inv, TypesOK, TruthOK, TableOK
<1>2. PICK f : f = sync.folder
  OBVIOUS
<1>3. f \in Folders /\ sync \in SyncStates /\ sync.stage = "scan"
  BY <1>1, <1>2 DEF SyncOK, SyncStates, Scan
<1>4. box[f] \in Mailboxes
  BY <1>1, <1>3 DEF ServerOK
<1>5. PICK found \in Mailboxes :
        /\ found = Scanned(f)
        /\ DOMAIN found \subseteq DOMAIN box[f]
        /\ \A u \in DOMAIN found : found[u] = box[f][u]
        /\ sync.full => DOMAIN found = DOMAIN box[f] \/ sync.exists = 0
  <2>1. CASE sync.exists = 0
    <3>1. Scanned(f) = <<>>
      BY <2>1 DEF Scanned
    <3>2. DOMAIN <<>> = {} /\ <<>> = [u \in DOMAIN <<>> |-> <<>>[u]]
      OBVIOUS
    <3>3. <<>> \in Mailboxes
      BY <3>2, IsMailbox
    <3>. QED
      BY <2>1, <3>1, <3>2, <3>3
  <2>2. CASE sync.exists # 0 /\ sync.full
    <3>1. Scanned(f) = box[f]
      BY <2>2 DEF Scanned
    <3>. QED
      BY <1>4, <3>1
  <2>3. CASE sync.exists # 0 /\ ~sync.full
    <3>1. PICK us : us = {u \in Uids : u > Highest(sync.local)}
      OBVIOUS
    <3>2. Scanned(f) = Only(box[f], us)
      BY <2>3, <3>1 DEF Scanned
    <3>3. \A b \in Mailboxes : /\ Only(b, us) \in Mailboxes /\ DOMAIN Only(b, us) = DOMAIN b \cap us
                               /\ \A v \in DOMAIN b \cap us : Only(b, us)[v] = b[v]
      BY OnlyMail
    <3>4. /\ Only(box[f], us) \in Mailboxes /\ DOMAIN Only(box[f], us) = DOMAIN box[f] \cap us
          /\ \A v \in DOMAIN box[f] \cap us : Only(box[f], us)[v] = box[f][v]
      BY ONLY <1>4, <3>3
    <3>. QED
      BY <2>3, <3>2, <3>4
  <2>. QED
    BY <2>1, <2>2, <2>3
<1>6. PICK scanned, todo :
        /\ scanned = [u \in DOMAIN found |-> found[u].flags] /\ todo = DOMAIN found \ sync.local
  OBVIOUS
<1>7. /\ sync' = [sync EXCEPT !.exists = 0,
                     !.stage = IF DOMAIN found \subseteq sync.local THEN "conclude" ELSE "fetch",
                     !.scanned = scanned, !.todo = todo]
      /\ UNCHANGED <<server, rows, cursor, unread, req, quiet, crossed, lagging>>
  BY <1>2, <1>5, <1>6 DEF Scan
<1>8. /\ sync'.stage \in {"fetch", "conclude"} /\ sync'.folder = f /\ sync'.full = sync.full
      /\ sync'.local = sync.local /\ sync'.scanned = scanned /\ sync'.todo = todo
      /\ sync'.validity = sync.validity
      /\ sync'.stage = "conclude" <=> todo = {}
  BY <1>2, <1>3, <1>6, <1>7 DEF SyncStates
<1>9. /\ DOMAIN found \in SUBSET Uids /\ DOMAIN scanned = DOMAIN found /\ scanned \in FlagLists
      /\ \A u \in DOMAIN scanned : scanned[u] = box[f][u].flags
  <2>1. DOMAIN found \in SUBSET Uids /\ \A u \in DOMAIN found : found[u].flags \in SUBSET Flags
    BY Mailbox
  <2>2. scanned \in [DOMAIN found -> SUBSET Flags]
    BY <1>6, <2>1
  <2>. QED
    BY <1>5, <1>6, <2>1, <2>2 DEF FlagLists
<1>10. Kept /\ RoundStep
  BY <1>7, SameRowsAreKept DEF RoundStep, Inv
<1>11. /\ ServerOK' /\ Onward /\ RequestsOK' /\ \A r \in Requests : RequestIsTrue(req[r])'
       /\ box' = box /\ uidNext' = uidNext /\ validity' = validity /\ crossed' = crossed
  BY <1>10, RoundKeeps
<1>12. SyncOK'
  <2>1. sync' \in SyncStates
    <3>1. todo \in SUBSET Uids /\ 0 \in Nat
      BY <1>6, <1>9
    <3>2. (IF DOMAIN found \subseteq sync.local THEN "conclude" ELSE "fetch")
              \in {"idle", "opened", "scan", "fetch", "conclude"}
      OBVIOUS
    <3>. QED
      BY <1>3, <1>7, <1>9, <3>1, <3>2 DEF SyncStates
  <2>2. sync.validity = validity[f]
    BY <1>1, <1>2, <1>3 DEF SyncOK
  <2>. QED
    BY <1>6, <1>8, <1>9, <1>11, <2>1, <2>2 DEF SyncOK
<1>13. TypesOK'
  <2>1. TableOK'
    BY <1>1, <1>7 DEF TableOK
  <2>. QED
    BY <1>11, <1>12, <2>1 DEF TypesOK
<1>14. \A g : /\ InRound(g)' <=> InRound(g)
              /\ Settled(g)' <=> Settled(g)
  BY <1>2, <1>3, <1>7, <1>8 DEF Settled, InRound
<1>15. CursorOK'
  BY <1>1, <1>7, <1>11, <1>14 DEF CursorOK
<1>16. \A g \in Folders : SameView(g) /\ crossed \subseteq crossed'
  BY <1>7, <1>11 DEF SameView, SameRows
<1>17. QuietRoundRepairs'
  <2>1. \A g \in Folders : Settled(g)' => Repaired(g)'
    BY <1>1, <1>14, <1>16, ViewStays, RepairsFolders
  <2>. QED
    BY <2>1 DEF QuietRoundRepairs, Repaired, Shown, ShownUids
<1>18. RowsAreTrue'
  <2>1. \A g : Current(g)' => Current(g)
    BY <1>3, <1>7, <1>8, <1>11, <1>14 DEF Current
  <2>2. ASSUME NEW i \in DOMAIN rows' \ crossed' PROVE RowIsTrue(i)'
    BY <1>1, <1>7, <1>11, <2>1, <2>2, SameLetterIsEquivalence, RowStays
  <2>. QED
    BY <2>2 DEF RowsAreTrue, RowIsTrue
<1>19. QuietRound'
  <2>1. SUFFICES ASSUME f \in quiet
                 PROVE  /\ PartIsEnough(f)'
                        /\ DOMAIN scanned \subseteq DOMAIN box[f]
                        /\ \A u \in DOMAIN scanned : scanned[u] = box[f][u].flags
                        /\ sync.full => DOMAIN scanned = DOMAIN box[f]
                        /\ UidsOf(rows, f) = sync.local \cup ((DOMAIN scanned \ sync.local) \ todo)
                        /\ \A i \in RowsOf(rows, f) : rows[i].uid \in DOMAIN scanned \ sync.local =>
                                ~rows[i].gone /\ rows[i].flags = scanned[rows[i].uid]
    <3>1. quiet' = quiet /\ rows' = rows
      BY <1>7
    <3>. QED
      BY <1>8, <1>11, <3>1 DEF QuietRound
  <2>2. /\ sync.exists = 0 <=> DOMAIN box[f] = {}
        /\ sync.local = UidsOf(rows, f) /\ PartIsEnough(f)
    BY <1>1, <1>2, <1>3, <2>1 DEF QuietRound
  <2>3. PartIsEnough(f)'
    <3>1. /\ ReadsAll(f)' <=> ReadsAll(f)
          /\ Shown(f)' = Shown(f) /\ ShownUids(f)' = ShownUids(f)
      BY <1>3, <1>16, ViewStays
    <3>. QED
      BY <1>8, <1>11, <2>2, <3>1 DEF PartIsEnough
  <2>4. sync.full => DOMAIN scanned = DOMAIN box[f]
    BY <1>5, <1>9, <2>2
  <2>5. UidsOf(rows, f) = sync.local \cup ((DOMAIN scanned \ sync.local) \ todo)
    BY <1>6, <1>9, <2>2
  <2>6. \A i \in RowsOf(rows, f) : rows[i].uid \notin DOMAIN scanned \ sync.local
    <3>1. Null \notin DOMAIN scanned
      BY <1>9, Bounds
    <3>. QED
      BY <2>2, <3>1 DEF UidsOf
  <2>. QED
    BY <1>5, <1>9, <2>3, <2>4, <2>5, <2>6
<1>20. CountsFollowRows'
  BY <1>1, <1>7, <1>14 DEF CountsFollowRows
<1>. QED
  BY <1>10, <1>11, <1>13, <1>15, <1>17, <1>18, <1>19, <1>20 DEF Inv, TruthOK, RoundStep

ShownOf(t, f) == {i \in LiveRows(t, f) : t[i].uid # Null}

\* The table t is the mirror before the end of a round that has stored all its letters.
Complete(t, f) ==
    /\ ~sync.full => /\ ~ReadsAll(f)
                     /\ ShownOf(t, f) \cap crossed = {} => {t[i].uid : i \in ShownOf(t, f)} = DOMAIN box[f]
    /\ DOMAIN sync.scanned \subseteq DOMAIN box[f]
    /\ \A u \in DOMAIN sync.scanned : sync.scanned[u] = box[f][u].flags
    /\ sync.full => DOMAIN sync.scanned = DOMAIN box[f]
    /\ UidsOf(t, f) = sync.local \cup DOMAIN sync.scanned
    /\ \A i \in RowsOf(t, f) : t[i].uid \in DOMAIN sync.scanned \ sync.local =>
            ~t[i].gone /\ t[i].flags = sync.scanned[t[i].uid]

\* The end of an undisturbed round leaves the folder repaired.
LEMMA RepairedInTheEnd ==
    ASSUME SyncOK, NEW f, f = sync.folder, NEW t, Table(t), Complete(t, f),
           \A i \in DOMAIN t \ crossed : t[i].uid # Null /\ t[i].folder = f => Leads(f, t[i].uid, t[i].letter),
           rows' = Concluded(t), UNCHANGED <<box, uidNext, crossed>>
    PROVE  Repaired(f)'
<1>. DEFINE s == Concluded(t)
            new == DOMAIN sync.scanned \ sync.local
<1>1. sync \in SyncStates
  BY DEF SyncOK
<1>2. /\ Table(s) /\ DOMAIN s = DOMAIN t
      /\ \A i \in DOMAIN t : s[i].folder = t[i].folder /\ s[i].letter = t[i].letter /\ s[i].uid = t[i].uid
      /\ \A i \in RowsOf(t, f) :
           /\ t[i].uid \in Known => s[i].flags = sync.scanned[t[i].uid] /\ ~s[i].gone
           /\ t[i].uid \in Vanished => s[i].gone
           /\ t[i].uid \notin Known \cup Vanished => s[i] = t[i]
  BY <1>1, ConcludedTable
<1>3. rows' = s
  OBVIOUS
<1>. HIDE DEF s
<1>4. RowsOf(s, f) = RowsOf(t, f) /\ RowsOf(t, f) \subseteq DOMAIN t
  BY <1>2 DEF RowsOf
<1>5. ReadsAll(f)' <=> ReadsAll(f)
  BY DEF ReadsAll
<1>6. \A i : i \in ShownOf(s, f) <=> i \in RowsOf(t, f) /\ ~s[i].gone /\ t[i].uid # Null
  BY <1>2, <1>4 DEF ShownOf, LiveRows
<1>7. \A i \in RowsOf(t, f) : t[i].uid # Null => t[i].uid \in sync.local \cup new
  BY DEF Complete, UidsOf
<1>8. \A i \in RowsOf(t, f) : t[i].uid \in new => ~s[i].gone /\ s[i].flags = sync.scanned[t[i].uid]
  BY <1>2 DEF Complete, Known, Vanished
<1>9. \A i \in RowsOf(t, f) : t[i].uid \in DOMAIN sync.scanned =>
        ~s[i].gone /\ s[i].flags = box[f][t[i].uid].flags
  BY <1>2, <1>8 DEF Complete, Known
<1>10. /\ {s[i].uid : i \in ShownOf(s, f)} = {t[i].uid : i \in ShownOf(s, f)}
  BY <1>2, <1>4, <1>6
<1>11. Null \notin DOMAIN sync.scanned
  BY <1>1, Bounds DEF SyncStates, FlagLists
<1>12. Shown(f)' = ShownOf(s, f) /\ ShownUids(f)' = {t[i].uid : i \in ShownOf(s, f)}
  BY <1>3, <1>10 DEF Shown, ShownUids, ShownOf
<1>13. CASE sync.full
  <2>1. \A i \in RowsOf(t, f) : t[i].uid # Null =>
          (i \in ShownOf(s, f) <=> t[i].uid \in DOMAIN box[f])
    BY <1>2, <1>6, <1>7, <1>9, <1>13 DEF Complete, Vanished
  <2>2. \A u \in DOMAIN box[f] : u # Null /\ \E i \in RowsOf(t, f) : t[i].uid = u
    BY <1>11, <1>13 DEF Complete, UidsOf
  <2>3. {t[i].uid : i \in ShownOf(s, f)} = DOMAIN box[f]
    BY <1>6, <2>1, <2>2
  <2>4. \A i \in ShownOf(s, f) : s[i].flags = box[f][s[i].uid].flags
    BY <1>2, <1>4, <1>6, <1>9, <1>13, <2>1 DEF Complete
  <2>5. \A i \in ShownOf(s, f) \ crossed : SameLetter(s[i].letter, box[f][s[i].uid].letter)
    <3>1. SUFFICES ASSUME NEW i \in ShownOf(s, f) \ crossed
                   PROVE  SameLetter(s[i].letter, box[f][s[i].uid].letter)
      OBVIOUS
    <3>2. i \in DOMAIN t \ crossed /\ i \in RowsOf(t, f) /\ t[i].folder = f /\ t[i].uid # Null
      BY <1>4, <1>6 DEF RowsOf
    <3>3. Leads(f, t[i].uid, t[i].letter) /\ t[i].uid \in DOMAIN box[f]
      BY <2>1, <3>2
    <3>. QED
      BY <1>2, <3>2, <3>3 DEF Leads
  <2>. QED
    BY <1>3, <1>12, <2>3, <2>4, <2>5 DEF Repaired
<1>14. CASE ~sync.full
  <2>1. SUFFICES ASSUME ShownOf(s, f) \cap crossed = {}
                 PROVE  /\ {t[i].uid : i \in ShownOf(s, f)} = DOMAIN box[f]
                        /\ \A i \in ShownOf(s, f) : SameLetter(s[i].letter, box[f][s[i].uid].letter)
    <3>1. ~ReadsAll(f)'
      BY <1>5, <1>14 DEF Complete
    <3>. QED
      BY <1>3, <1>12, <3>1 DEF Repaired
  <2>2. \A i \in RowsOf(t, f) : t[i].uid \notin DOMAIN sync.scanned => s[i] = t[i]
    BY <1>2, <1>14 DEF Known, Vanished
  <2>3. ShownOf(t, f) \subseteq ShownOf(s, f)
    BY <1>6, <1>9, <2>2 DEF ShownOf, LiveRows
  <2>4. {t[i].uid : i \in ShownOf(t, f)} = DOMAIN box[f]
    BY <1>14, <2>1, <2>3 DEF Complete
  <2>5. \A i \in ShownOf(s, f) : i \in ShownOf(t, f) \/ t[i].uid \in DOMAIN box[f]
    BY <1>6, <2>2 DEF ShownOf, LiveRows, Complete
  <2>6. {t[i].uid : i \in ShownOf(s, f)} = DOMAIN box[f]
    BY <2>3, <2>4, <2>5
  <2>7. ASSUME NEW i \in ShownOf(s, f) PROVE SameLetter(s[i].letter, box[f][s[i].uid].letter)
    <3>1. i \in DOMAIN t \ crossed /\ i \in RowsOf(t, f) /\ t[i].folder = f /\ t[i].uid # Null
      BY <1>4, <1>6, <2>1, <2>7 DEF RowsOf
    <3>2. Leads(f, t[i].uid, t[i].letter) /\ t[i].uid \in DOMAIN box[f]
      BY <2>6, <2>7, <3>1
    <3>. QED
      BY <1>2, <3>1, <3>2 DEF Leads
  <2>. QED
    BY <2>6, <2>7
<1>. QED
  BY <1>13, <1>14

LEMMA Concluding ==
    ASSUME Inv, NEW f, f = sync.folder, sync.stage \in {"fetch", "conclude"},
           NEW t, Table(t), DOMAIN rows \subseteq DOMAIN t, \A g : g # f => SameRows(rows, t, g),
           \A i \in DOMAIN rows \ crossed : SameLetter(rows[i].letter, t[i].letter),
           \A i \in DOMAIN t \ crossed : t[i].uid # Null /\ t[i].folder = f => Leads(f, t[i].uid, t[i].letter),
           f \in quiet => Complete(t, f),
           Conclude(t), UNCHANGED <<server, req, quiet, crossed, events>>
    PROVE  Inv' /\ Kept
<1>1. /\ TypesOK /\ ServerOK /\ TableOK /\ SyncOK /\ TruthOK /\ CursorOK /\ RowsAreTrue /\ Table(rows)
      /\ QuietRound /\ QuietRoundRepairs /\ CountsFollowRows
  BY DEF Inv, TypesOK, TruthOK, TableOK
<1>2. f \in Folders /\ sync \in SyncStates /\ sync.validity = validity[f] /\ sync.stage # "idle"
  BY <1>1 DEF SyncOK, SyncStates
<1>3. /\ rows' = Concluded(t)
      /\ cursor' = [cursor EXCEPT ![f] = sync.validity]
      /\ unread' = Recount(rows', {f})
      /\ lagging' = lagging \ {f}
      /\ sync' = NoSync
  BY DEF Conclude
<1>4. LET s == Concluded(t)
      IN  /\ Table(s) /\ DOMAIN s = DOMAIN t
          /\ \A g : g # f => SameRows(t, s, g)
          /\ \A i \in DOMAIN t : /\ s[i].folder = t[i].folder /\ s[i].letter = t[i].letter
                                 /\ s[i].uid = t[i].uid
  BY <1>2, ConcludedTable
<1>5. /\ Table(rows') /\ DOMAIN rows' = DOMAIN t
      /\ \A g : g # f => SameRows(t, rows', g)
      /\ \A i \in DOMAIN t : /\ rows'[i].folder = t[i].folder /\ rows'[i].letter = t[i].letter
                             /\ rows'[i].uid = t[i].uid
  BY <1>3, <1>4
<1>6. \A g : g # f => SameRows(rows, rows', g)
  BY <1>5, SameRowsCompose
<1>7. Kept
  BY <1>5, SameLetterIsEquivalence DEF Kept
<1>8. RoundStep
  BY DEF RoundStep, Inv
<1>9. /\ ServerOK' /\ Onward /\ RequestsOK' /\ \A r \in Requests : RequestIsTrue(req[r])'
      /\ box' = box /\ uidNext' = uidNext /\ validity' = validity /\ crossed' = crossed
  BY <1>7, <1>8, RoundKeeps
<1>10. sync'.stage = "idle" /\ sync' \in SyncStates /\ sync'.todo = {}
  <2>1. <<>> \in FlagLists
    <3>1. <<>> = [u \in {} |-> {}]
      OBVIOUS
    <3>2. [u \in {} |-> {}] \in [{} -> SUBSET Flags] /\ {} \in SUBSET Uids
      OBVIOUS
    <3>. QED
      BY <3>1, <3>2 DEF FlagLists
  <2>. QED
    BY <1>3, <2>1, Bounds DEF NoSync, SyncStates
<1>11. /\ DOMAIN cursor' = Folders /\ cursor'[f] = validity[f]
       /\ \A g \in Folders \ {f} : cursor'[g] = cursor[g]
       /\ cursor' \in [Folders -> 0 .. MaxValidity]
  <2>1. cursor \in [Folders -> 0 .. MaxValidity] /\ validity[f] \in 0 .. MaxValidity
    BY <1>1, <1>2 DEF TableOK, SyncStates
  <2>. QED
    BY <1>2, <1>3, <2>1
<1>12. /\ unread' \in [Folders -> Nat] /\ unread'[f] = CountUnread(rows', f)
       /\ \A g \in Folders \ {f} : unread'[g] = unread[g]
  <2>1. \A g \in Folders : unread'[g] = IF g = f THEN CountUnread(rows', g) ELSE unread[g]
    BY <1>3 DEF Recount
  <2>2. \A g \in Folders : unread'[g] \in Nat
    BY <1>1, <1>5, <2>1, CountIsNatural DEF TableOK
  <2>3. unread' = [g \in Folders |-> unread'[g]]
    BY <1>3 DEF Recount
  <2>. QED
    BY <1>2, <2>1, <2>2, <2>3
<1>13. TypesOK'
  <2>1. TableOK'
    BY <1>1, <1>3, <1>5, <1>11, <1>12 DEF TableOK
  <2>2. SyncOK'
    BY <1>10 DEF SyncOK
  <2>. QED
    BY <1>9, <2>1, <2>2 DEF TypesOK
<1>14. \A g : g # f /\ Settled(g)' => Settled(g)
  BY DEF Settled, InRound
<1>15. CursorOK'
  <2>1. ASSUME NEW g \in Folders
        PROVE  cursor'[g] <= validity'[g] /\ (Settled(g)' => cursor'[g] = validity'[g])
    <3>1. CASE g = f
      BY <1>1, <1>9, <1>11, <3>1 DEF ServerOK
    <3>2. CASE g # f
      BY <1>1, <1>9, <1>11, <1>14, <3>2 DEF CursorOK
    <3>. QED
      BY <3>1, <3>2
  <2>. QED
    BY <2>1 DEF CursorOK
<1>16. QuietRoundRepairs'
  <2>1. ASSUME NEW g \in Folders, Settled(g)' PROVE Repaired(g)'
    <3>1. CASE g = f
      <4>1. f \in quiet
        BY <2>1, <3>1 DEF Settled
      <4>2. Repaired(f)'
        BY <1>1, <1>3, <1>9, <4>1, RepairedInTheEnd
      <4>. QED
        BY <3>1, <4>2
    <3>2. CASE g # f
      <4>1. SameView(g) /\ crossed \subseteq crossed' /\ Repaired(g)
        BY <1>1, <1>6, <1>9, <1>14, <2>1, <3>2, RepairsFolders DEF SameView
      <4>. QED
        BY <4>1, ViewStays
    <3>. QED
      BY <3>1, <3>2
  <2>. QED
    BY <2>1 DEF QuietRoundRepairs, Repaired, Shown, ShownUids
<1>17. RowsAreTrue'
  <2>1. ASSUME NEW i \in DOMAIN rows' \ crossed' PROVE RowIsTrue(i)'
    <3>1. i \in DOMAIN t \ crossed
      BY <1>5, <1>9, <2>1
    <3>2. CASE t[i].folder = f
      <4>1. t[i].uid # Null => Leads(f, t[i].uid, t[i].letter)
        BY <3>1, <3>2
      <4>. QED
        BY <1>5, <1>9, <3>1, <3>2, <4>1 DEF RowIsTrue, Leads
    <3>3. CASE t[i].folder # f
      <4>1. PICK g : g = t[i].folder /\ g # f
        BY <3>3
      <4>2. i \in RowsOf(rows', g)
        BY <1>5, <3>1, <4>1 DEF RowsOf
      <4>3. i \in DOMAIN rows \ crossed /\ rows[i].folder = g /\ rows'[i] = rows[i]
        BY <1>6, <3>1, <4>1, <4>2 DEF SameRows, RowsOf
      <4>4. g \in Folders
        BY <1>1, <4>3, TableDomain DEF Table
      <4>5. Current(g)' => Current(g)
        BY <1>9, <1>10, <1>11, <4>1, <4>4 DEF Current, InRound
      <4>6. Current(rows[i].folder)' => Current(rows[i].folder)
        BY <4>3, <4>5 DEF Current, InRound
      <4>. QED
        BY <1>1, <1>9, <4>3, <4>6, SameLetterIsEquivalence, RowStays
    <3>. QED
      BY <3>2, <3>3
  <2>. QED
    BY <2>1 DEF RowsAreTrue, RowIsTrue
<1>18. QuietRound'
  BY <1>10 DEF QuietRound
<1>19. CountsFollowRows'
  <2>1. ASSUME NEW g \in Folders
        PROVE  unread'[g] = CountUnread(rows', g) \/ InRound(g)' \/ g \in lagging'
    <3>1. CASE g = f
      BY <1>12, <3>1
    <3>2. CASE g # f
      <4>1. CountUnread(rows', g) = CountUnread(rows, g) /\ ~InRound(g)
        BY <1>6, <3>2, SameFolder DEF InRound
      <4>. QED
        BY <1>1, <1>3, <1>12, <3>2, <4>1 DEF CountsFollowRows
    <3>. QED
      BY <3>1, <3>2
  <2>. QED
    BY <2>1 DEF CountsFollowRows
<1>. QED
  BY <1>7, <1>8, <1>9, <1>13, <1>15, <1>16, <1>17, <1>18, <1>19 DEF Inv, TruthOK, RoundStep

LEMMA ConcludingAtOnce ==
    ASSUME Inv, NothingNew, UNCHANGED events
    PROVE  Inv' /\ Kept
<1>1. TypesOK /\ SyncOK /\ TableOK /\ RowsAreTrue /\ QuietRound /\ Table(rows)
  BY DEF Inv, TypesOK, TruthOK, TableOK
<1>2. PICK f : f = sync.folder
  OBVIOUS
<1>3. sync.stage = "conclude" /\ sync.todo = {} /\ Conclude(rows)
  BY <1>1 DEF NothingNew, SyncOK
<1>4. Current(f)
  BY <1>2, <1>3 DEF Current, InRound
<1>5. \A i \in DOMAIN rows \ crossed : rows[i].uid # Null /\ rows[i].folder = f =>
        Leads(f, rows[i].uid, rows[i].letter)
  BY <1>1, <1>4 DEF RowsAreTrue
<1>6. f \in quiet => Complete(rows, f)
  <2>1. SUFFICES ASSUME f \in quiet PROVE Complete(rows, f)
    OBVIOUS
  <2>2. /\ PartIsEnough(f)
        /\ DOMAIN sync.scanned \subseteq DOMAIN box[f]
        /\ \A u \in DOMAIN sync.scanned : sync.scanned[u] = box[f][u].flags
        /\ sync.full => DOMAIN sync.scanned = DOMAIN box[f]
        /\ UidsOf(rows, f) = sync.local \cup ((DOMAIN sync.scanned \ sync.local) \ sync.todo)
        /\ \A i \in RowsOf(rows, f) : rows[i].uid \in DOMAIN sync.scanned \ sync.local =>
                ~rows[i].gone /\ rows[i].flags = sync.scanned[rows[i].uid]
    BY <1>1, <1>2, <1>3, <2>1 DEF QuietRound
  <2>3. UidsOf(rows, f) = sync.local \cup DOMAIN sync.scanned
    BY <1>3, <2>2
  <2>. QED
    BY <2>2, <2>3 DEF Complete, PartIsEnough, Shown, ShownUids, ShownOf
<1>7. /\ \A g : g # f => SameRows(rows, rows, g)
      /\ \A i \in DOMAIN rows \ crossed : SameLetter(rows[i].letter, rows[i].letter)
  BY SameLetterIsEquivalence DEF SameRows
<1>. QED
  BY <1>1, <1>2, <1>3, <1>5, <1>6, <1>7, Concluding DEF NothingNew

\* What a batch does to the rows, and, in an undisturbed round, to the UIDs it has.
LEMMA BatchIsStored ==
    ASSUME Inv, NEW f, f = sync.folder, sync.stage = "fetch", NEW batch \in SUBSET sync.todo,
           NEW t, t = WriteMessages(rows, f, Only(box[f], batch))
    PROVE  /\ Table(t) /\ DOMAIN rows \subseteq DOMAIN t /\ \A g : g # f => SameRows(rows, t, g)
           /\ \A i \in DOMAIN rows \ crossed : SameLetter(rows[i].letter, t[i].letter)
           /\ \A i \in DOMAIN t \ crossed :
                t[i].uid # Null /\ t[i].folder = f => Leads(f, t[i].uid, t[i].letter)
           /\ f \in quiet =>
                /\ ~sync.full => ~ReadsAll(f) /\ ShownOf(t, f) \cap crossed # {}
                /\ UidsOf(t, f) = sync.local \cup ((DOMAIN sync.scanned \ sync.local) \ (sync.todo \ batch))
                /\ \A i \in RowsOf(t, f) : t[i].uid \in DOMAIN sync.scanned \ sync.local =>
                        ~t[i].gone /\ t[i].flags = sync.scanned[t[i].uid]
<1>1. /\ TypesOK /\ ServerOK /\ TableOK /\ SyncOK /\ RowsAreTrue /\ Table(rows) /\ rows \in Seq(Row)
      /\ QuietRound
  BY DEF Inv, TypesOK, TruthOK, TableOK, Table
<1>2. f \in Folders /\ sync \in SyncStates
  BY <1>1 DEF SyncOK, SyncStates
<1>3. /\ sync.todo \subseteq DOMAIN sync.scanned \ sync.local /\ sync.todo # {}
      /\ DOMAIN sync.scanned \in SUBSET Uids
  BY <1>1, <1>2 DEF SyncOK, SyncStates, FlagLists
<1>4. PICK b \in Mailboxes : b = box[f]
  BY <1>1, <1>2 DEF ServerOK
<1>5. PICK m \in Mailboxes :
        /\ m = Only(box[f], batch) /\ DOMAIN m = DOMAIN box[f] \cap batch
        /\ \A v \in DOMAIN m : m[v] = box[f][v]
  <2>1. /\ Only(b, batch) \in Mailboxes /\ DOMAIN Only(b, batch) = DOMAIN b \cap batch
        /\ \A v \in DOMAIN b \cap batch : Only(b, batch)[v] = b[v]
    BY ONLY b \in Mailboxes, OnlyMail
  <2>. QED
    BY <1>4, <2>1
<1>6. Stores(t, rows, f, m, MaxUid)
  BY <1>1, <1>2, <1>5, StoresAll
<1>7. DOMAIN m \cap 1 .. MaxUid = DOMAIN m /\ Null \notin DOMAIN m
  BY <1>3, <1>5, Bounds
<1>8. /\ Table(t) /\ DOMAIN rows \subseteq DOMAIN t
      /\ \A g : g # f => SameRows(rows, t, g)
      /\ \A i \in DOMAIN rows : t[i] # rows[i] =>
            \E u \in DOMAIN m :
               /\ rows[i].folder = f /\ t[i] = RowAt(f, u, m[u])
               /\ rows[i].uid = u \/ (rows[i].uid = Null /\ SameLetter(rows[i].letter, m[u].letter))
      /\ \A i \in DOMAIN t \ DOMAIN rows : \E u \in DOMAIN m : t[i] = RowAt(f, u, m[u])
      /\ \A u \in DOMAIN m : \E i \in DOMAIN t : t[i] = RowAt(f, u, m[u])
  BY <1>6, <1>7 DEF Stores
<1>9. \A u \in DOMAIN m : LET row == RowAt(f, u, m[u])
                          IN /\ row.folder = f /\ row.uid = u /\ row.letter = box[f][u].letter
                             /\ row.flags = box[f][u].flags /\ row.gone = FALSE
  BY <1>5 DEF RowAt
<1>10. Current(f)
  BY DEF Current, InRound
<1>11. \A i \in DOMAIN rows \ crossed :
         rows[i].folder = f /\ rows[i].uid # Null => Leads(f, rows[i].uid, rows[i].letter)
  BY <1>1, <1>10 DEF RowsAreTrue
<1>12. ASSUME NEW i \in DOMAIN rows \ crossed PROVE SameLetter(rows[i].letter, t[i].letter)
  <2>1. CASE t[i] = rows[i]
    BY <2>1, SameLetterIsEquivalence
  <2>2. CASE t[i] # rows[i]
    <3>1. PICK u \in DOMAIN m :
            /\ rows[i].folder = f /\ t[i] = RowAt(f, u, m[u])
            /\ rows[i].uid = u \/ (rows[i].uid = Null /\ SameLetter(rows[i].letter, m[u].letter))
      BY <1>8, <2>2
    <3>2. t[i].letter = box[f][u].letter /\ m[u] = box[f][u] /\ u \in DOMAIN box[f] /\ u # Null
      BY <1>5, <1>7, <1>9, <3>1
    <3>3. CASE rows[i].uid = u
      <4>1. Leads(f, u, rows[i].letter)
        BY <1>11, <3>1, <3>2, <3>3
      <4>. QED
        BY <3>2, <4>1 DEF Leads
    <3>. QED
      BY <3>1, <3>2, <3>3
  <2>. QED
    BY <2>1, <2>2
<1>13. ASSUME NEW i \in DOMAIN t \ crossed, t[i].uid # Null, t[i].folder = f
       PROVE  Leads(f, t[i].uid, t[i].letter)
  <2>1. CASE i \in DOMAIN rows /\ t[i] = rows[i]
    BY <1>11, <1>13, <2>1
  <2>2. CASE ~(i \in DOMAIN rows /\ t[i] = rows[i])
    <3>1. PICK u \in DOMAIN m : t[i] = RowAt(f, u, m[u])
      BY <1>8, <2>2
    <3>2. t[i].uid = u /\ t[i].letter = box[f][u].letter /\ u \in DOMAIN box[f]
      BY <1>5, <1>9, <3>1
    <3>3. u < uidNext[f]
      BY <1>1, <1>2, <3>2 DEF ServerOK
    <3>. QED
      BY <3>2, <3>3, SameLetterIsEquivalence DEF Leads
  <2>. QED
    BY <2>1, <2>2
<1>14. ASSUME f \in quiet
       PROVE  /\ ~sync.full => ~ReadsAll(f) /\ ShownOf(t, f) \cap crossed # {}
              /\ UidsOf(t, f) = sync.local \cup ((DOMAIN sync.scanned \ sync.local) \ (sync.todo \ batch))
              /\ \A i \in RowsOf(t, f) : t[i].uid \in DOMAIN sync.scanned \ sync.local =>
                      ~t[i].gone /\ t[i].flags = sync.scanned[t[i].uid]
  <2>1. /\ PartIsEnough(f)
        /\ DOMAIN sync.scanned \subseteq DOMAIN box[f]
        /\ \A u \in DOMAIN sync.scanned : sync.scanned[u] = box[f][u].flags
        /\ UidsOf(rows, f) = sync.local \cup ((DOMAIN sync.scanned \ sync.local) \ sync.todo)
        /\ \A i \in RowsOf(rows, f) : rows[i].uid \in DOMAIN sync.scanned \ sync.local =>
                ~rows[i].gone /\ rows[i].flags = sync.scanned[rows[i].uid]
    BY <1>1, <1>14 DEF QuietRound
  <2>2. DOMAIN m = batch
    BY <1>3, <1>5, <2>1
  <2>3. UidsOf(t, f) = UidsOf(rows, f) \cup batch
    <3>1. ASSUME NEW u \in UidsOf(t, f) PROVE u \in UidsOf(rows, f) \cup batch
      <4>1. PICK i \in DOMAIN t : t[i].folder = f /\ t[i].uid = u /\ u # Null
        BY <3>1 DEF UidsOf, RowsOf
      <4>2. CASE i \in DOMAIN rows /\ t[i] = rows[i]
        BY <4>1, <4>2 DEF UidsOf, RowsOf
      <4>3. CASE ~(i \in DOMAIN rows /\ t[i] = rows[i])
        <5>1. PICK w \in DOMAIN m : t[i] = RowAt(f, w, m[w])
          BY <1>8, <4>3
        <5>. QED
          BY <1>9, <2>2, <4>1, <5>1
      <4>. QED
        BY <4>2, <4>3
    <3>2. ASSUME NEW u \in UidsOf(rows, f) PROVE u \in UidsOf(t, f)
      <4>1. PICK i \in DOMAIN rows : rows[i].folder = f /\ rows[i].uid = u /\ u # Null
        BY <3>2 DEF UidsOf, RowsOf
      <4>2. t[i].folder = f /\ t[i].uid = u /\ i \in DOMAIN t
        <5>1. CASE t[i] = rows[i]
          BY <1>8, <4>1, <5>1
        <5>2. CASE t[i] # rows[i]
          <6>1. PICK w \in DOMAIN m :
                  /\ t[i] = RowAt(f, w, m[w]) /\ (rows[i].uid = w \/ rows[i].uid = Null)
            BY <1>8, <5>2
          <6>. QED
            BY <1>8, <1>9, <4>1, <6>1
        <5>. QED
          BY <5>1, <5>2
      <4>. QED
        BY <4>1, <4>2 DEF UidsOf, RowsOf
    <3>3. ASSUME NEW u \in batch PROVE u \in UidsOf(t, f)
      <4>1. PICK i \in DOMAIN t : t[i] = RowAt(f, u, m[u])
        BY <1>8, <2>2
      <4>2. t[i].folder = f /\ t[i].uid = u /\ u # Null
        BY <1>7, <1>9, <2>2, <4>1
      <4>. QED
        BY <4>2 DEF UidsOf, RowsOf
    <3>. QED
      BY <3>1, <3>2, <3>3
  <2>4. UidsOf(t, f) = sync.local \cup ((DOMAIN sync.scanned \ sync.local) \ (sync.todo \ batch))
    BY <1>3, <2>1, <2>3
  <2>5. ASSUME NEW i \in RowsOf(t, f), t[i].uid \in DOMAIN sync.scanned \ sync.local
        PROVE  ~t[i].gone /\ t[i].flags = sync.scanned[t[i].uid]
    <3>1. i \in DOMAIN t /\ t[i].folder = f
      BY DEF RowsOf
    <3>2. CASE i \in DOMAIN rows /\ t[i] = rows[i]
      BY <2>1, <2>5, <3>1, <3>2 DEF RowsOf
    <3>3. CASE ~(i \in DOMAIN rows /\ t[i] = rows[i])
      <4>1. PICK w \in DOMAIN m : t[i] = RowAt(f, w, m[w])
        BY <1>8, <3>1, <3>3
      <4>. QED
        BY <1>9, <2>1, <2>5, <4>1
    <3>. QED
      BY <3>2, <3>3
  <2>6. ASSUME ~sync.full PROVE ~ReadsAll(f) /\ ShownOf(t, f) \cap crossed # {}
    <3>1. ~ReadsAll(f) /\ (Shown(f) \cap crossed = {} => ShownUids(f) = DOMAIN box[f])
      BY <2>1, <2>6 DEF PartIsEnough
    <3>2. Shown(f) \cap crossed # {}
      <4>1. SUFFICES ASSUME ShownUids(f) = DOMAIN box[f] PROVE FALSE
        BY <3>1
      <4>2. ShownUids(f) \subseteq UidsOf(rows, f)
        BY DEF ShownUids, Shown, LiveRows, UidsOf
      <4>. QED
        BY <1>3, <2>1, <4>1, <4>2
    <3>3. ASSUME NEW i \in Shown(f) PROVE i \in ShownOf(t, f)
      <4>1. i \in DOMAIN rows /\ rows[i].folder = f /\ ~rows[i].gone /\ rows[i].uid # Null
        BY DEF Shown, LiveRows, RowsOf
      <4>2. i \in DOMAIN t /\ t[i].folder = f /\ ~t[i].gone /\ t[i].uid # Null
        <5>1. CASE t[i] = rows[i]
          BY <1>8, <4>1, <5>1
        <5>2. CASE t[i] # rows[i]
          <6>1. PICK w \in DOMAIN m : t[i] = RowAt(f, w, m[w])
            BY <1>8, <4>1, <5>2
          <6>. QED
            BY <1>7, <1>8, <1>9, <4>1, <6>1
        <5>. QED
          BY <5>1, <5>2
      <4>. QED
        BY <4>2 DEF ShownOf, LiveRows, RowsOf
    <3>. QED
      BY <3>1, <3>2, <3>3
  <2>. QED
    BY <2>4, <2>5, <2>6
<1>. QED
  BY <1>8, <1>12, <1>13, <1>14

LEMMA Fetching ==
    ASSUME Inv, FetchAndStore, UNCHANGED events
    PROVE  Inv' /\ Kept
<1>1. /\ TypesOK /\ ServerOK /\ TableOK /\ SyncOK /\ TruthOK /\ CursorOK /\ RowsAreTrue /\ Table(rows)
      /\ QuietRound /\ QuietRoundRepairs /\ CountsFollowRows
  BY DEF Inv, TypesOK, TruthOK, TableOK
<1>2. PICK f : f = sync.folder
  OBVIOUS
<1>3. f \in Folders /\ sync \in SyncStates /\ sync.stage = "fetch"
  BY <1>1, <1>2 DEF SyncOK, SyncStates, FetchAndStore
<1>4. PICK batch \in SUBSET sync.todo : batch = Batch(sync.todo)
  BY DEF Batch
<1>5. PICK left : left = sync.todo \ batch
  OBVIOUS
<1>6. PICK t : t = WriteMessages(rows, f, Only(box[f], batch))
  OBVIOUS
<1>7. /\ IF left = {} THEN Conclude(t)
         ELSE rows' = t /\ sync' = [sync EXCEPT !.todo = left] /\ UNCHANGED <<cursor, unread, lagging>>
      /\ UNCHANGED <<server, req, quiet, crossed>>
  BY <1>2, <1>4, <1>5, <1>6 DEF FetchAndStore
<1>8. /\ Table(t) /\ DOMAIN rows \subseteq DOMAIN t /\ \A g : g # f => SameRows(rows, t, g)
      /\ \A i \in DOMAIN rows \ crossed : SameLetter(rows[i].letter, t[i].letter)
      /\ \A i \in DOMAIN t \ crossed :
           t[i].uid # Null /\ t[i].folder = f => Leads(f, t[i].uid, t[i].letter)
      /\ f \in quiet =>
           /\ ~sync.full => ~ReadsAll(f) /\ ShownOf(t, f) \cap crossed # {}
           /\ UidsOf(t, f) = sync.local \cup ((DOMAIN sync.scanned \ sync.local) \ left)
           /\ \A i \in RowsOf(t, f) : t[i].uid \in DOMAIN sync.scanned \ sync.local =>
                   ~t[i].gone /\ t[i].flags = sync.scanned[t[i].uid]
  BY <1>2, <1>3, <1>5, <1>6, BatchIsStored
<1>9. f \in quiet =>
        /\ DOMAIN sync.scanned \subseteq DOMAIN box[f]
        /\ \A u \in DOMAIN sync.scanned : sync.scanned[u] = box[f][u].flags
        /\ sync.full => DOMAIN sync.scanned = DOMAIN box[f]
  BY <1>1, <1>2, <1>3 DEF QuietRound
<1>10. CASE left = {}
  <2>1. f \in quiet => Complete(t, f)
    <3>1. SUFFICES ASSUME f \in quiet PROVE Complete(t, f)
      OBVIOUS
    <3>2. UidsOf(t, f) = sync.local \cup DOMAIN sync.scanned
      BY <1>8, <1>10, <3>1
    <3>. QED
      BY <1>8, <1>9, <3>1, <3>2 DEF Complete
  <2>2. Conclude(t) /\ UNCHANGED <<server, req, quiet, crossed, events>>
    BY <1>7, <1>10
  <2>. QED
    BY <1>2, <1>3, <1>8, <2>1, <2>2, Concluding
<1>11. CASE left # {}
  <2>1. /\ rows' = t /\ sync' = [sync EXCEPT !.todo = left]
        /\ UNCHANGED <<server, req, quiet, crossed, cursor, unread, lagging>>
    BY <1>7, <1>11
  <2>2. /\ sync'.stage = "fetch" /\ sync'.folder = f /\ sync'.full = sync.full /\ sync'.todo = left
        /\ sync'.local = sync.local /\ sync'.scanned = sync.scanned /\ sync'.validity = sync.validity
    BY <1>2, <1>3, <2>1 DEF SyncStates
  <2>3. Kept
    BY <1>8, <2>1 DEF Kept
  <2>4. RoundStep
    BY <2>1 DEF RoundStep, Inv
  <2>5. /\ ServerOK' /\ Onward /\ RequestsOK' /\ \A r \in Requests : RequestIsTrue(req[r])'
        /\ box' = box /\ uidNext' = uidNext /\ validity' = validity /\ crossed' = crossed
    BY <2>3, <2>4, RoundKeeps
  <2>6. SyncOK'
    <3>1. left \in SUBSET Uids
      BY <1>3, <1>5 DEF SyncStates
    <3>2. sync' \in SyncStates
      BY <1>3, <2>1, <3>1 DEF SyncStates
    <3>. QED
      BY <1>1, <1>2, <1>3, <1>5, <1>11, <2>2, <2>5, <3>2 DEF SyncOK
  <2>7. TypesOK'
    <3>1. TableOK'
      BY <1>1, <1>8, <2>1 DEF TableOK
    <3>. QED
      BY <2>5, <2>6, <3>1 DEF TypesOK
  <2>8. \A g : /\ InRound(g)' <=> InRound(g)
               /\ Settled(g)' <=> Settled(g)
    BY <1>2, <1>3, <2>1, <2>2 DEF Settled, InRound
  <2>9. CursorOK'
    BY <1>1, <2>1, <2>5, <2>8 DEF CursorOK
  <2>10. QuietRoundRepairs'
    <3>1. ASSUME NEW g \in Folders, Settled(g)' PROVE Repaired(g)'
      <4>1. Settled(g) /\ g # f
        BY <1>2, <1>3, <2>8, <3>1 DEF Settled, InRound
      <4>2. SameView(g) /\ crossed \subseteq crossed' /\ Repaired(g)
        BY <1>1, <1>8, <2>1, <2>5, <4>1, RepairsFolders DEF SameView
      <4>. QED
        BY <4>2, ViewStays
    <3>. QED
      BY <3>1 DEF QuietRoundRepairs, Repaired, Shown, ShownUids
  <2>11. RowsAreTrue'
    <3>1. ASSUME NEW i \in DOMAIN rows' \ crossed' PROVE RowIsTrue(i)'
      <4>1. i \in DOMAIN t \ crossed /\ rows'[i] = t[i]
        BY <2>1, <2>5, <3>1
      <4>2. CASE t[i].folder = f
        BY <1>8, <2>1, <2>5, <4>1, <4>2 DEF RowIsTrue, Leads
      <4>3. CASE t[i].folder # f
        <5>1. PICK g : g = t[i].folder /\ g # f
          BY <4>3
        <5>2. i \in RowsOf(t, g)
          BY <4>1, <5>1 DEF RowsOf
        <5>3. i \in DOMAIN rows \ crossed /\ rows[i].folder = g /\ rows'[i] = rows[i]
          BY <1>8, <4>1, <5>1, <5>2 DEF SameRows, RowsOf
        <5>4. Current(rows[i].folder)' => Current(rows[i].folder)
          BY <2>1, <2>2, <2>5, <2>8, <1>3, <5>3 DEF Current
        <5>. QED
          BY <1>1, <2>5, <5>3, <5>4, SameLetterIsEquivalence, RowStays
      <4>. QED
        BY <4>2, <4>3
    <3>. QED
      BY <3>1 DEF RowsAreTrue, RowIsTrue
  <2>12. QuietRound'
    <3>1. SUFFICES ASSUME f \in quiet PROVE QuietRound'
      BY <2>1, <2>2 DEF QuietRound
    <3>2. PartIsEnough(f)'
      <4>1. ReadsAll(f)' <=> ReadsAll(f)
        BY <2>5 DEF ReadsAll
      <4>2. Shown(f)' = ShownOf(t, f)
        BY <2>1 DEF Shown, ShownOf
      <4>. QED
        BY <1>8, <2>2, <2>5, <3>1, <4>1, <4>2 DEF PartIsEnough
    <3>3. UidsOf(rows', f) = sync.local \cup ((DOMAIN sync.scanned \ sync.local) \ left)
      BY <1>8, <2>1, <3>1
    <3>. QED
      BY <1>8, <1>9, <2>1, <2>2, <2>5, <3>1, <3>2, <3>3 DEF QuietRound
  <2>13. CountsFollowRows'
    <3>1. ASSUME NEW g \in Folders
          PROVE  unread'[g] = CountUnread(rows', g) \/ InRound(g)' \/ g \in lagging'
      <4>1. CASE g = f
        BY <2>2, <4>1 DEF InRound
      <4>2. CASE g # f
        <5>1. SameRows(rows, t, g)
          BY <1>8, <4>2
        <5>2. CountUnread(t, g) = CountUnread(rows, g)
          BY <5>1, SameFolder
        <5>. QED
          BY <1>1, <2>1, <2>8, <5>2 DEF CountsFollowRows
      <4>. QED
        BY <4>1, <4>2
    <3>. QED
      BY <3>1 DEF CountsFollowRows
  <2>. QED
    BY <2>3, <2>4, <2>5, <2>7, <2>9, <2>10, <2>11, <2>12, <2>13 DEF Inv, TruthOK, RoundStep
<1>. QED
  BY <1>10, <1>11

-----------------------------------------------------------------------------
(* The initial states                                                      *)

\* A finite set in some order.
LEMMA InOrder ==
    ASSUME NEW S, IsFiniteSet(S)
    PROVE  /\ SetToSeq(S) \in Seq(S)
           /\ \A i, j \in DOMAIN SetToSeq(S) : i # j => SetToSeq(S)[i] # SetToSeq(S)[j]
<1>. DEFINE n == Cardinality(S)
<1>1. n \in Nat /\ ExistsBijection(1 .. n, S)
  BY FS_CardinalityType
<1>2. \E g \in [1 .. n -> S] : IsInjective(g)
  BY <1>1 DEF ExistsBijection, Bijection, Injection, IsInjective
<1>3. PICK g \in [1 .. n -> S] : IsInjective(g) /\ g = SetToSeq(S)
  BY <1>2 DEF SetToSeq
<1>. QED
  BY <1>1, <1>3 DEF IsInjective

LEMMA MirroredIsFinite ==
    ASSUME NEW f \in Folders
    PROVE  IsFiniteSet(Mirrored(f))
<1>. DEFINE D == DOMAIN Initial[f]
            row(u) == [folder |-> f, uid |-> u, letter |-> Initial[f][u], flags |-> {}, gone |-> FALSE]
            g == [u \in D |-> row(u)]
<1>1. Initial[f] \in Seq(Letters)
  BY MailboxAssumption
<1>2. IsFiniteSet(D)
  BY <1>1, FS_Interval
<1>3. Mirrored(f) = {row(u) : u \in D}
  BY DEF Mirrored
<1>4. g \in Surjection(D, Mirrored(f))
  BY <1>3 DEF Surjection
<1>. QED
  BY <1>2, <1>4, FS_Surjection

LEMMA FirstRows ==
    LET S == UNION {Mirrored(f) : f \in Synced}
    IN  /\ IsFiniteSet(S)
        /\ \A row \in S : /\ row \in Row /\ row.folder \in Synced
                          /\ row.uid \in DOMAIN Initial[row.folder]
                          /\ row.letter = Initial[row.folder][row.uid]
        /\ \A row, other \in S : row.folder = other.folder /\ row.uid = other.uid => row = other
<1>. DEFINE T == {Mirrored(f) : f \in Synced}
            S == UNION T
            g == [f \in Synced |-> Mirrored(f)]
<1>1. Synced \in SUBSET Folders /\ IsFiniteSet(Synced)
  BY MailboxAssumption, FS_Subset
<1>2. IsFiniteSet(T)
  <2>1. g \in Surjection(Synced, T)
    BY DEF Surjection
  <2>. QED
    BY <1>1, <2>1, FS_Surjection
<1>3. \A M \in T : IsFiniteSet(M)
  BY <1>1, MirroredIsFinite
<1>4. ASSUME NEW row \in S
      PROVE  \E f \in Synced : \E u \in DOMAIN Initial[f] :
                row = [folder |-> f, uid |-> u, letter |-> Initial[f][u], flags |-> {}, gone |-> FALSE]
  BY <1>4 DEF Mirrored
<1>5. ASSUME NEW row \in S
      PROVE  /\ row \in Row /\ row.folder \in Synced
             /\ row.uid \in DOMAIN Initial[row.folder]
             /\ row.letter = Initial[row.folder][row.uid]
  <2>1. PICK f \in Synced : \E u \in DOMAIN Initial[f] :
           row = [folder |-> f, uid |-> u, letter |-> Initial[f][u], flags |-> {}, gone |-> FALSE]
    BY <1>4, <1>5
  <2>2. PICK u \in DOMAIN Initial[f] :
           row = [folder |-> f, uid |-> u, letter |-> Initial[f][u], flags |-> {}, gone |-> FALSE]
    BY <2>1
  <2>3. Initial[f] \in Seq(Letters) /\ Len(Initial[f]) <= MaxUid
    BY <1>1, MailboxAssumption
  <2>4. u \in Uids /\ Initial[f][u] \in Letters
    BY <2>3, Bounds
  <2>. QED
    BY <1>1, <2>2, <2>4 DEF Row
<1>6. ASSUME NEW row \in S, NEW other \in S, row.folder = other.folder, row.uid = other.uid
      PROVE  row = other
  <2>1. PICK f \in Synced : \E u \in DOMAIN Initial[f] :
           row = [folder |-> f, uid |-> u, letter |-> Initial[f][u], flags |-> {}, gone |-> FALSE]
    BY <1>4, <1>6
  <2>2. PICK h \in Synced : \E u \in DOMAIN Initial[h] :
           other = [folder |-> h, uid |-> u, letter |-> Initial[h][u], flags |-> {}, gone |-> FALSE]
    BY <1>4, <1>6
  <2>. QED
    BY <1>6, <2>1, <2>2
<1>. QED
  BY <1>2, <1>3, <1>5, <1>6, FS_UNION

LEMMA InitInv == Init => Inv
<1>. SUFFICES ASSUME Init PROVE Inv
  OBVIOUS
<1>. DEFINE S == UNION {Mirrored(f) : f \in Synced}
            letters(f) == [u \in DOMAIN Initial[f] |-> [letter |-> Initial[f][u], flags |-> {}]]
<1>1. /\ box = [f \in Folders |-> letters(f)]
      /\ uidNext = [f \in Folders |-> Len(Initial[f]) + 1]
      /\ validity = [f \in Folders |-> 1]
      /\ cursor = [f \in Folders |-> IF f \in Synced THEN 1 ELSE 0]
      /\ rows = SetToSeq(S)
      /\ unread = [f \in Folders |-> CountUnread(rows, f)]
      /\ sync = NoSync /\ req = [r \in Requests |-> NoRequest]
      /\ events = 0 /\ quiet = {} /\ crossed = {} /\ lagging = {}
  BY DEF Init
<1>2. \A f \in Folders : /\ Initial[f] \in Seq(Letters) /\ Len(Initial[f]) \in 0 .. MaxUid
                         /\ DOMAIN Initial[f] = 1 .. Len(Initial[f])
                         /\ \A u \in DOMAIN Initial[f] : Initial[f][u] \in Letters
  BY MailboxAssumption
<1>3. ServerOK
  <2>1. ASSUME NEW f \in Folders
        PROVE  /\ box[f] \in Mailboxes /\ uidNext[f] \in 1 .. MaxUid + 1 /\ validity[f] \in 1 .. MaxValidity
               /\ DOMAIN box[f] \subseteq 1 .. (uidNext[f] - 1)
    <3>1. PICK b : b = box[f]
      OBVIOUS
    <3>2. b = letters(f) /\ DOMAIN b = 1 .. Len(Initial[f])
      BY <1>1, <1>2, <3>1
    <3>3. DOMAIN b \in SUBSET Uids
      BY <1>2, <3>2, Bounds
    <3>4. \A u \in DOMAIN b : b[u] \in Mail
      BY <1>2, <3>2 DEF Mail
    <3>5. b \in Mailboxes
      BY <3>2, <3>3, <3>4, IsMailbox
    <3>. QED
      BY <1>1, <1>2, <3>1, <3>2, <3>5, Bounds
  <2>. QED
    BY <1>1, <2>1 DEF ServerOK
<1>4. /\ IsFiniteSet(S)
      /\ \A row \in S : /\ row \in Row /\ row.folder \in Synced
                        /\ row.uid \in DOMAIN Initial[row.folder]
                        /\ row.letter = Initial[row.folder][row.uid]
      /\ \A row, other \in S : row.folder = other.folder /\ row.uid = other.uid => row = other
  BY FirstRows
<1>. HIDE DEF S
<1>5. rows \in Seq(S) /\ \A i, j \in DOMAIN rows : i # j => rows[i] # rows[j]
  BY <1>1, <1>4, InOrder
<1>6. \A i \in DOMAIN rows : rows[i] \in S
  BY <1>5
<1>7. Table(rows)
  <2>1. rows \in Seq(Row)
    BY <1>4, <1>5
  <2>2. UidsAreUnique(rows)
    BY <1>4, <1>5, <1>6 DEF UidsAreUnique
  <2>. QED
    BY <2>1, <2>2 DEF Table
<1>8. TableOK
  <2>1. \A f \in Folders : CountUnread(rows, f) \in Nat
    BY <1>7, CountIsNatural
  <2>. QED
    BY <1>1, <1>7, <2>1, Bounds DEF TableOK
<1>9. SyncOK
  BY <1>1, NoSyncIsIdle DEF SyncOK
<1>10. RequestsOK /\ \A r \in Requests : RequestIsTrue(req[r])
  BY <1>1, <1>3, NoRequestIsTrue DEF RequestsOK
<1>11. RowsAreTrue
  <2>1. SUFFICES ASSUME NEW i \in DOMAIN rows
                 PROVE  Leads(rows[i].folder, rows[i].uid, rows[i].letter)
    BY DEF RowsAreTrue
  <2>2. PICK f, u : f = rows[i].folder /\ u = rows[i].uid
    OBVIOUS
  <2>3. f \in Folders /\ u \in DOMAIN Initial[f] /\ rows[i].letter = Initial[f][u]
    BY <1>4, <1>6, <2>2, MailboxAssumption
  <2>4. u < uidNext[f] /\ box[f][u].letter = Initial[f][u]
    BY <1>1, <1>2, <2>3
  <2>. QED
    BY <2>2, <2>3, <2>4, SameLetterIsEquivalence DEF Leads
<1>12. CursorOK
  BY <1>1 DEF CursorOK, Settled
<1>13. QuietRound /\ QuietRoundRepairs
  BY <1>1 DEF QuietRound, QuietRoundRepairs, Settled
<1>14. CountsFollowRows
  BY <1>1 DEF CountsFollowRows
<1>15. TypesOK
  BY <1>3, <1>8, <1>9, <1>10 DEF TypesOK
<1>. QED
  BY <1>1, <1>10, <1>11, <1>12, <1>13, <1>14, <1>15, Bounds DEF Inv, TruthOK

-----------------------------------------------------------------------------
(* The steps                                                               *)

LEMMA Standing ==
    ASSUME Inv, UNCHANGED vars
    PROVE  Inv' /\ Kept
<1>1. Kept
  BY SameRowsAreKept DEF vars
<1>2. TypesOK'
  BY DEF vars, Inv, TypesOK, ServerOK, TableOK, SyncOK, RequestsOK, RequestIsOK
<1>3. TruthOK'
  BY DEF vars, Inv, TruthOK, CursorOK, Settled, InRound, RowsAreTrue, Current, Leads, RequestIsTrue
<1>4. QuietRound'
  BY DEF vars, Inv, QuietRound, PartIsEnough, ReadsAll, Shown, ShownUids
<1>5. QuietRoundRepairs'
  BY DEF vars, Inv, QuietRoundRepairs, ReadsAll, Settled, InRound
<1>6. CountsFollowRows'
  BY DEF vars, Inv, CountsFollowRows, InRound
<1>. QED
  BY <1>1, <1>2, <1>3, <1>4, <1>5, <1>6 DEF vars, Inv

LEMMA NextInv ==
    ASSUME Inv, [Next]_vars
    PROVE  Inv' /\ Kept
<1>1. events \in 0 .. MaxEvents
  BY DEF Inv
<1>2. CASE UNCHANGED vars
  BY <1>2, Standing
<1>3. CASE Round
  BY <1>1, <1>3, Selecting, Opening, Scanning, Fetching, ConcludingAtOnce DEF Round
<1>4. CASE Answer
  BY <1>1, <1>4, Acting, WritingBack, Hiding DEF Answer
<1>5. CASE Disturbance
  <2>1. events' \in 0 .. MaxEvents
    BY <1>1, <1>5, Bounds DEF Disturbance
  <2>2. CASE Elsewhere
    BY <2>1, <2>2, Arriving, FlaggingElsewhere, ExpungingElsewhere, Rebuilding DEF Elsewhere
  <2>3. CASE UserAsks
    BY <2>1, <2>3, Asking, AskingToAppend DEF UserAsks
  <2>4. CASE Failure
    BY <2>1, <2>4, BreakingOff, Failing, Crashing DEF Failure
  <2>. QED
    BY <1>5, <2>2, <2>3, <2>4 DEF Disturbance
<1>. QED
  BY <1>2, <1>3, <1>4, <1>5 DEF Next

LEMMA InvAlways == Spec => []Inv
<1>1. Inv /\ [Next]_vars => Inv'
  BY NextInv
<1>. QED
  BY <1>1, InitInv, PTL DEF Spec

-----------------------------------------------------------------------------
(* Theorems                                                                *)

\* Whatever the rounds, the requests and the server do to the rows of messages,
\* a folder never holds a UID twice: the unique index never refuses a write
\* but the two that the code catches, of a row that is moved and of one that is saved.
THEOREM MailboxTypes == Spec => []TypeOK
<1>1. Inv => TypeOK
  <2>. SUFFICES ASSUME Inv PROVE TypeOK
    OBVIOUS
  <2>1. ServerOK /\ TableOK /\ SyncOK /\ RequestsOK /\ events \in 0 .. MaxEvents
    BY DEF Inv, TypesOK
  <2>2. ASSUME NEW f \in Folders, NEW u \in DOMAIN box[f]
        PROVE  box[f][u] \in [letter : Letters, flags : SUBSET Flags]
    BY <2>1, Mailbox DEF ServerOK, Mail
  <2>3. rows \in Seq(Row) /\ UidsAreUnique(rows)
    BY <2>1 DEF TableOK, Table
  <2>4. \A r \in Requests : req[r].stage \in {"idle", "asked", "answered", "closing"}
    BY <2>1 DEF RequestsOK, RequestIsOK
  <2>5. sync.stage \in {"idle", "opened", "scan", "fetch", "conclude"}
    BY <2>1 DEF SyncOK, SyncStates
  <2>. QED
    BY <2>1, <2>2, <2>3, <2>4, <2>5 DEF TypeOK, ServerOK, TableOK, UidsAreUnique
<1>. QED
  BY <1>1, InvAlways, PTL

\* refreshFolderCounts is called wherever a row of a folder changes, but where the
\* property says: nothing else lets the unread count drift from the rows.
THEOREM CountsFollow == Spec => []CountsFollowRows
<1>1. Inv => CountsFollowRows
  BY DEF Inv
<1>. QED
  BY <1>1, InvAlways, PTL

\* syncFolder: a round that nobody disturbs leaves the rows of its folder like the
\* server, in whatever state earlier rounds, requests and crashes left them.
THEOREM UndisturbedRoundsRepair == Spec => []QuietRoundRepairs
<1>1. Inv => QuietRoundRepairs
  BY DEF Inv
<1>. QED
  BY <1>1, InvAlways, PTL

\* writeMessages: no row of the archive is ever overwritten with a letter of
\* another Message-ID, unless it carries a UID of another numbering.
THEOREM LettersAreKept == Spec => ContentIsKept
<1>1. Inv /\ [Next]_vars =>
        [\A i \in DOMAIN rows : SameLetter(rows[i].letter, rows'[i].letter) \/ i \in crossed]_vars
  BY NextInv DEF Kept
<1>. QED
  BY <1>1, InvAlways, PTL DEF Spec, ContentIsKept

\* Message actions and rounds name letters by UID alone.  As long as a row carries a
\* UID of the present numbering of its folder, that UID leads to the letter in the
\* row or to none: it was given before the next one, and never to another letter.
\* The same holds of the UID that a move has read, or is about to write, unless the
\* folder is rebuilt under it.
THEOREM UidsLeadToTheirLetters ==
    Spec => [](RowsAreTrue /\ \A r \in Requests : RequestIsTrue(req[r]))
<1>1. Inv => RowsAreTrue /\ \A r \in Requests : RequestIsTrue(req[r])
  BY DEF Inv, TruthOK
<1>. QED
  BY <1>1, InvAlways, PTL
=============================================================================
