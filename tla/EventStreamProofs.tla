-------------------------- MODULE EventStreamProofs --------------------------
(***************************************************************************)
(* What holds of the hub, the browser's client and the page for every      *)
(* length of the history, every limit of streams, and any number of        *)
(* rounds, cuts, restarts and failed attempts.                             *)
(***************************************************************************)
EXTENDS EventStream, FiniteSetTheorems, SequenceTheorems, TLAPS

\* The history holds the last events of this process, one per id.
HistoryRuns ==
    /\ Len(history) <= seq
    /\ \A i \in 1 .. Len(history) : history[i].id = seq - Len(history) + i

\* What waits to be read is in order, and the history has the recent part of it.
ChannelRuns ==
    /\ \A i \in 1 .. Len(channel) : channel[i].id \in 1 .. seq
    /\ \A i, j \in 1 .. Len(channel) : i < j => channel[i].id < channel[j].id
    /\ \A i \in 1 .. Len(channel) :
          channel[i].id > seq - Len(history)
            => channel[i] = history[channel[i].id - (seq - Len(history))]

\* The next event to be read is newer than the last one that was, unless that
\* one came from an earlier process.
ReadInOrder ==
    ~foreign => /\ lastId <= seq
                /\ \A i \in 1 .. Len(channel) : channel[i].id > lastId

\* The wire follows the client and the hub.
LinkOK ==
    /\ ClientTypeOK
    /\ wire \in {"idle", "calling", "up", "refused", "silent"}
    /\ wire = "up" <=> attached
    /\ wire = "idle" <=> source = "none"
    /\ wire = "calling" => source = "requested"

\* The rounds, the request and the flags of the page.
PageOK ==
    /\ round \in [Tiers -> {"none", "waiting", "running"}]
    /\ \A t, u \in Tiers : round[t] = "running" /\ round[u] = "running" => t = u
    /\ request \in {"none", "single", "bulk"}
    /\ {found, running, refetch, stale, excused, foreign} \subseteq BOOLEAN
    /\ thrown \in Nat

NewIsRead == \E i \in 1 .. Len(channel) : channel[i].kind = "new"

\* Mail the page does not show is excused, or something is under way that will
\* make the page fetch it: the end of the attempt, of the window, an event to be
\* read, a refetch, or the opening of the next stream.
WillBeTold ==
    stale =>
        \/ excused \/ refetch \/ window \/ found \/ NewIsRead
        \/ everOpen /\ ~(source = "open" /\ wire = "up")

\* In s the end of a user's round comes after its start, if that is newer than
\* from, or the round goes on.
EndFollows(s, from, goesOn) ==
    \A i \in 1 .. Len(s) : s[i].tier = "user" /\ s[i].kind = "start" /\ s[i].id > from =>
        goesOn \/ \E j \in 1 .. Len(s) : j > i /\ Settles(s[j])

UserIsServed == round["user"] # "none"

EndsAreRead ==
    EndFollows(history, thrown, UserIsServed) /\ EndFollows(channel, thrown, UserIsServed)

HubOK == HubTypeOK /\ HistoryRuns /\ ChannelRuns /\ ReadInOrder /\ EndsAreRead

\* The inductive invariant.
Inv == HubOK /\ LinkOK /\ OneWayForward /\ PageOK /\ WillBeTold

-----------------------------------------------------------------------------
(* The history and the channel                                             *)

\* The end of a sequence after its first k elements.
LEMMA EndOfSequence ==
    ASSUME NEW S, NEW s \in Seq(S), NEW k \in 0 .. Len(s)
    PROVE  /\ SubSeq(s, k + 1, Len(s)) \in Seq(S)
           /\ Len(SubSeq(s, k + 1, Len(s))) = Len(s) - k
           /\ \A i \in 1 .. Len(s) - k : SubSeq(s, k + 1, Len(s))[i] = s[i + k]
<1>. DEFINE t == SubSeq(s, k + 1, Len(s))
<1>1. k + 1 \in Int /\ Len(s) \in Int /\ \A i \in k + 1 .. Len(s) : s[i] \in S
  OBVIOUS
<1>2. /\ t \in Seq(S)
      /\ Len(t) = IF k + 1 <= Len(s) THEN Len(s) - (k + 1) + 1 ELSE 0
      /\ \A i \in 1 .. Len(s) - (k + 1) + 1 : t[i] = s[(k + 1) + i - 1]
  BY <1>1, SubSeqProperties
<1>. HIDE DEF t
<1>3. Len(t) = Len(s) - k
  BY <1>2
<1>4. ASSUME NEW i \in 1 .. Len(s) - k PROVE t[i] = s[i + k]
  <2>1. i \in 1 .. Len(s) - (k + 1) + 1 /\ (k + 1) + i - 1 = i + k
    BY <1>4
  <2>. QED
    BY <1>2, <2>1
<1>. QED
  BY <1>2, <1>3, <1>4 DEF t

\* The part of a history h that is newer than id is its end.
LEMMA NewerPart ==
    ASSUME NEW h \in Seq(Event), NEW last \in Nat, NEW id \in Nat, Len(h) <= last,
           \A i \in 1 .. Len(h) : h[i].id = last - Len(h) + i
    PROVE  \E k \in 0 .. Len(h) :
              /\ Len(h) - Cardinality({i \in DOMAIN h : h[i].id > id}) = k
              /\ \A i \in 1 .. Len(h) : h[i].id > id <=> i > k
<1>. DEFINE L == Len(h)
            off == last - L
            k == IF id <= off THEN 0 ELSE IF id - off >= L THEN L ELSE id - off
            newer == {i \in DOMAIN h : h[i].id > id}
<1>1. L \in Nat /\ off \in Nat /\ DOMAIN h = 1 .. L /\ k \in 0 .. L
  OBVIOUS
<1>2. \A i \in 1 .. L : h[i].id > id <=> i > k
  BY <1>1
<1>3. newer = k + 1 .. L
  <2>. HIDE DEF k, L
  <2>. QED
    BY <1>1, <1>2
<1>4. Cardinality(newer) = L - k
  <2>. HIDE DEF k, L, newer
  <2>1. Cardinality(k + 1 .. L) = IF k + 1 > L THEN 0 ELSE L - (k + 1) + 1
    BY <1>1, FS_Interval
  <2>. QED
    BY <1>1, <1>3, <2>1
<1>5. L - Cardinality(newer) = k
  <2>. HIDE DEF k, L, newer
  <2>. QED
    BY <1>1, <1>4
<1>. QED
  BY <1>1, <1>2, <1>5

\* After(id) is the part of the history that is newer than id.
LEMMA AfterIsNewer ==
    ASSUME HubTypeOK, HistoryRuns, NEW id \in Nat
    PROVE  \E k \in 0 .. Len(history) :
              /\ After(id) = SubSeq(history, k + 1, Len(history))
              /\ \A i \in 1 .. Len(history) : history[i].id > id <=> i > k
BY NewerPart DEF HubTypeOK, HistoryRuns, After

\* t is the rest of s after its first k elements.
IsRest(t, s, k) ==
    /\ Len(t) + k = Len(s)
    /\ \A i \in 1 .. Len(t) : t[i] = s[i + k]

\* What holds of a sequence's ends holds of a later part of it.
LEMMA EndsOfRest ==
    ASSUME NEW s \in Seq(Event), NEW t \in Seq(Event), NEW k \in Nat, NEW g \in BOOLEAN,
           NEW from \in Nat,
           EndFollows(s, from, g), IsRest(t, s, k)
    PROVE  EndFollows(t, from, g)
<1>. USE DEF IsRest
<1>1. SUFFICES ASSUME NEW i \in 1 .. Len(t), t[i].tier = "user", t[i].kind = "start",
                      t[i].id > from, ~g
               PROVE  \E j \in 1 .. Len(t) : j > i /\ Settles(t[j])
  BY DEF EndFollows
<1>2. i + k \in 1 .. Len(s) /\ s[i + k] = t[i]
  BY <1>1
<1>3. PICK j \in 1 .. Len(s) : j > i + k /\ Settles(s[j])
  BY <1>1, <1>2 DEF EndFollows
<1>4. j - k \in 1 .. Len(t) /\ j - k > i /\ (j - k) + k = j
  BY <1>1, <1>3
<1>5. t[j - k] = s[j]
  BY <1>4
<1>. QED
  BY <1>3, <1>4, <1>5

\* ... and of one more event, which begins no round unless it goes on.
LEMMA EndsOfAppend ==
    ASSUME NEW s \in Seq(Event), NEW e \in Event, NEW g \in BOOLEAN, NEW h \in BOOLEAN,
           NEW from \in Nat,
           EndFollows(s, from, g),
           e.tier = "user" /\ e.kind = "start" => h,
           g => h \/ Settles(e)
    PROVE  EndFollows(Append(s, e), from, h)
<1>. DEFINE t == Append(s, e)
<1>1. /\ Len(t) = Len(s) + 1 /\ Len(s) \in Nat
      /\ \A i \in 1 .. Len(s) : t[i] = s[i]
      /\ t[Len(s) + 1] = e
  OBVIOUS
<1>. HIDE DEF t
<1>2. SUFFICES ASSUME NEW i \in 1 .. Len(t), t[i].tier = "user", t[i].kind = "start",
                      t[i].id > from, ~h
               PROVE  \E j \in 1 .. Len(t) : j > i /\ Settles(t[j])
  BY DEF EndFollows, t
<1>3. i \in 1 .. Len(s) /\ t[i] = s[i]
  BY <1>1, <1>2
<1>4. CASE g
  BY <1>1, <1>2, <1>3, <1>4
<1>5. CASE ~g
  <2>1. PICK j \in 1 .. Len(s) : j > i /\ Settles(s[j])
    BY <1>2, <1>3, <1>5 DEF EndFollows
  <2>. QED
    BY <1>1, <2>1
<1>. QED
  BY <1>4, <1>5

WithEvent(kind, tier) == Append(history, [kind |-> kind, tier |-> tier, id |-> seq + 1])

\* What is remembered is the end of the history with the event.
LEMMA RememberedPart ==
    ASSUME HubTypeOK, HistoryRuns, NEW kind \in Kinds, NEW tier \in Tiers, Publish(kind, tier)
    PROVE  \E k \in 0 .. Len(WithEvent(kind, tier)) :
              /\ history' \in Seq(Event) /\ Len(history') = Len(WithEvent(kind, tier)) - k
              /\ \A i \in 1 .. Len(history') : history'[i] = WithEvent(kind, tier)[i + k]
              /\ Len(history') <= HistoryLimit
<1>. DEFINE e == [kind |-> kind, tier |-> tier, id |-> seq + 1]
            all == WithEvent(kind, tier)
<1>1. /\ e \in Event /\ history \in Seq(Event) /\ Len(history) \in Nat
      /\ Len(all) = Len(history) + 1
      /\ \A i \in 1 .. Len(history) : all[i] = history[i]
      /\ all[Len(history) + 1] = e
  BY DEF HubTypeOK, Event, WithEvent
<1>. HIDE DEF all
<1>2. CASE HistoryLimit = 0
  <2>1. history' = history /\ Len(history) = 0
    BY <1>1, <1>2 DEF Publish, Remembered, HubTypeOK
  <2>2. 1 \in 0 .. Len(all) /\ Len(all) - 1 = 0
    BY <1>1, <2>1
  <2>. QED
    BY <1>1, <1>2, <2>1, <2>2
<1>3. CASE HistoryLimit # 0
  <2>1. PICK k \in 0 .. Len(history) :
          /\ history' = Append(SubSeq(history, k + 1, Len(history)), e)
          /\ Len(history') <= HistoryLimit
    BY <1>3 DEF Publish, Remembered
  <2>. DEFINE s == SubSeq(history, k + 1, Len(history))
  <2>2. /\ s \in Seq(Event) /\ Len(s) = Len(history) - k
        /\ \A i \in 1 .. Len(s) : s[i] = history[i + k]
    BY <1>1, EndOfSequence
  <2>. HIDE DEF s, e
  <2>3. /\ history' \in Seq(Event) /\ Len(history') = Len(s) + 1
        /\ \A i \in 1 .. Len(s) : history'[i] = s[i]
        /\ history'[Len(s) + 1] = e
    <3>1. history' = Append(s, e)
      BY <2>1 DEF s
    <3>. QED
      BY <1>1, <2>2, <3>1
  <2>4. ASSUME NEW i \in 1 .. Len(history') PROVE history'[i] = all[i + k]
    <3>1. CASE i \in 1 .. Len(s)
      <4>1. i + k \in 1 .. Len(history)
        BY <1>1, <2>2, <3>1
      <4>. QED
        BY <1>1, <2>2, <2>3, <3>1, <4>1
    <3>2. CASE i = Len(s) + 1
      <4>1. i + k = Len(history) + 1
        BY <1>1, <2>2, <3>2
      <4>. QED
        BY <1>1, <2>3, <3>2, <4>1
    <3>. QED
      BY <1>1, <2>2, <2>3, <2>4, <3>1, <3>2
  <2>5. k \in 0 .. Len(all) /\ Len(history') = Len(all) - k
    BY <1>1, <2>2, <2>3
  <2>. QED
    BY <2>1, <2>3, <2>4, <2>5 DEF all
<1>. QED
  BY <1>2, <1>3 DEF all

\* The history and the channel after an event is published.
LEMMA PublishHub ==
    ASSUME HubTypeOK, HistoryRuns, ChannelRuns, ReadInOrder, lastId \in Nat, thrown \in Nat,
           NEW kind \in Kinds, NEW tier \in Tiers, Publish(kind, tier),
           window' \in BOOLEAN, UNCHANGED <<attached, halfOpen, lastId, foreign, thrown>>,
           NEW g \in BOOLEAN, NEW h \in BOOLEAN,
           EndFollows(history, thrown, g), EndFollows(channel, thrown, g),
           kind = "start" /\ tier = "user" => h,
           g => h \/ (kind = "done" /\ tier = "user")
    PROVE  /\ HubTypeOK' /\ HistoryRuns' /\ ChannelRuns' /\ ReadInOrder'
           /\ EndFollows(history', thrown, h) /\ EndFollows(channel', thrown, h)
           /\ NewIsRead \/ (attached /\ kind = "new") => NewIsRead'
<1>. DEFINE e == [kind |-> kind, tier |-> tier, id |-> seq + 1]
            all == WithEvent(kind, tier)
            off == seq - Len(history)
<1>1. /\ e \in Event /\ e.id = seq + 1 /\ e.kind = kind /\ e.tier = tier
      /\ seq \in Nat /\ off \in Nat /\ Len(history) \in Nat /\ seq' = seq + 1
      /\ history \in Seq(Event) /\ channel \in Seq(Event)
  BY DEF HubTypeOK, HistoryRuns, Event, Publish
<1>2. /\ all \in Seq(Event) /\ Len(all) = Len(history) + 1
      /\ \A i \in 1 .. Len(history) : all[i] = history[i]
      /\ all[Len(history) + 1] = e
  BY <1>1 DEF WithEvent
<1>3. \A i \in 1 .. Len(all) : all[i].id = off + i
  <2>. SUFFICES ASSUME NEW i \in 1 .. Len(all) PROVE all[i].id = off + i
    OBVIOUS
  <2>. HIDE DEF all, e
  <2>1. CASE i \in 1 .. Len(history)
    BY <1>2, <2>1 DEF HistoryRuns
  <2>2. CASE i = Len(history) + 1
    BY <1>1, <1>2, <2>2
  <2>. QED
    BY <1>1, <1>2, <2>1, <2>2
<1>4. EndFollows(all, thrown, h)
  BY <1>1, EndsOfAppend DEF Settles, WithEvent
<1>5. PICK k \in 0 .. Len(all) :
        /\ history' \in Seq(Event) /\ Len(history') = Len(all) - k
        /\ \A i \in 1 .. Len(history') : history'[i] = all[i + k]
        /\ Len(history') <= HistoryLimit
  BY RememberedPart
<1>. HIDE DEF all, e
<1>6. HistoryRuns' /\ seq' - Len(history') = off + k
  <2>1. Len(history') <= seq' /\ seq' - Len(history') = off + k
    BY <1>1, <1>2, <1>5
  <2>2. ASSUME NEW i \in 1 .. Len(history') PROVE history'[i].id = seq' - Len(history') + i
    <3>1. i + k \in 1 .. Len(all)
      BY <1>1, <1>2, <1>5
    <3>2. history'[i].id = off + (i + k)
      BY <1>3, <1>5, <3>1
    <3>. QED
      BY <1>1, <2>1, <3>1, <3>2
  <2>. QED
    BY <2>1, <2>2 DEF HistoryRuns
<1>7. EndFollows(history', thrown, h)
  <2>1. IsRest(history', all, k)
    BY <1>1, <1>2, <1>5 DEF IsRest
  <2>. QED
    BY <1>2, <1>4, <1>5, <2>1, EndsOfRest
<1>8. CASE ~attached
  <2>1. channel = <<>> /\ channel' = <<>>
    BY <1>8 DEF HubTypeOK, Publish
  <2>2. ChannelRuns' /\ EndFollows(channel', thrown, h)
    BY <2>1 DEF ChannelRuns, EndFollows
  <2>3. ReadInOrder' /\ ~NewIsRead
    BY <1>1, <2>1 DEF ReadInOrder, NewIsRead
  <2>4. HubTypeOK'
    BY <1>1, <1>5, <2>1 DEF HubTypeOK, Occupied
  <2>. QED
    BY <1>6, <1>7, <1>8, <2>2, <2>3, <2>4
<1>9. CASE attached
  <2>1. channel' = Append(channel, e)
    BY <1>9 DEF Publish, e
  <2>2. /\ channel' \in Seq(Event) /\ Len(channel') = Len(channel) + 1 /\ Len(channel) \in Nat
        /\ \A i \in 1 .. Len(channel) : channel'[i] = channel[i]
        /\ channel'[Len(channel) + 1] = e
    BY <1>1, <2>1
  <2>3. EndFollows(channel', thrown, h)
    BY <1>1, <2>1, EndsOfAppend DEF Settles
  <2>4. HubTypeOK'
    BY <1>1, <1>5, <2>2, <1>9 DEF HubTypeOK, Occupied
  <2>5. ASSUME NEW i \in 1 .. Len(channel') PROVE channel'[i].id \in 1 .. seq'
    <3>1. CASE i \in 1 .. Len(channel)
      BY <1>1, <2>2, <3>1 DEF ChannelRuns
    <3>2. CASE i = Len(channel) + 1
      BY <1>1, <2>2, <3>2
    <3>. QED
      BY <2>2, <3>1, <3>2
  <2>6. ASSUME NEW i \in 1 .. Len(channel'), NEW j \in 1 .. Len(channel'), i < j
        PROVE  channel'[i].id < channel'[j].id
    <3>1. i \in 1 .. Len(channel)
      BY <2>2, <2>6
    <3>2. CASE j \in 1 .. Len(channel)
      BY <2>2, <2>6, <3>1, <3>2 DEF ChannelRuns
    <3>3. CASE j = Len(channel) + 1
      BY <1>1, <2>2, <3>1, <3>3 DEF ChannelRuns
    <3>. QED
      BY <2>2, <2>6, <3>2, <3>3
  <2>7. ASSUME NEW i \in 1 .. Len(channel'), channel'[i].id > off + k
        PROVE  channel'[i] = history'[channel'[i].id - (off + k)]
    <3>. DEFINE n == channel'[i].id
    <3>1. n \in 1 .. seq' /\ n - (off + k) \in 1 .. Len(history')
      BY <1>1, <1>2, <1>5, <2>5, <2>7
    <3>2. history'[n - (off + k)] = all[n - off] /\ n - off \in 1 .. Len(all)
      <4>1. (n - (off + k)) + k = n - off
        <5>1. n \in Nat /\ k \in Nat
          BY <1>1, <3>1
        <5>. HIDE DEF n, off
        <5>. QED
          BY <1>1, <5>1
      <4>2. n - off \in 1 .. Len(all)
        <5>1. seq' = off + Len(all) /\ Len(all) \in Nat /\ k \in Nat
          BY <1>1, <1>2
        <5>2. n \in Nat /\ n <= seq' /\ n > off + k
          BY <1>1, <3>1, <2>7
        <5>. HIDE DEF n, off
        <5>. QED
          BY <1>1, <5>1, <5>2
      <4>. QED
        BY <1>5, <3>1, <4>1, <4>2
    <3>3. CASE i \in 1 .. Len(channel)
      <4>1. n = channel[i].id /\ n \in 1 .. seq /\ n > off
        BY <1>1, <2>2, <2>7, <3>3 DEF ChannelRuns
      <4>2. n - off \in 1 .. Len(history)
        BY <1>1, <4>1
      <4>3. channel[i] = history[n - off]
        BY <4>1, <3>3 DEF ChannelRuns
      <4>. QED
        BY <1>2, <2>2, <3>2, <3>3, <4>2, <4>3
    <3>4. CASE i = Len(channel) + 1
      <4>1. channel'[i] = e /\ n - off = Len(history) + 1
        BY <1>1, <2>2, <3>4
      <4>. QED
        BY <1>2, <3>2, <4>1
    <3>. QED
      BY <2>2, <2>7, <3>3, <3>4
  <2>8. ChannelRuns'
    BY <1>6, <2>5, <2>6, <2>7 DEF ChannelRuns
  <2>9. ReadInOrder'
    <3>1. SUFFICES ASSUME ~foreign
                   PROVE  lastId' <= seq' /\ \A i \in 1 .. Len(channel') : channel'[i].id > lastId'
      BY DEF ReadInOrder
    <3>2. /\ lastId' = lastId /\ ~foreign /\ lastId <= seq
          /\ \A i \in 1 .. Len(channel) : channel[i].id > lastId
      BY <3>1 DEF ReadInOrder
    <3>. QED
      BY <1>1, <2>2, <3>2
  <2>10. NewIsRead \/ kind = "new" => NewIsRead'
    BY <1>1, <2>2 DEF NewIsRead
  <2>. QED
    BY <1>6, <1>7, <1>9, <2>3, <2>4, <2>8, <2>9, <2>10
<1>. QED
  BY <1>8, <1>9

\* A stream is registered and gets what is newer than the id it names.
LEMMA AddHub ==
    ASSUME HubOK, lastId \in Nat, thrown \in Nat, ~attached, Add(lastId),
           UNCHANGED <<lastId, foreign, thrown, round>>
    PROVE  HubOK'
<1>1. history \in Seq(Event) /\ seq \in Nat /\ UserIsServed \in BOOLEAN /\ UserIsServed' = UserIsServed
        /\ UNCHANGED <<seq, history>> /\ Len(history) \in Nat
  BY DEF HubOK, HubTypeOK, Add, UserIsServed
<1>2. HistoryRuns' /\ EndFollows(history, thrown, UserIsServed) /\ HistoryRuns
  BY <1>1 DEF HubOK, HistoryRuns, EndsAreRead
<1>3. CASE lastId = NoId
  <2>1. channel' = <<>>
    BY <1>3 DEF Add, Replay
  <2>2. HubTypeOK'
    BY <1>1, <2>1, HubBounds DEF HubOK, HubTypeOK, Add, HasRoom, Occupied
  <2>3. ChannelRuns' /\ ReadInOrder' /\ EndFollows(channel', thrown, UserIsServed)
    BY <1>1, <2>1 DEF HubOK, ChannelRuns, ReadInOrder, EndFollows
  <2>. QED
    BY <1>1, <1>2, <2>2, <2>3 DEF HubOK, EndsAreRead
<1>4. CASE lastId # NoId
  <2>1. PICK k \in 0 .. Len(history) :
          /\ channel' = SubSeq(history, k + 1, Len(history))
          /\ \A i \in 1 .. Len(history) : history[i].id > lastId <=> i > k
    BY <1>2, <1>4, AfterIsNewer DEF HubOK, Add, Replay
  <2>2. /\ channel' \in Seq(Event) /\ Len(channel') = Len(history) - k
        /\ \A i \in 1 .. Len(channel') : channel'[i] = history[i + k]
    BY <1>1, <2>1, EndOfSequence
  <2>3. ASSUME NEW i \in 1 .. Len(channel')
        PROVE  /\ i + k \in 1 .. Len(history) /\ channel'[i] = history[i + k]
               /\ channel'[i].id = seq - Len(history) + (i + k) /\ channel'[i].id > lastId
    <3>1. i + k \in 1 .. Len(history) /\ i + k > k
      BY <1>1, <2>2
    <3>. QED
      BY <1>2, <2>1, <2>2, <3>1 DEF HistoryRuns
  <2>4. HubTypeOK'
    BY <1>1, <2>2, HubBounds DEF HubOK, HubTypeOK, Add, HasRoom, Occupied
  <2>5. ChannelRuns'
    <3>1. Len(history) <= seq
      BY <1>2 DEF HistoryRuns
    <3>2. \A i \in 1 .. Len(channel') : channel'[i].id \in 1 .. seq
      BY <1>1, <2>3, <3>1
    <3>3. \A i, j \in 1 .. Len(channel') : i < j => channel'[i].id < channel'[j].id
      BY <1>1, <2>3, <3>1
    <3>4. ASSUME NEW i \in 1 .. Len(channel')
          PROVE  channel'[i] = history[channel'[i].id - (seq - Len(history))]
      <4>1. channel'[i].id - (seq - Len(history)) = i + k
        BY <1>1, <2>3, <3>1
      <4>. QED
        BY <2>3, <4>1
    <3>. QED
      BY <1>1, <3>2, <3>3, <3>4 DEF ChannelRuns
  <2>6. ReadInOrder'
    BY <1>1, <2>3 DEF HubOK, ReadInOrder
  <2>7. EndFollows(channel', thrown, UserIsServed)
    <3>1. IsRest(channel', history, k)
      BY <1>1, <2>2 DEF IsRest
    <3>. QED
      BY <1>1, <1>2, <2>2, <3>1, EndsOfRest
  <2>. QED
    BY <1>1, <1>2, <2>4, <2>5, <2>6, <2>7 DEF HubOK, EndsAreRead
<1>. QED
  BY <1>3, <1>4

\* A stream goes, or the end of a dead one is noticed.
LEMMA RemoveHub ==
    ASSUME HubOK, Abandon \/ Notice, UNCHANGED <<lastId, foreign, thrown, round>>
    PROVE  HubOK'
<1>1. UNCHANGED <<seq, history>> /\ UserIsServed' = UserIsServed /\ seq \in Nat
  BY DEF HubOK, HubTypeOK, Abandon, Notice, UserIsServed
<1>2. channel' = channel \/ channel' = <<>>
  BY DEF Abandon, Notice
<1>3. HistoryRuns' /\ ChannelRuns' /\ ReadInOrder' /\ EndsAreRead'
  <2>1. HistoryRuns'
    BY <1>1 DEF HubOK, HistoryRuns
  <2>2. CASE channel' = channel
    BY <1>1, <2>1, <2>2 DEF HubOK, ChannelRuns, ReadInOrder, EndsAreRead
  <2>3. CASE channel' = <<>>
    <3>1. 1 .. Len(channel') = {}
      BY <2>3
    <3>. QED
      BY <1>1, <2>1, <3>1 DEF HubOK, ChannelRuns, ReadInOrder, EndsAreRead, EndFollows
  <2>. QED
    BY <1>2, <2>2, <2>3
<1>4. HubTypeOK'
  <2>1. CASE Abandon
    <3>1. ~attached' /\ attached' \in BOOLEAN /\ channel' = <<>> /\ window' \in BOOLEAN
      BY <2>1 DEF Abandon, HubOK, HubTypeOK
    <3>2. <<>> \in Seq(Event)
      OBVIOUS
    <3>3. halfOpen' = Occupied /\ Occupied \in Nat
      BY <2>1 DEF Abandon, Occupied, HubOK, HubTypeOK
    <3>4. Occupied' = halfOpen' + 0
      BY <3>1 DEF Occupied
    <3>. QED
      BY <1>1, <3>1, <3>2, <3>3, <3>4, HubBounds DEF HubOK, HubTypeOK
  <2>2. CASE Notice
    BY <1>1, <2>2, HubBounds DEF HubOK, HubTypeOK, Occupied, Notice
  <2>. QED
    BY <2>1, <2>2
<1>. QED
  BY <1>3, <1>4 DEF HubOK

\* A new process knows nothing of the old one.
LEMMA RestartHub ==
    ASSUME lastId \in Nat, Restart, UNCHANGED lastId, thrown' = 0, foreign' = (foreign \/ lastId # NoId)
    PROVE  HubOK'
<1>1. /\ seq' = 0 /\ history' = <<>> /\ channel' = <<>> /\ halfOpen' = 0
      /\ ~attached' /\ attached' \in BOOLEAN /\ window' \in BOOLEAN
  BY DEF Restart
<1>2. <<>> \in Seq(Event) /\ Len(<<>>) = 0
  OBVIOUS
<1>3. HubTypeOK'
  <2>1. Occupied' = 0
    BY <1>1 DEF Occupied
  <2>. QED
    BY <1>1, <1>2, <2>1, HubBounds DEF HubTypeOK
<1>4. 1 .. Len(<<>>) = {}
  BY <1>2
<1>5. HistoryRuns' /\ ChannelRuns' /\ EndsAreRead'
  BY <1>1, <1>2, <1>4 DEF HistoryRuns, ChannelRuns, EndsAreRead, EndFollows
<1>6. ReadInOrder'
  <2>1. ~foreign' => lastId' = 0
    BY DEF NoId
  <2>. QED
    BY <1>1, <1>4, <2>1 DEF ReadInOrder
<1>. QED
  BY <1>3, <1>5, <1>6 DEF HubOK

\* An event is read.
LEMMA ReadHub ==
    ASSUME HubOK, thrown \in Nat, Reads
    PROVE  HubOK' /\ Head(channel) \in Event /\ (NewIsRead => NewIsRead' \/ Head(channel).kind = "new")
<1>. DEFINE e == Head(channel)
<1>1. /\ channel \in Seq(Event) /\ channel # <<>> /\ seq \in Nat /\ Len(history) \in Nat
      /\ UNCHANGED <<seq, history, window, attached, halfOpen, round, thrown>>
      /\ UserIsServed \in BOOLEAN /\ UserIsServed' = UserIsServed
      /\ channel' = Tail(channel) /\ lastId' = e.id /\ foreign' = FALSE
  BY DEF HubOK, HubTypeOK, Reads, Receive, UserIsServed
<1>2. /\ channel' \in Seq(Event) /\ Len(channel) \in Nat \ {0} /\ Len(channel') = Len(channel) - 1
      /\ \A i \in 1 .. Len(channel') : channel'[i] = channel[i + 1] /\ i + 1 \in 1 .. Len(channel)
      /\ e = channel[1] /\ e \in Event
  BY <1>1
<1>. HIDE DEF e
<1>3. HubTypeOK' /\ HistoryRuns'
  BY <1>1, <1>2 DEF HubOK, HubTypeOK, HistoryRuns, Occupied
<1>4. ChannelRuns'
  <2>1. \A i \in 1 .. Len(channel') : channel'[i].id \in 1 .. seq
    BY <1>2 DEF HubOK, ChannelRuns
  <2>2. ASSUME NEW i \in 1 .. Len(channel'), NEW j \in 1 .. Len(channel'), i < j
        PROVE  channel'[i].id < channel'[j].id
    <3>1. i + 1 \in 1 .. Len(channel) /\ j + 1 \in 1 .. Len(channel) /\ i + 1 < j + 1
      BY <1>2, <2>2
    <3>. QED
      BY <1>2, <3>1 DEF HubOK, ChannelRuns
  <2>3. \A i \in 1 .. Len(channel') : channel'[i].id > seq - Len(history)
            => channel'[i] = history[channel'[i].id - (seq - Len(history))]
    BY <1>2 DEF HubOK, ChannelRuns
  <2>. QED
    BY <1>1, <2>1, <2>2, <2>3 DEF ChannelRuns
<1>5. ReadInOrder'
  <2>1. e.id \in 1 .. seq
    BY <1>2 DEF HubOK, ChannelRuns
  <2>2. ASSUME NEW i \in 1 .. Len(channel') PROVE channel'[i].id > e.id
    <3>1. 1 \in 1 .. Len(channel) /\ i + 1 \in 1 .. Len(channel) /\ 1 < i + 1
      BY <1>2
    <3>2. channel[1].id < channel[i + 1].id
      BY <3>1 DEF HubOK, ChannelRuns
    <3>3. channel[1].id \in 1 .. seq /\ channel[i + 1].id \in 1 .. seq
      BY <3>1 DEF HubOK, ChannelRuns
    <3>. QED
      BY <1>1, <1>2, <3>2, <3>3
  <2>. QED
    BY <1>1, <2>1, <2>2 DEF ReadInOrder
<1>6. EndsAreRead'
  <2>1. EndFollows(channel, thrown, UserIsServed) /\ EndFollows(history, thrown, UserIsServed)
    BY DEF HubOK, EndsAreRead
  <2>2. PICK k \in Nat : k = 1
    OBVIOUS
  <2>3. Len(channel') + k = Len(channel) /\ \A i \in 1 .. Len(channel') : channel'[i] = channel[i + k]
    BY <1>2, <2>2
  <2>4. EndFollows(channel', thrown, UserIsServed)
    <3>1. channel \in Seq(Event) /\ channel' \in Seq(Event) /\ UserIsServed \in BOOLEAN
      BY <1>1, <1>2
    <3>2. IsRest(channel', channel, k)
      BY <2>3 DEF IsRest
    <3>. QED
      BY <2>1, <3>1, <3>2, EndsOfRest
  <2>. QED
    BY <1>1, <2>1, <2>4 DEF EndsAreRead
<1>7. ASSUME NewIsRead PROVE NewIsRead' \/ e.kind = "new"
  <2>1. PICK i \in 1 .. Len(channel) : channel[i].kind = "new"
    BY <1>7 DEF NewIsRead
  <2>2. CASE i = 1
    BY <1>2, <2>1, <2>2
  <2>3. CASE i # 1
    <3>1. i - 1 \in 1 .. Len(channel') /\ (i - 1) + 1 = i
      BY <1>2, <2>1, <2>3
    <3>. QED
      BY <1>2, <2>1, <3>1 DEF NewIsRead
  <2>. QED
    BY <2>2, <2>3
<1>. QED
  BY <1>2, <1>3, <1>4, <1>5, <1>6, <1>7 DEF HubOK, e

-----------------------------------------------------------------------------
(* What a step does to the hub                                             *)

\* The same for a step that publishes.
LEMMA PublishStep ==
    ASSUME Inv, NEW kind \in Kinds, NEW tier \in Tiers, Publish(kind, tier),
           window' \in BOOLEAN, UNCHANGED <<attached, halfOpen, lastId, foreign, thrown>>,
           kind = "start" /\ tier = "user" => UserIsServed',
           UserIsServed => UserIsServed' \/ (kind = "done" /\ tier = "user")
    PROVE  HubOK' /\ (NewIsRead \/ (attached /\ kind = "new") => NewIsRead')
<1>1. /\ HubTypeOK /\ HistoryRuns /\ ChannelRuns /\ ReadInOrder /\ lastId \in Nat
      /\ thrown \in Nat /\ thrown' = thrown
  BY DEF Inv, HubOK, LinkOK, ClientTypeOK, PageOK
<1>2. PICK g \in BOOLEAN : g = UserIsServed
  BY DEF UserIsServed
<1>3. PICK h \in BOOLEAN : h = UserIsServed'
  BY DEF UserIsServed
<1>4. EndFollows(history, thrown, g) /\ EndFollows(channel, thrown, g)
  BY <1>2 DEF Inv, HubOK, EndsAreRead
<1>5. /\ HubTypeOK' /\ HistoryRuns' /\ ChannelRuns' /\ ReadInOrder'
      /\ EndFollows(history', thrown, h) /\ EndFollows(channel', thrown, h)
      /\ NewIsRead \/ (attached /\ kind = "new") => NewIsRead'
  BY <1>1, <1>2, <1>3, <1>4, PublishHub
<1>. QED
  BY <1>1, <1>3, <1>5 DEF HubOK, EndsAreRead

\* The actions that publish, with what each of them leaves alone.
LEMMA PublishingActions ==
    ASSUME Inv
    PROVE  /\ BackgroundRound => HubOK' /\ (NewIsRead => NewIsRead')
           /\ Accepted => HubOK' /\ (NewIsRead => NewIsRead')
           /\ \A t \in Tiers : Retries(t) => HubOK' /\ (NewIsRead => NewIsRead')
           /\ \A t \in Tiers : RoundEnds(t) => HubOK' /\ (NewIsRead => NewIsRead')
           /\ \A t \in Tiers : AnnouncementFails(t) => HubOK' /\ (NewIsRead => NewIsRead')
           /\ Flushes => HubOK' /\ (NewIsRead \/ attached => NewIsRead')
<1>. USE DEF client, view
<1>1. "background" \in Tiers /\ "user" \in Tiers /\ {"start", "retry", "done", "new"} \subseteq Kinds
  BY DEF Tiers, Kinds
<1>2. window \in BOOLEAN /\ round \in [Tiers -> {"none", "waiting", "running"}] /\ found \in BOOLEAN
  BY DEF Inv, HubOK, HubTypeOK, PageOK
<1>3. ASSUME BackgroundRound PROVE HubOK' /\ (NewIsRead => NewIsRead')
  <2>1. UserIsServed' = UserIsServed
    BY <1>1, <1>2, <1>3 DEF BackgroundRound, UserIsServed
  <2>. QED
    BY <1>1, <1>2, <1>3, <2>1, PublishStep DEF BackgroundRound
<1>4. ASSUME Accepted PROVE HubOK' /\ (NewIsRead => NewIsRead')
  <2>1. UserIsServed'
    BY <1>1, <1>2, <1>4 DEF Accepted, UserRound, UserIsServed
  <2>. QED
    BY <1>1, <1>2, <1>4, <2>1, PublishStep DEF Accepted, UserRound
<1>5. ASSUME NEW t \in Tiers, Retries(t) PROVE HubOK' /\ (NewIsRead => NewIsRead')
  <2>1. UserIsServed' = UserIsServed
    BY <1>5 DEF Retries, UserIsServed
  <2>. QED
    BY <1>1, <1>2, <1>5, <2>1, PublishStep DEF Retries
<1>6. ASSUME NEW t \in Tiers, RoundEnds(t) PROVE HubOK' /\ (NewIsRead => NewIsRead')
  <2>1. t # "user" => (UserIsServed => UserIsServed')
    BY <1>1, <1>2, <1>6 DEF RoundEnds, Leaves, UserIsServed
  <2>2. window' \in BOOLEAN
    BY <1>2, <1>6 DEF RoundEnds
  <2>. QED
    BY <1>1, <1>6, <2>1, <2>2, PublishStep DEF RoundEnds
<1>7. ASSUME Flushes PROVE HubOK' /\ (NewIsRead \/ attached => NewIsRead')
  <2>1. UserIsServed' = UserIsServed
    BY <1>7 DEF Flushes, UserIsServed, app
  <2>. QED
    BY <1>1, <1>7, <2>1, PublishStep DEF Flushes, WindowEnds
<1>8. ASSUME NEW t \in Tiers, AnnouncementFails(t) PROVE HubOK' /\ (NewIsRead => NewIsRead')
  <2>1. t # "user" => (UserIsServed => UserIsServed')
    BY <1>1, <1>2, <1>8 DEF AnnouncementFails, Leaves, UserIsServed
  <2>. QED
    BY <1>1, <1>2, <1>8, <2>1, PublishStep DEF AnnouncementFails
<1>. QED
  BY <1>3, <1>4, <1>5, <1>6, <1>7, <1>8

\* A round that throws publishes nothing: no start that is in the history or in
\* the channel is owed an end any more.
LEMMA ThrowHub ==
    ASSUME Inv, NEW t \in Tiers, RoundThrows(t)
    PROVE  HubOK'
<1>1. /\ HubOK /\ thrown \in Nat /\ seq \in Nat /\ Len(history) \in Nat
      /\ round \in [Tiers -> {"none", "waiting", "running"}]
      /\ UNCHANGED <<seq, history, window, attached, channel, halfOpen, lastId, foreign>>
  BY DEF Inv, HubOK, HubTypeOK, PageOK, RoundThrows, hub, client
<1>2. HubTypeOK' /\ HistoryRuns' /\ ChannelRuns' /\ ReadInOrder'
  BY <1>1 DEF HubOK, HubTypeOK, HistoryRuns, ChannelRuns, ReadInOrder, Occupied
<1>3. CASE t = "user"
  <2>1. thrown' = seq
    BY <1>3 DEF RoundThrows
  <2>2. \A i \in 1 .. Len(history) : history[i].id \in Nat /\ history[i].id <= seq
    BY <1>1 DEF HubOK, HistoryRuns
  <2>3. \A i \in 1 .. Len(channel) : channel[i].id \in Nat /\ channel[i].id <= seq
    BY <1>1 DEF HubOK, ChannelRuns
  <2>4. EndsAreRead'
    BY <1>1, <2>1, <2>2, <2>3 DEF EndsAreRead, EndFollows
  <2>. QED
    BY <1>2, <2>4 DEF HubOK
<1>4. CASE t # "user"
  <2>1. thrown' = thrown /\ (UserIsServed => UserIsServed')
    BY <1>1, <1>4 DEF RoundThrows, Leaves, UserIsServed, Tiers
  <2>2. EndsAreRead'
    BY <1>1, <2>1 DEF HubOK, EndsAreRead, EndFollows
  <2>. QED
    BY <1>2, <2>2 DEF HubOK
<1>. QED
  BY <1>3, <1>4

\* A step that leaves the hub, the rounds and the position of the reader alone.
LEMMA HubKept ==
    ASSUME HubOK, UNCHANGED <<hub, round, lastId, foreign, thrown>>
    PROVE  HubOK'
<1>1. HubTypeOK' /\ HistoryRuns' /\ ChannelRuns' /\ ReadInOrder'
  BY DEF HubOK, HubTypeOK, HistoryRuns, ChannelRuns, ReadInOrder, Occupied, hub
<1>2. EndsAreRead'
  BY DEF HubOK, EndsAreRead, UserIsServed, hub
<1>. QED
  BY <1>1, <1>2 DEF HubOK

LEMMA HubStep == ASSUME Inv, Next PROVE HubOK'
<1>. USE DEF client, app, view
<1>1. HubOK /\ lastId \in Nat /\ thrown \in Nat
  BY DEF Inv, LinkOK, ClientTypeOK, PageOK
<1>2. ASSUME BackgroundRound \/ Answered \/ AnswerLost \/ Flushes PROVE HubOK'
  BY <1>2, PublishingActions DEF Answered, AnswerLost
<1>3. ASSUME NEW t \in Tiers, Retries(t) \/ RoundEnds(t) \/ RoundThrows(t) \/ AnnouncementFails(t)
      PROVE  HubOK'
  BY <1>3, PublishingActions, ThrowHub
<1>4. CASE Registers
  BY <1>1, <1>4, AddHub DEF Registers, Inv, LinkOK
<1>5. CASE Notices \/ Disconnects \/ \E how \in {"refused", "silent"} : Cut(how)
  BY <1>1, <1>5, RemoveHub DEF Notices, Disconnects, Stop, Cut
<1>6. CASE Crash
  BY <1>1, <1>6, RestartHub DEF Crash
<1>7. CASE Reads
  BY <1>1, <1>7, ReadHub
<1>8. CASE Stores \/ AlreadyRunning \/ RequestFails \/ \E kind \in {"single", "bulk"} : Click(kind)
  BY <1>1, <1>8, HubKept DEF Stores, AlreadyRunning, RequestFails, Click
<1>9. CASE Restarts \/ TicketComes \/ StrayComes \/ TicketFails \/ Reconnects \/ GivesUp
  BY <1>1, <1>9, HubKept
     DEF Restarts, TicketComes, StrayComes, TicketFails, Reconnects, GivesUp, Start, Ticket,
         StrayAnswer, NoTicket, TimerFires, GiveUp, ScheduleReconnect
<1>10. CASE IsTurnedAway \/ Opens \/ Refetches \/ GoesStale
  BY <1>1, <1>10, HubKept DEF IsTurnedAway, Opens, Opened, Refetches, GoesStale
<1>. QED
  BY <1>2, <1>3, <1>4, <1>5, <1>6, <1>7, <1>8, <1>9, <1>10
     DEF Next, Server, User, Stream, Advances, Ends

-----------------------------------------------------------------------------
(* What a step does to the client and the wire                             *)

\* The types of the client, one by one.
ClientFlags ==
    /\ stopped \in BOOLEAN /\ connecting \in BOOLEAN /\ timer \in BOOLEAN
    /\ beat \in BOOLEAN /\ everOpen \in BOOLEAN

ClientCounts ==
    asks \in Nat /\ strays \in Nat /\ lastId \in Nat

LEMMA ClientTypes ==
    ClientTypeOK <=>
        /\ ClientFlags /\ ClientCounts
        /\ source \in {"none", "requested", "open"}
        /\ beat <=> source # "none"
        /\ connecting => asks > 0
BY DEF ClientTypeOK, ClientFlags, ClientCounts

\* What the client waits for, after each of its operations.
LEMMA ClientStep ==
    ASSUME ClientTypeOK, OneWayForward,
           \/ UNCHANGED client \/ Start \/ Stop \/ TimerFires \/ Ticket \/ StrayAnswer
           \/ NoTicket \/ GiveUp \/ Opened \/ \E id \in Nat : Receive(id)
    PROVE  ClientTypeOK' /\ OneWayForward'
<1>. USE DEF client, Start, Stop, TimerFires, Ticket, StrayAnswer, NoTicket, GiveUp, Opened,
             Receive, Connect, ScheduleReconnect
<1>1. /\ ClientFlags /\ ClientCounts
      /\ source \in {"none", "requested", "open"}
      /\ beat <=> source # "none"
      /\ connecting => asks > 0
  BY ClientTypes
<1>2. ClientFlags'
  BY <1>1 DEF ClientFlags
<1>3. ClientCounts'
  BY <1>1 DEF ClientCounts
<1>4. source' \in {"none", "requested", "open"}
  BY <1>1
<1>5. beat' <=> source' # "none"
  BY <1>1
<1>6. connecting' => asks' > 0
  <2>1. CASE Start \/ TimerFires
    BY <1>1, <2>1 DEF ClientCounts
  <2>2. CASE UNCHANGED client \/ Opened \/ \E id \in Nat : Receive(id)
    BY <1>1, <2>2
  <2>3. CASE Stop \/ Ticket \/ StrayAnswer \/ NoTicket \/ GiveUp
    BY <2>3
  <2>. QED
    BY <2>1, <2>2, <2>3
<1>7. OneWayForward'
  BY <1>1 DEF ClientFlags, ClientCounts, OneWayForward
<1>. QED
  BY <1>2, <1>3, <1>4, <1>5, <1>6, <1>7 DEF ClientTypeOK, ClientFlags, ClientCounts

\* A client whose stream goes, or that has one, has nothing else under way.
LEMMA LinkStep == ASSUME Inv, Next PROVE LinkOK' /\ OneWayForward'
<1>1. ClientTypeOK /\ OneWayForward /\ LinkOK
  BY DEF Inv, LinkOK
<1>2. ASSUME UNCHANGED <<client, wire, attached>> PROVE LinkOK' /\ OneWayForward'
  BY <1>1, <1>2, ClientStep DEF LinkOK, client
<1>3. CASE \/ BackgroundRound \/ Stores \/ Flushes \/ Notices \/ Ends
           \/ \E t \in Tiers : Retries(t) \/ RoundThrows(t) \/ AnnouncementFails(t)
  BY <1>2, <1>3 DEF BackgroundRound, Stores, Flushes, Notices, Ends, Retries, RoundEnds,
                    RoundThrows, AnnouncementFails, hub,
                    WindowEnds, Notice
<1>4. CASE \/ \E kind \in {"single", "bulk"} : Click(kind)
           \/ AlreadyRunning \/ Answered \/ AnswerLost \/ RequestFails
           \/ Refetches \/ GoesStale
  BY <1>2, <1>4 DEF Click, AlreadyRunning, Answered, AnswerLost, Accepted, UserRound,
                    RequestFails, Refetches, GoesStale, hub
<1>5. CASE Crash
  BY <1>1, <1>5, ClientStep DEF Crash, Restart, LinkOK, client
<1>6. CASE Disconnects
  BY <1>1, <1>6, ClientStep DEF Disconnects, Stop, Abandon, LinkOK
<1>7. CASE Restarts
  BY <1>1, <1>7, ClientStep DEF Restarts, Start, LinkOK, hub
<1>8. CASE TicketComes
  <2>1. source = "none"
    BY <1>1, <1>8, ClientTypes DEF TicketComes, Ticket, OneWayForward, ClientFlags, ClientCounts
  <2>. QED
    BY <1>1, <1>8, <2>1, ClientStep DEF TicketComes, Ticket, LinkOK, hub
<1>9. CASE StrayComes \/ TicketFails \/ Reconnects
  <2>1. (source = "none" /\ TicketFails) \/ UNCHANGED source
    BY <1>1, <1>9, ClientTypes DEF StrayComes, TicketFails, Reconnects, OneWayForward,
                                   NoTicket, StrayAnswer, TimerFires,
                                   ClientFlags, ClientCounts
  <2>2. ClientTypeOK' /\ OneWayForward'
    BY <1>1, <1>9, ClientStep DEF StrayComes, TicketFails, Reconnects
  <2>3. UNCHANGED <<source, wire, attached>>
    BY <1>9, <2>1 DEF StrayComes, TicketFails, Reconnects, NoTicket, ScheduleReconnect, hub
  <2>. QED
    BY <1>1, <2>2, <2>3 DEF LinkOK
<1>10. CASE Registers \/ IsTurnedAway
  BY <1>1, <1>10, ClientStep DEF Registers, IsTurnedAway, Add, LinkOK, hub, client
<1>11. CASE Opens
  BY <1>1, <1>11, ClientStep DEF Opens, Opened, LinkOK, hub
<1>12. CASE GivesUp
  BY <1>1, <1>12, ClientStep DEF GivesUp, GiveUp, ScheduleReconnect, LinkOK, hub
<1>13. CASE Reads
  <2>1. Head(channel).id \in Nat
    BY <1>13, ReadHub DEF Inv, PageOK, Event
  <2>. QED
    BY <1>1, <1>13, <2>1, ClientStep DEF Reads, Receive, LinkOK
<1>14. CASE \E how \in {"refused", "silent"} : Cut(how)
  BY <1>1, <1>14, ClientStep DEF Cut, Abandon, LinkOK, client
<1>. QED
  BY <1>3, <1>4, <1>5, <1>6, <1>7, <1>8, <1>9, <1>10, <1>11, <1>12, <1>13, <1>14
     DEF Next, Server, User, Stream, Advances

-----------------------------------------------------------------------------
(* What a step does to the page                                            *)

OneRuns ==
    /\ round \in [Tiers -> {"none", "waiting", "running"}]
    /\ \A t, u \in Tiers : round[t] = "running" /\ round[u] = "running" => t = u

PageFlags ==
    /\ found \in BOOLEAN /\ running \in BOOLEAN /\ refetch \in BOOLEAN
    /\ stale \in BOOLEAN /\ excused \in BOOLEAN /\ foreign \in BOOLEAN
    /\ thrown \in Nat

LEMMA PageTypes ==
    PageOK <=> OneRuns /\ request \in {"none", "single", "bulk"} /\ PageFlags
BY DEF PageOK, OneRuns, PageFlags

\* The account is held by one round at a time.
LEMMA RoundStep == ASSUME OneRuns, Next PROVE OneRuns'
<1>. USE DEF app, view
<1>1. CASE UNCHANGED round
  BY <1>1 DEF OneRuns
<1>2. CASE BackgroundRound
  BY <1>2 DEF BackgroundRound, Busy, OneRuns, Tiers
<1>3. CASE UserRound
  BY <1>3 DEF UserRound, Busy, OneRuns, Tiers
<1>4. ASSUME NEW t \in Tiers, Leaves(t) PROVE OneRuns'
  BY <1>4 DEF Leaves, OneRuns, Tiers
<1>5. CASE Crash
  BY <1>5 DEF Crash, OneRuns
<1>6. \/ UNCHANGED round \/ BackgroundRound \/ UserRound \/ Crash
      \/ \E t \in Tiers : Leaves(t)
  <2>1. CASE Server
    BY <2>1 DEF Server, Ends, Stores, Flushes, Notices, Retries, RoundEnds, RoundThrows,
                AnnouncementFails
  <2>2. CASE User
    BY <2>2 DEF User, Click, AlreadyRunning, Answered, AnswerLost, Accepted, RequestFails,
                Disconnects, Restarts
  <2>3. CASE Stream
    BY <2>3 DEF Stream, Advances, TicketComes, StrayComes, TicketFails, Reconnects, Registers,
                IsTurnedAway, Opens, GivesUp, Reads, Refetches, GoesStale, Cut
  <2>. QED
    BY <2>1, <2>2, <2>3 DEF Next
<1>. QED
  BY <1>1, <1>2, <1>3, <1>4, <1>5, <1>6

LEMMA PageStep == ASSUME Inv, Next PROVE PageOK'
<1>. USE DEF app, view
<1>1. OneRuns /\ request \in {"none", "single", "bulk"} /\ PageFlags
  BY PageTypes DEF Inv
<1>2. OneRuns'
  BY <1>1, RoundStep
<1>3. request' \in {"none", "single", "bulk"} /\ PageFlags'
  <2>1. CASE Server
    <3>1. /\ UNCHANGED <<request, running, refetch>>
          /\ {found', stale', foreign', excused'} \subseteq BOOLEAN
      BY <1>1, <2>1 DEF Server, Ends, BackgroundRound, Stores, Flushes, Notices, Crash, RoundEnds,
                        RoundThrows, AnnouncementFails, Leaves, Retries, PageFlags
    <3>2. seq \in Nat /\ thrown \in Nat
      BY <1>1 DEF Inv, HubOK, HubTypeOK, PageFlags
    <3>3. thrown' \in {thrown, seq, 0}
      BY <2>1 DEF Server, Ends, BackgroundRound, Stores, Flushes, Notices, Crash, RoundEnds,
                  RoundThrows, AnnouncementFails, Retries
    <3>. QED
      BY <1>1, <3>1, <3>2, <3>3 DEF PageFlags
  <2>2. CASE User
    <3>1. /\ UNCHANGED <<found, stale, foreign, thrown>> /\ request' \in {"none", "single", "bulk"}
          /\ {running', refetch', excused'} \subseteq BOOLEAN
      BY <1>1, <2>2 DEF User, Click, AlreadyRunning, Answered, AnswerLost, Accepted, RequestFails,
                        Disconnects, Restarts, PageFlags
    <3>. QED
      BY <1>1, <3>1 DEF PageFlags
  <2>3. CASE Stream
    <3>1. UNCHANGED <<found, request, thrown>> /\ {running', refetch', stale', excused', foreign'} \subseteq BOOLEAN
      BY <1>1, <2>3 DEF Stream, Advances, TicketComes, StrayComes, TicketFails, Reconnects, Registers,
                        IsTurnedAway, Opens, GivesUp, Reads, Refetches, GoesStale, Cut, PageFlags
    <3>. QED
      BY <1>1, <3>1 DEF PageFlags
  <2>. QED
    BY <2>1, <2>2, <2>3 DEF Next
<1>. QED
  BY <1>2, <1>3 DEF PageOK, OneRuns, PageFlags

\* Whoever takes away what would tell the page leaves something else that will.
LEMMA ToldStep == ASSUME Inv, Next PROVE WillBeTold'
<1>. USE DEF app, view, WillBeTold
<1>1. WillBeTold /\ PageFlags /\ LinkOK
  BY PageTypes DEF Inv
<1>2. everOpen \in BOOLEAN /\ window \in BOOLEAN /\ DOMAIN channel = 1 .. Len(channel)
  BY <1>1, ClientTypes DEF LinkOK, ClientFlags, Inv, HubOK, HubTypeOK
<1>3. UNCHANGED channel => (NewIsRead => NewIsRead')
  BY DEF NewIsRead
<1>4. CASE Server
  <2>1. CASE BackgroundRound
    BY <1>1, <2>1, PublishingActions DEF BackgroundRound, client
  <2>2. CASE Stores
    BY <1>1, <2>2 DEF Stores
  <2>3. CASE Flushes
    <3>1. CASE attached
      BY <2>3, <3>1, PublishingActions
    <3>2. CASE ~attached
      <4>1. everOpen' = everOpen /\ wire' # "up"
        BY <1>1, <2>3, <3>2 DEF Flushes, client, LinkOK
      <4>2. ~everOpen => excused'
        BY <2>3, <3>2 DEF Flushes
      <4>. QED
        BY <1>2, <4>1, <4>2
    <3>. QED
      BY <3>1, <3>2
  <2>4. CASE Notices
    BY <1>1, <1>3, <2>4 DEF Notices, Notice, client
  <2>5. CASE Crash
    <3>1. wire' # "up" /\ UNCHANGED <<everOpen, stale>> /\ (~everOpen /\ stale => excused')
      BY <1>1, <2>5 DEF Crash, LinkOK, client
    <3>. QED
      BY <1>2, <3>1
  <2>6. ASSUME NEW t \in Tiers, RoundEnds(t) PROVE WillBeTold'
    BY <1>1, <2>6, PublishingActions DEF RoundEnds, client
  <2>7. ASSUME NEW t \in Tiers, Retries(t) PROVE WillBeTold'
    BY <1>1, <2>7, PublishingActions DEF Retries, client
  <2>8. ASSUME NEW t \in Tiers, RoundThrows(t) PROVE WillBeTold'
    BY <1>1, <1>3, <2>8 DEF RoundThrows, client, hub
  <2>9. ASSUME NEW t \in Tiers, AnnouncementFails(t) PROVE WillBeTold'
    BY <2>9 DEF AnnouncementFails
  <2>. QED
    BY <1>4, <2>1, <2>2, <2>3, <2>4, <2>5, <2>6, <2>7, <2>8, <2>9 DEF Server, Ends
<1>5. CASE User
  <2>1. CASE Answered \/ AnswerLost
    BY <1>1, <2>1, PublishingActions DEF Answered, AnswerLost, Accepted, UserRound, client
  <2>2. CASE AlreadyRunning \/ RequestFails \/ \E kind \in {"single", "bulk"} : Click(kind)
    BY <1>1, <1>3, <2>2 DEF AlreadyRunning, RequestFails, Click, hub, client
  <2>3. CASE Disconnects
    <3>1. source' # "open" /\ UNCHANGED <<everOpen, stale>> /\ UNCHANGED <<refetch, window, found>>
      BY <2>3 DEF Disconnects, Stop, Abandon
    <3>2. ~everOpen /\ NewIsRead => excused'
      BY <1>2, <2>3 DEF Disconnects, Untold, NewIsRead
    <3>3. excused => excused'
      BY <2>3 DEF Disconnects
    <3>. QED
      BY <1>1, <1>2, <3>1, <3>2, <3>3
  <2>4. CASE Restarts
    BY <2>4 DEF Restarts
  <2>. QED
    BY <1>5, <2>1, <2>2, <2>3, <2>4 DEF User
<1>6. CASE Stream
  <2>1. CASE TicketComes
    BY <1>1, <1>3, <2>1 DEF TicketComes, Ticket, hub
  <2>2. CASE StrayComes \/ Reconnects
    BY <1>1, <1>3, <2>2 DEF StrayComes, StrayAnswer, Reconnects, TimerFires, hub
  <2>3. CASE TicketFails \/ GivesUp
    BY <1>1, <1>3, <2>3 DEF TicketFails, NoTicket, GivesUp, GiveUp, ScheduleReconnect, hub
  <2>4. CASE Registers
    <3>1. ~attached /\ source = "requested"
      BY <1>1, <2>4 DEF Registers, LinkOK
    <3>2. ~NewIsRead
      BY <3>1 DEF NewIsRead, Inv, HubOK, HubTypeOK
    <3>. QED
      BY <1>1, <2>4, <3>1, <3>2 DEF Registers, Add, client
  <2>5. CASE IsTurnedAway
    BY <1>1, <1>3, <2>5 DEF IsTurnedAway, hub, client
  <2>6. CASE Opens
    BY <1>1, <1>2, <1>3, <2>6 DEF Opens, Opened, hub
  <2>7. CASE Reads
    <3>1. NewIsRead => NewIsRead' \/ refetch'
      BY <2>7, ReadHub DEF Reads, Inv, PageOK
    <3>2. UNCHANGED <<stale, excused, window, found, everOpen, source, wire>> /\ (refetch => refetch')
      BY <2>7 DEF Reads, Receive
    <3>. QED
      BY <1>1, <3>1, <3>2
  <2>8. CASE Refetches
    BY <2>8 DEF Refetches
  <2>9. CASE GoesStale
    BY <1>1, <1>3, <2>9 DEF GoesStale, hub, client
  <2>10. ASSUME NEW how \in {"refused", "silent"}, Cut(how) PROVE WillBeTold'
    <3>1. wire' # "up" /\ UNCHANGED <<everOpen, stale>> /\ UNCHANGED <<refetch, window, found>>
      BY <2>10 DEF Cut, Abandon, client
    <3>2. ~everOpen /\ NewIsRead => excused'
      BY <1>2, <2>10 DEF Cut, Untold, NewIsRead
    <3>3. excused => excused'
      BY <2>10 DEF Cut
    <3>. QED
      BY <1>1, <1>2, <3>1, <3>2, <3>3
  <2>. QED
    BY <1>6, <2>1, <2>2, <2>3, <2>4, <2>5, <2>6, <2>7, <2>8, <2>9, <2>10 DEF Stream, Advances
<1>. QED
  BY <1>4, <1>5, <1>6 DEF Next

-----------------------------------------------------------------------------
(* The theorems                                                            *)

LEMMA InitInv == Init => Inv
<1>. SUFFICES ASSUME Init PROVE Inv
  OBVIOUS
<1>. USE DEF Init, HubInit, ClientInit
<1>1. <<>> \in Seq(Event) /\ 1 .. Len(<<>>) = {}
  OBVIOUS
<1>2. HubTypeOK
  <2>1. ~attached /\ attached \in BOOLEAN /\ window \in BOOLEAN
    OBVIOUS
  <2>2. Occupied = 0
    BY <2>1 DEF Occupied
  <2>. QED
    BY <1>1, <2>1, <2>2, HubBounds DEF HubTypeOK
<1>3. HubOK
  BY <1>1, <1>2 DEF HubOK, HistoryRuns, ChannelRuns, ReadInOrder, EndsAreRead, EndFollows
<1>4. LinkOK /\ OneWayForward
  <2>1. /\ ~stopped /\ connecting /\ ~timer /\ ~beat /\ ~attached
        /\ {stopped, connecting, timer, beat, everOpen} \subseteq BOOLEAN
    OBVIOUS
  <2>. QED
    BY <2>1 DEF LinkOK, ClientTypeOK, OneWayForward
<1>5. PageOK /\ WillBeTold
  BY DEF PageOK, WillBeTold
<1>. QED
  BY <1>3, <1>4, <1>5 DEF Inv

LEMMA NextInv == Inv /\ [Next]_vars => Inv'
<1>1. ASSUME Inv, Next PROVE Inv'
  BY <1>1, HubStep, LinkStep, PageStep, ToldStep DEF Inv
<1>2. ASSUME Inv, UNCHANGED vars PROVE Inv'
  <2>. USE <1>2 DEF vars, app, view, client
  <2>1. HubOK'
    BY HubKept DEF Inv
  <2>2. LinkOK' /\ OneWayForward'
    BY DEF Inv, LinkOK, ClientTypeOK, OneWayForward, hub
  <2>3. PageOK' /\ WillBeTold'
    BY DEF Inv, PageOK, WillBeTold, NewIsRead, hub
  <2>. QED
    BY <2>1, <2>2, <2>3 DEF Inv
<1>. QED
  BY <1>1, <1>2

\* Every reachable state of the stream, of any behaviour, satisfies the invariant.
THEOREM InvAlways == Spec => []Inv
BY InitInv, NextInv, PTL DEF Spec

\* The hub, the client and the page keep their types, and a user's streams stay
\* within the limit, the dead ones included, for every limit.
THEOREM StreamTypes == Spec => []TypeOK
<1>1. Inv => TypeOK
  BY DEF Inv, HubOK, LinkOK, PageOK, TypeOK
<1>. QED
  BY <1>1, InvAlways, PTL

\* However stop() and start(), late answers and errors of a stream follow each
\* other, the client waits for exactly one thing.
THEOREM ClientIsSingle == Spec => []OneWayForward
<1>1. Inv => OneWayForward
  BY DEF Inv
<1>. QED
  BY <1>1, InvAlways, PTL

\* Replay and refetch complement each other: a page with a stream, and with
\* nothing on its way to it, has fetched the mail there is.
THEOREM ReplayAndRefetchComplete == Spec => []NothingMissed
<1>1. Inv => NothingMissed
  <2>1. HubTypeOK => DOMAIN channel = 1 .. Len(channel)
    BY DEF HubTypeOK
  <2>. QED
    BY <2>1 DEF Inv, HubOK, WillBeTold, NothingMissed, NewIsRead
<1>. QED
  BY <1>1, InvAlways, PTL

-----------------------------------------------------------------------------
(* The entry of the user's round                                           *)

\* The end of a round is in the history, after what the browser has read.
HistoryHasEnd ==
    \E i \in 1 .. Len(history) : history[i].id > lastId /\ Settles(history[i])

EndToCome ==
    IF wire = "up" THEN \E i \in 1 .. Len(channel) : Settles(channel[i]) ELSE HistoryHasEnd

\* What is replayed has an end if the newer part of the history has one.
Newer(h, id) ==
    SubSeq(h, Len(h) - Cardinality({i \in DOMAIN h : h[i].id > id}) + 1, Len(h))

HasEnd(s) == \E i \in DOMAIN s : Settles(s[i])

LEMMA EndInPart ==
    ASSUME NEW h \in Seq(Event), NEW last \in Nat, NEW id \in Nat, Len(h) <= last,
           \A i \in 1 .. Len(h) : h[i].id = last - Len(h) + i
    PROVE  HasEnd(Newer(h, id)) <=> \E i \in 1 .. Len(h) : h[i].id > id /\ Settles(h[i])
<1>. DEFINE r == Newer(h, id)
<1>1. PICK k \in 0 .. Len(h) :
        /\ Len(h) - Cardinality({i \in DOMAIN h : h[i].id > id}) = k
        /\ \A i \in 1 .. Len(h) : h[i].id > id <=> i > k
  BY NewerPart
<1>2. r = SubSeq(h, k + 1, Len(h))
  BY <1>1 DEF Newer
<1>. HIDE DEF r
<1>3. /\ r \in Seq(Event) /\ Len(r) = Len(h) - k
      /\ \A i \in 1 .. Len(h) - k : r[i] = h[i + k]
  BY <1>2, EndOfSequence
<1>4. DOMAIN r = 1 .. Len(h) - k
  BY <1>3
<1>5. ASSUME NEW i \in DOMAIN r, Settles(r[i])
      PROVE  \E j \in 1 .. Len(h) : h[j].id > id /\ Settles(h[j])
  <2>1. i + k \in 1 .. Len(h) /\ i + k > k /\ r[i] = h[i + k]
    BY <1>3, <1>4
  <2>. QED
    BY <1>1, <1>5, <2>1
<1>6. ASSUME NEW j \in 1 .. Len(h), h[j].id > id, Settles(h[j])
      PROVE  \E i \in DOMAIN r : Settles(r[i])
  <2>1. j > k
    BY <1>1, <1>6
  <2>2. j - k \in 1 .. Len(h) - k /\ (j - k) + k = j
    BY <2>1
  <2>3. r[j - k] = h[j]
    BY <1>3, <2>2
  <2>. QED
    BY <1>4, <1>6, <2>2, <2>3
<1>. QED
  BY <1>5, <1>6 DEF HasEnd, r

LEMMA ReplayedEnd ==
    ASSUME HubTypeOK, HistoryRuns, lastId \in Nat
    PROVE  HasEnd(Replay(lastId)) => HistoryHasEnd
<1>1. CASE lastId = NoId
  BY <1>1 DEF Replay, HasEnd
<1>2. CASE lastId # NoId
  <2>1. Replay(lastId) = Newer(history, lastId)
    BY <1>2 DEF Replay, After, Newer
  <2>2. HasEnd(Newer(history, lastId)) <=> HistoryHasEnd
    BY EndInPart DEF HubTypeOK, HistoryRuns, HistoryHasEnd
  <2>. QED
    BY <2>1, <2>2
<1>. QED
  BY <1>1, <1>2

LEMMA ReplayedEndNext ==
    ASSUME HubTypeOK', HistoryRuns', lastId' \in Nat, lastId' # NoId, HistoryHasEnd'
    PROVE  HasEnd(Replay(lastId))'
<1>1. Replay(lastId)' = Newer(history', lastId')
  BY DEF Replay, After, Newer
<1>2. HasEnd(Newer(history', lastId')) <=> HistoryHasEnd'
  BY EndInPart DEF HubTypeOK, HistoryRuns, HistoryHasEnd
<1>. QED
  BY <1>1, <1>2

\* An event that is published leaves the newer part of the history in place,
\* as far as the browser can still resume, and is there itself.
LEMMA StillThere ==
    ASSUME HubTypeOK, HistoryRuns, NEW kind \in Kinds, NEW tier \in Tiers, Publish(kind, tier),
           lastId \in Nat, UNCHANGED lastId, seq' - lastId' <= Len(history'),
           HistoryHasEnd \/ (kind = "done" /\ tier = "user" /\ lastId <= seq)
    PROVE  HistoryHasEnd'
<1>. DEFINE all == WithEvent(kind, tier)
            off == seq - Len(history)
            e == [kind |-> kind, tier |-> tier, id |-> seq + 1]
<1>1. PICK k \in 0 .. Len(all) :
        /\ history' \in Seq(Event) /\ Len(history') = Len(all) - k
        /\ \A i \in 1 .. Len(history') : history'[i] = all[i + k]
  BY RememberedPart
<1>2. /\ Len(history) \in Nat /\ seq \in Nat /\ off \in Nat /\ seq' = seq + 1
      /\ Len(all) = Len(history) + 1 /\ all[Len(all)] = e
      /\ \A i \in 1 .. Len(history) : all[i] = history[i] /\ history[i].id = off + i
  BY DEF HubTypeOK, HistoryRuns, Publish, WithEvent
<1>. HIDE DEF all
<1>3. PICK x \in 1 .. Len(all) : all[x].id > lastId /\ Settles(all[x]) /\ all[x].id = off + x
  <2>1. CASE HistoryHasEnd
    <3>1. PICK i \in 1 .. Len(history) : history[i].id > lastId /\ Settles(history[i])
      BY <2>1 DEF HistoryHasEnd
    <3>2. i \in 1 .. Len(all) /\ all[i] = history[i] /\ all[i].id = off + i
      BY <1>2, <3>1
    <3>. HIDE DEF off
    <3>. QED
      BY <3>1, <3>2
  <2>2. CASE kind = "done" /\ tier = "user" /\ lastId <= seq
    <3>1. Settles(e) /\ e.id = seq + 1 /\ seq + 1 > lastId
      BY <1>2, <2>2 DEF Settles
    <3>2. Len(all) \in 1 .. Len(all) /\ off + Len(all) = seq + 1
      BY <1>2
    <3>. HIDE DEF e, off
    <3>. QED
      BY <1>2, <3>1, <3>2
  <2>. QED
    BY <2>1, <2>2
<1>4. x > k
  <2>1. seq' - Len(history') = off + k
    BY <1>1, <1>2
  <2>2. off + x > off + k
    BY <1>1, <1>2, <1>3, <2>1
  <2>. HIDE DEF off
  <2>. QED
    BY <1>1, <1>2, <2>2
<1>5. x - k \in 1 .. Len(history') /\ (x - k) + k = x
  <2>1. Len(all) \in Nat /\ Len(history') = Len(all) - k
    BY <1>1, <1>2
  <2>. QED
    BY <1>4, <2>1
<1>6. history'[x - k] = all[x]
  BY <1>1, <1>5
<1>. QED
  BY <1>3, <1>5, <1>6 DEF HistoryHasEnd

LEMMA PublishKeepsEnd ==
    ASSUME Inv, Resumable', NEW kind \in Kinds, NEW tier \in Tiers, Publish(kind, tier),
           UNCHANGED <<attached, wire, lastId, foreign>>,
           EndToCome \/ (kind = "done" /\ tier = "user")
    PROVE  EndToCome'
<1>1. /\ HubTypeOK /\ HistoryRuns /\ lastId \in Nat /\ lastId <= seq
      /\ wire = "up" <=> attached
  BY DEF Inv, HubOK, LinkOK, ClientTypeOK, ReadInOrder, Resumable
<1>2. CASE wire = "up"
  <2>. DEFINE e == [kind |-> kind, tier |-> tier, id |-> seq + 1]
  <2>1. channel' = Append(channel, e) /\ channel \in Seq(Event) /\ e.kind = kind /\ e.tier = tier
    BY <1>1, <1>2 DEF Publish, HubTypeOK
  <2>. HIDE DEF e
  <2>2. /\ Len(channel') = Len(channel) + 1 /\ Len(channel) \in Nat
        /\ \A i \in 1 .. Len(channel) : channel'[i] = channel[i]
        /\ channel'[Len(channel) + 1] = e
    BY <2>1
  <2>. QED
    BY <1>2, <2>1, <2>2 DEF EndToCome, Settles
<1>3. CASE wire # "up"
  BY <1>1, <1>3, StillThere DEF EndToCome, Resumable
<1>. QED
  BY <1>2, <1>3

\* What a stream that goes takes along is in the history, if the browser can resume.
LEMMA GoneKeepsEnd ==
    ASSUME Inv, Resumable', Abandon, UNCHANGED <<lastId, foreign>>, wire' # "up", EndToCome
    PROVE  EndToCome'
<1>1. /\ UNCHANGED <<seq, history>> /\ seq \in Nat /\ Len(history) \in Nat /\ lastId \in Nat
      /\ ~foreign /\ seq - lastId <= Len(history) /\ Len(history) <= seq
  BY DEF Inv, HubOK, HubTypeOK, HistoryRuns, LinkOK, ClientTypeOK, Abandon, Resumable
<1>2. HistoryHasEnd
  <2>1. CASE wire = "up"
    <3>1. PICK i \in 1 .. Len(channel) : Settles(channel[i])
      BY <2>1 DEF EndToCome
    <3>2. channel[i].id > lastId /\ channel[i].id \in 1 .. seq
      BY <1>1 DEF Inv, HubOK, ReadInOrder, ChannelRuns
    <3>3. channel[i] = history[channel[i].id - (seq - Len(history))]
      BY <1>1, <3>2 DEF Inv, HubOK, ChannelRuns
    <3>4. channel[i].id - (seq - Len(history)) \in 1 .. Len(history)
      BY <1>1, <3>2
    <3>. QED
      BY <3>1, <3>2, <3>3, <3>4 DEF HistoryHasEnd
  <2>2. CASE wire # "up"
    BY <2>2 DEF EndToCome
  <2>. QED
    BY <2>1, <2>2
<1>. QED
  BY <1>1, <1>2 DEF EndToCome, HistoryHasEnd

\* The third part of OnItsWay, by what holds of the hub.
LEMMA WayToEnd ==
    /\ Inv /\ OnItsWay /\ request = "none" /\ round["user"] = "none" => EndToCome
    /\ Inv' /\ Resumable' /\ EndToCome' => OnItsWay'
<1>1. ASSUME Inv, OnItsWay, request = "none", round["user"] = "none" PROVE EndToCome
  <2>1. DOMAIN channel = 1 .. Len(channel) /\ HubTypeOK /\ HistoryRuns /\ lastId \in Nat
    BY <1>1 DEF Inv, HubOK, HubTypeOK, LinkOK, ClientTypeOK
  <2>2. IF wire = "up" THEN \E i \in DOMAIN channel : Settles(channel[i]) ELSE HasEnd(Replay(lastId))
    BY <1>1 DEF OnItsWay, HasEnd
  <2>. QED
    BY <2>1, <2>2, ReplayedEnd DEF EndToCome
<1>2. ASSUME Inv', Resumable', EndToCome' PROVE OnItsWay'
  <2>1. /\ DOMAIN channel' = 1 .. Len(channel') /\ HubTypeOK' /\ HistoryRuns'
        /\ lastId' \in Nat /\ lastId' # NoId
    BY <1>2 DEF Inv, HubOK, HubTypeOK, LinkOK, ClientTypeOK, Resumable
  <2>2. wire' = "up" => \E i \in DOMAIN channel' : Settles(channel'[i])
    BY <1>2, <2>1 DEF EndToCome
  <2>3. wire' # "up" => HasEnd(Replay(lastId))'
    BY <1>2, <2>1, ReplayedEndNext DEF EndToCome
  <2>. QED
    BY <2>2, <2>3 DEF OnItsWay, HasEnd
<1>. QED
  BY <1>1, <1>2

\* The steps of the page, the client and the wire that take no end away.
LEMMA QuietKeepsEnd ==
    ASSUME UNCHANGED <<hub, round, request, running, lastId>>, wire = "up" <=> wire' = "up", Lost'
    PROVE  Lost
BY DEF Lost, OnItsWay, Replay, After, hub

LEMMA ReadKeepsEnd ==
    ASSUME Inv, Inv', Resumable', Reads, ~ReadsOrphan, ~Lost PROVE ~Lost'
<1>. DEFINE e == Head(channel)
<1>1. /\ channel \in Seq(Event) /\ channel # <<>> /\ wire' = "up" /\ wire = "up"
      /\ channel' = Tail(channel) /\ UNCHANGED <<round, request>>
      /\ running' = IF e.tier = "user" /\ e.kind \in {"start", "done"} THEN e.kind = "start" ELSE running
  BY DEF Inv, HubOK, HubTypeOK, LinkOK, Reads, app
<1>2. /\ Len(channel) \in Nat \ {0} /\ Len(channel') = Len(channel) - 1 /\ e = channel[1]
      /\ \A i \in 1 .. Len(channel') : channel'[i] = channel[i + 1]
  BY <1>1
<1>. HIDE DEF e
<1>3. SUFFICES ASSUME running', request' = "none", round'["user"] = "none" PROVE EndToCome'
  <2>1. request' \in {"none", "single", "bulk"}
    BY DEF Inv, PageOK
  <2>. QED
    BY <2>1, WayToEnd DEF Lost, OnItsWay
<1>4. PICK j \in 1 .. Len(channel) : j > 1 /\ Settles(channel[j])
  <2>1. CASE e.tier = "user" /\ e.kind = "start"
    <3>1. /\ EndFollows(channel, thrown, UserIsServed) /\ ~UserIsServed
          /\ 1 \in 1 .. Len(channel) /\ channel[1].id > thrown
      <4>1. 1 \in 1 .. Len(channel) /\ channel[1].id \in Nat /\ thrown \in Nat
        BY <1>2 DEF Inv, HubOK, ChannelRuns, PageOK
      <4>2. ~(channel[1].id <= thrown)
        BY <1>2, <2>1 DEF ReadsOrphan, e
      <4>. QED
        BY <1>1, <1>2, <1>3, <4>1, <4>2 DEF Inv, HubOK, EndsAreRead, UserIsServed
    <3>. QED
      BY <1>2, <2>1, <3>1 DEF EndFollows
  <2>2. CASE ~(e.tier = "user" /\ e.kind = "start")
    <3>1. ~Settles(e) /\ running
      BY <1>1, <1>3, <2>2 DEF Settles
    <3>2. OnItsWay
      BY <3>1 DEF Lost
    <3>3. EndToCome
      BY <1>1, <1>3, <3>2, WayToEnd
    <3>. QED
      BY <1>1, <1>2, <3>1, <3>3 DEF EndToCome
  <2>. QED
    BY <2>1, <2>2
<1>5. j - 1 \in 1 .. Len(channel') /\ (j - 1) + 1 = j
  BY <1>2, <1>4
<1>. QED
  BY <1>1, <1>2, <1>4, <1>5 DEF EndToCome

LEMMA LostStep ==
    ASSUME Inv, Inv', Next, ~Lost, Lost', Resumable'
    PROVE  AlreadyRunning \/ RoundThrows("user") \/ ReadsOrphan
<1>. USE DEF app, view, client
<1>1. running' /\ request' = "none" /\ round'["user"] = "none" /\ ~EndToCome'
  <2>1. request' \in {"none", "single", "bulk"} /\ ~OnItsWay' /\ running'
    BY DEF Inv, PageOK, Lost
  <2>. QED
    BY <2>1, WayToEnd DEF OnItsWay
<1>2. ASSUME running, request = "none", round["user"] = "none" PROVE EndToCome
  BY <1>2, WayToEnd DEF Lost
<1>3. \A t \in Tiers : "user" \in Tiers /\ "background" \in Tiers /\ (t # "user" => t = "background")
  BY DEF Tiers
<1>4. Kinds = {"start", "retry", "done", "new"} /\ "user" \in Tiers /\ "background" \in Tiers
  BY DEF Kinds, Tiers
<1>5. CASE Server
  <2>1. CASE BackgroundRound
    <3>1. round["user"] = "none" /\ running /\ request = "none"
      BY <1>1, <2>1 DEF BackgroundRound, Inv, PageOK, Tiers
    <3>. QED
      BY <1>1, <1>2, <1>4, <2>1, <3>1, PublishKeepsEnd DEF BackgroundRound
  <2>2. CASE Stores \/ Notices
    BY <2>2, QuietKeepsEnd DEF Stores, Notices, Notice, hub, Lost, OnItsWay, Replay, After
  <2>3. CASE Flushes
    BY <1>1, <1>2, <1>4, <2>3, PublishKeepsEnd DEF Flushes, WindowEnds
  <2>4. CASE Crash
    BY <2>4 DEF Crash, Resumable
  <2>5. ASSUME NEW t \in Tiers, RoundEnds(t) PROVE FALSE
    <3>1. CASE t = "user"
      BY <1>1, <1>4, <2>5, <3>1, PublishKeepsEnd DEF RoundEnds
    <3>2. CASE t # "user"
      <4>1. round["user"] = "none" /\ running /\ request = "none"
        BY <1>1, <1>4, <2>5, <3>2 DEF RoundEnds, Leaves
      <4>. QED
        BY <1>1, <1>2, <1>4, <2>5, <4>1, PublishKeepsEnd DEF RoundEnds
    <3>. QED
      BY <3>1, <3>2
  <2>6. ASSUME NEW t \in Tiers, Retries(t) PROVE FALSE
    BY <1>1, <1>2, <1>4, <2>6, PublishKeepsEnd DEF Retries
  <2>7. ASSUME NEW t \in Tiers, RoundThrows(t), t # "user" PROVE FALSE
    <3>1. /\ round["user"] = "none" /\ UNCHANGED <<running, request, wire, hub, client>>
      BY <1>1, <1>4, <2>7 DEF RoundThrows, Leaves
    <3>. QED
      BY <1>1, <1>2, <3>1 DEF EndToCome, HistoryHasEnd, hub
  <2>8. ASSUME NEW t \in Tiers, AnnouncementFails(t) PROVE FALSE
    <3>1. CASE t = "user"
      BY <1>1, <1>4, <2>8, <3>1, PublishKeepsEnd DEF AnnouncementFails
    <3>2. CASE t # "user"
      <4>1. round["user"] = "none" /\ running /\ request = "none"
        BY <1>1, <1>4, <2>8, <3>2 DEF AnnouncementFails, Leaves
      <4>. QED
        BY <1>1, <1>2, <1>4, <2>8, <4>1, PublishKeepsEnd DEF AnnouncementFails
    <3>. QED
      BY <3>1, <3>2
  <2>. QED
    BY <1>5, <2>1, <2>2, <2>3, <2>4, <2>5, <2>6, <2>7, <2>8 DEF Server, Ends
<1>6. CASE User
  <2>1. CASE Answered \/ AnswerLost
    BY <1>1, <1>4, <2>1 DEF Answered, AnswerLost, Accepted, UserRound, Inv, PageOK
  <2>2. CASE RequestFails \/ \E kind \in {"single", "bulk"} : Click(kind)
    BY <1>1, <2>2 DEF RequestFails, Click
  <2>3. CASE Disconnects
    BY <1>1, <1>2, <2>3, GoneKeepsEnd DEF Disconnects, Stop
  <2>4. CASE Restarts
    BY <2>4, QuietKeepsEnd DEF Restarts, Start
  <2>. QED
    BY <1>6, <2>1, <2>2, <2>3, <2>4 DEF User
<1>7. CASE Stream
  <2>1. CASE TicketComes \/ StrayComes \/ TicketFails \/ Reconnects
    <3>1. UNCHANGED <<hub, round, request, running, lastId>>
      BY <2>1 DEF TicketComes, Ticket, StrayComes, StrayAnswer, TicketFails, NoTicket,
                  ScheduleReconnect, Reconnects, TimerFires
    <3>2. wire = "up" <=> wire' = "up"
      BY <3>1 DEF Inv, LinkOK, hub
    <3>. QED
      BY <3>1, <3>2, QuietKeepsEnd
  <2>2. CASE IsTurnedAway \/ Opens \/ GivesUp \/ Refetches
    BY <2>2, QuietKeepsEnd DEF IsTurnedAway, Opens, Opened, GivesUp, GiveUp, ScheduleReconnect,
                               Refetches, hub
  <2>3. CASE GoesStale
    BY <1>1, <2>3 DEF GoesStale
  <2>4. CASE Registers
    <3>1. /\ running /\ request = "none" /\ round["user"] = "none"
          /\ wire # "up" /\ wire' = "up" /\ channel' = Replay(lastId)
      BY <1>1, <2>4 DEF Registers, Add
    <3>2. HasEnd(Replay(lastId))
      BY <3>1 DEF Lost, OnItsWay, HasEnd
    <3>3. DOMAIN channel' = 1 .. Len(channel')
      BY DEF Inv, HubOK, HubTypeOK
    <3>. QED
      BY <1>1, <3>1, <3>2, <3>3 DEF HasEnd, EndToCome
  <2>5. CASE Reads
    BY <2>5, ReadKeepsEnd
  <2>6. ASSUME NEW how \in {"refused", "silent"}, Cut(how) PROVE FALSE
    BY <1>1, <1>2, <2>6, GoneKeepsEnd DEF Cut
  <2>. QED
    BY <1>7, <2>1, <2>2, <2>3, <2>4, <2>5, <2>6 DEF Stream, Advances
<1>. QED
  BY <1>5, <1>6, <1>7 DEF Next

\* An entry of the activity list loses its end for one of three reasons only: its
\* click joined a background round, its round threw, or the browser can no longer
\* resume.
THEOREM EntriesLoseNoEnd == Spec => LostForAReason
<1>1. Inv /\ Inv' /\ [Next]_vars =>
        [~Lost /\ Lost' =>
           AlreadyRunning \/ RoundThrows("user") \/ ReadsOrphan \/ ~Resumable']_vars
  BY LostStep
<1>. QED
  BY <1>1, InvAlways, PTL DEF Spec, LostForAReason
=============================================================================
