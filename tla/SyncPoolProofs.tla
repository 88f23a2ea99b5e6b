--------------------------- MODULE SyncPoolProofs ---------------------------
(***************************************************************************)
(* Safety of the execution layer for any rounds, accounts, pool limit and  *)
(* number of attempts.                                                     *)
(***************************************************************************)
EXTENDS SyncPool, SequenceSets, FiniteSetTheorems, TLAPS

\* The microtask queue holds exactly the rounds that are between two awaits,
\* once each, and a waiter that was woken is always next to run.
MicroInv ==
    /\ Members(micro) = {r \in Rounds : stage[r] \in Pending}
    /\ Distinct(micro)
    /\ \A r \in Woken : micro # <<>> /\ Head(micro) = r

\* The pool's queue holds exactly the rounds that wait, once each.
WaitingInv ==
    /\ Members(waiting) = {r \in Rounds : stage[r] = "waiting"}
    /\ Distinct(waiting)

\* The chain of an account holds its rounds that are asked for and not over;
\* the first of them, and no other, has the account.
ChainInv ==
    \A a \in Accounts :
        /\ Distinct(chain[a])
        /\ Members(chain[a]) =
             {r \in Rounds : AccountOf[r] = a /\ (Holds(r) \/ stage[r] = "queued")}
        /\ \A r \in Members(chain[a]) : Holds(r) <=> r = Head(chain[a])

\* Slots are counted, bounded, and not left idle.
SlotInv == ConnectionBound /\ NoIdleSlot

\* A round is blamed on its account from the moment it is over.
BlameInv ==
    \A r \in Rounds :
        /\ failures[r] \in {0, 1}
        /\ failures[r] = 1 => stage[r] \in {"unlocking", "done"} /\ result[r] = "error"
        /\ stage[r] \in {"unlocking", "done"} /\ result[r] = "error" => failures[r] = 1

\* The inductive invariant.
Inv == TypeOK /\ MicroInv /\ WaitingInv /\ ChainInv /\ SlotInv /\ BlameInv

-----------------------------------------------------------------------------
(* Queues: their members and their order, after a step at either end       *)

\* The empty sequence has no members, any other has its head.
LEMMA HeadMember ==
    ASSUME NEW S, NEW s \in Seq(S)
    PROVE  /\ s = <<>> <=> Members(s) = {}
           /\ s # <<>> => Head(s) \in Members(s) /\ Head(s) = s[1]
           /\ Members(s) \subseteq S
<1>1. s # <<>> => Len(s) >= 1
  OBVIOUS
<1>2. s = <<>> => Len(s) = 0
  OBVIOUS
<1>. QED
  BY <1>1, <1>2 DEF Members

\* Removing the head.
LEMMA TailMembers ==
    ASSUME NEW S, NEW s \in Seq(S), s # <<>>
    PROVE  /\ Tail(s) \in Seq(S)
           /\ Members(s) = Members(Tail(s)) \union {Head(s)}
           /\ Distinct(s) => Distinct(Tail(s)) /\ Head(s) \notin Members(Tail(s))
<1>1. /\ Tail(s) \in Seq(S) /\ Len(Tail(s)) = Len(s) - 1 /\ Len(s) \in Nat \ {0}
      /\ \A i \in 1 .. Len(Tail(s)) : Tail(s)[i] = s[i + 1]
      /\ Head(s) = s[1]
  OBVIOUS
<1>2. Members(Tail(s)) \subseteq Members(s)
  <2>1. SUFFICES ASSUME NEW i \in 1 .. Len(Tail(s)) PROVE Tail(s)[i] \in Members(s)
    BY DEF Members
  <2>2. Tail(s)[i] = s[i + 1] /\ i + 1 \in 1 .. Len(s)
    BY <1>1, <2>1
  <2>. QED
    BY <2>2 DEF Members
<1>3. Head(s) \in Members(s)
  BY <1>1 DEF Members
<1>4. Members(s) \subseteq Members(Tail(s)) \union {Head(s)}
  <2>1. SUFFICES ASSUME NEW i \in 1 .. Len(s) PROVE s[i] \in Members(Tail(s)) \union {Head(s)}
    BY DEF Members
  <2>2. CASE i = 1
    BY <1>1, <2>2
  <2>3. CASE i # 1
    <3>1. i - 1 \in 1 .. Len(Tail(s)) /\ Tail(s)[i - 1] = s[(i - 1) + 1]
      BY <1>1, <2>1, <2>3
    <3>2. (i - 1) + 1 = i
      BY <2>1
    <3>. QED
      BY <3>1, <3>2 DEF Members
  <2>. QED
    BY <2>2, <2>3
<1>5. ASSUME Distinct(s) PROVE Distinct(Tail(s))
  <2>1. SUFFICES ASSUME NEW i \in 1 .. Len(Tail(s)), NEW j \in 1 .. Len(Tail(s)),
                        Tail(s)[i] = Tail(s)[j]
                 PROVE  i = j
    BY DEF Distinct
  <2>2. s[i + 1] = s[j + 1] /\ i + 1 \in 1 .. Len(s) /\ j + 1 \in 1 .. Len(s)
    BY <1>1, <2>1
  <2>3. i + 1 = j + 1
    BY <1>5, <2>2 DEF Distinct
  <2>. QED
    BY <2>1, <2>3
<1>6. ASSUME Distinct(s) PROVE Head(s) \notin Members(Tail(s))
  <2>1. SUFFICES ASSUME NEW i \in 1 .. Len(Tail(s)), Tail(s)[i] = Head(s) PROVE FALSE
    BY DEF Members
  <2>2. s[i + 1] = s[1] /\ i + 1 \in 1 .. Len(s) /\ 1 \in 1 .. Len(s)
    BY <1>1, <2>1
  <2>3. i + 1 = 1
    BY <1>6, <2>2 DEF Distinct
  <2>. QED
    BY <2>1, <2>3
<1>. QED
  BY <1>1, <1>2, <1>3, <1>4, <1>5, <1>6

\* Adding an element at the end.
LEMMA AppendMembers ==
    ASSUME NEW S, NEW s \in Seq(S), NEW e \in S
    PROVE  /\ Append(s, e) \in Seq(S) /\ Append(s, e) # <<>>
           /\ Members(Append(s, e)) = Members(s) \union {e}
           /\ Distinct(s) /\ e \notin Members(s) => Distinct(Append(s, e))
           /\ Head(Append(s, e)) = IF s = <<>> THEN e ELSE Head(s)
<1>. DEFINE t == Append(s, e)
<1>1. /\ t \in Seq(S) /\ Len(t) = Len(s) + 1 /\ Len(s) \in Nat /\ t # <<>>
      /\ \A i \in 1 .. Len(s) : t[i] = s[i]
      /\ t[Len(s) + 1] = e
  OBVIOUS
<1>7. Head(t) = t[1]
  BY <1>1
<1>8. (s # <<>> => Len(s) >= 1 /\ Head(s) = s[1]) /\ (s = <<>> => Len(s) = 0)
  OBVIOUS
<1>. HIDE DEF t
<1>2. \A i \in 1 .. Len(t) : i \in 1 .. Len(s) \/ i = Len(s) + 1
  BY <1>1
<1>3. Members(t) \subseteq Members(s) \union {e}
  BY <1>1, <1>2 DEF Members
<1>4. Members(s) \union {e} \subseteq Members(t)
  <2>1. e \in Members(t)
    BY <1>1 DEF Members
  <2>2. ASSUME NEW i \in 1 .. Len(s) PROVE s[i] \in Members(t)
    BY <1>1, <2>2 DEF Members
  <2>. QED
    BY <2>1, <2>2 DEF Members
<1>5. ASSUME Distinct(s), e \notin Members(s) PROVE Distinct(t)
  <2>1. SUFFICES ASSUME NEW i \in 1 .. Len(t), NEW j \in 1 .. Len(t), t[i] = t[j] PROVE i = j
    BY DEF Distinct
  <2>2. CASE i \in 1 .. Len(s) /\ j \in 1 .. Len(s)
    BY <1>1, <1>5, <2>1, <2>2 DEF Distinct
  <2>3. CASE i \in 1 .. Len(s) /\ j = Len(s) + 1
    <3>1. s[i] = e
      BY <1>1, <2>1, <2>3
    <3>. QED
      BY <1>5, <2>3, <3>1 DEF Members
  <2>4. CASE i = Len(s) + 1 /\ j \in 1 .. Len(s)
    <3>1. s[j] = e
      BY <1>1, <2>1, <2>4
    <3>. QED
      BY <1>5, <2>4, <3>1 DEF Members
  <2>. QED
    BY <1>2, <2>1, <2>2, <2>3, <2>4
<1>6. Head(t) = IF s = <<>> THEN e ELSE Head(s)
  BY <1>1, <1>7, <1>8
<1>. QED
  BY <1>1, <1>3, <1>4, <1>5, <1>6 DEF t

\* Adding an element at the front.
LEMMA PushMembers ==
    ASSUME NEW S, NEW s \in Seq(S), NEW e \in S
    PROVE  /\ <<e>> \o s \in Seq(S) /\ <<e>> \o s # <<>>
           /\ Members(<<e>> \o s) = Members(s) \union {e}
           /\ Distinct(s) /\ e \notin Members(s) => Distinct(<<e>> \o s)
<1>. DEFINE t == <<e>> \o s
<1>1. /\ t \in Seq(S) /\ Len(t) = Len(s) + 1 /\ Len(s) \in Nat /\ t # <<>>
      /\ \A i \in 1 .. Len(s) : t[i + 1] = s[i]
      /\ t[1] = e
  OBVIOUS
<1>. HIDE DEF t
<1>2. ASSUME NEW i \in 1 .. Len(t), i # 1
      PROVE  i - 1 \in 1 .. Len(s) /\ t[i] = s[i - 1]
  <2>1. i - 1 \in 1 .. Len(s)
    BY <1>1, <1>2
  <2>2. t[(i - 1) + 1] = s[i - 1]
    BY <1>1, <2>1
  <2>3. (i - 1) + 1 = i
    BY <1>2
  <2>. QED
    BY <2>1, <2>2, <2>3
<1>3. Members(t) \subseteq Members(s) \union {e}
  <2>1. SUFFICES ASSUME NEW i \in 1 .. Len(t) PROVE t[i] \in Members(s) \union {e}
    BY DEF Members
  <2>2. CASE i = 1
    BY <1>1, <2>2
  <2>3. CASE i # 1
    BY <1>2, <2>1, <2>3 DEF Members
  <2>. QED
    BY <2>2, <2>3
<1>4. Members(s) \union {e} \subseteq Members(t)
  <2>1. e \in Members(t)
    BY <1>1 DEF Members
  <2>2. ASSUME NEW i \in 1 .. Len(s) PROVE s[i] \in Members(t)
    <3>1. t[i + 1] = s[i] /\ i + 1 \in 1 .. Len(t)
      BY <1>1, <2>2
    <3>. QED
      BY <3>1 DEF Members
  <2>. QED
    BY <2>1, <2>2 DEF Members
<1>5. ASSUME Distinct(s), e \notin Members(s) PROVE Distinct(t)
  <2>1. SUFFICES ASSUME NEW i \in 1 .. Len(t), NEW j \in 1 .. Len(t), t[i] = t[j] PROVE i = j
    BY DEF Distinct
  <2>2. CASE i # 1 /\ j # 1
    <3>1. i - 1 = j - 1
      BY <1>2, <1>5, <2>1, <2>2 DEF Distinct
    <3>. QED
      BY <2>1, <3>1
  <2>3. CASE i = 1 /\ j # 1
    BY <1>1, <1>2, <1>5, <2>1, <2>3 DEF Members
  <2>4. CASE i # 1 /\ j = 1
    BY <1>1, <1>2, <1>5, <2>1, <2>4 DEF Members
  <2>. QED
    BY <2>2, <2>3, <2>4
<1>. QED
  BY <1>1, <1>3, <1>4, <1>5 DEF t

\* Short sequences.
LEMMA ShortMembers ==
    /\ Members(<<>>) = {} /\ Distinct(<<>>)
    /\ \A S : \A e \in S : <<e>> \in Seq(S) /\ Members(<<e>>) = {e} /\ Distinct(<<e>>) /\ Head(<<e>>) = e
    /\ \A S : \A e, f \in S :
          /\ <<e, f>> \in Seq(S) /\ Members(<<e, f>>) = {e, f} /\ Head(<<e, f>>) = e
          /\ e # f => Distinct(<<e, f>>)
<1>1. Members(<<>>) = {} /\ Distinct(<<>>)
  BY DEF Members, Distinct
<1>2. ASSUME NEW S, NEW e \in S
      PROVE  <<e>> \in Seq(S) /\ Members(<<e>>) = {e} /\ Distinct(<<e>>) /\ Head(<<e>>) = e
  BY DEF Members, Distinct
<1>3. ASSUME NEW S, NEW e \in S, NEW f \in S
      PROVE  /\ <<e, f>> \in Seq(S) /\ Members(<<e, f>>) = {e, f} /\ Head(<<e, f>>) = e
             /\ e # f => Distinct(<<e, f>>)
  <2>1. <<e, f>> \in Seq(S) /\ Len(<<e, f>>) = 2 /\ <<e, f>>[1] = e /\ <<e, f>>[2] = f
          /\ Head(<<e, f>>) = e
    OBVIOUS
  <2>2. 1 .. 2 = {1, 2}
    OBVIOUS
  <2>. QED
    BY <2>1, <2>2 DEF Members, Distinct
<1>. QED
  BY <1>1, <1>2, <1>3

\* It stays so when the sequence is served, when a member of P is put at the
\* front and when another element is put at the end.
LEMMA TailAhead ==
    ASSUME NEW P, NEW S, NEW s \in Seq(S), s # <<>>, Ahead(P, s)
    PROVE  Ahead(P, Tail(s))
<1>1. /\ Len(Tail(s)) = Len(s) - 1 /\ Len(s) \in Nat \ {0}
      /\ \A i \in 1 .. Len(Tail(s)) : Tail(s)[i] = s[i + 1]
  OBVIOUS
<1>2. SUFFICES ASSUME NEW i \in 1 .. Len(Tail(s)), NEW j \in 1 .. Len(Tail(s)),
                      i < j, Tail(s)[j] \in P
               PROVE  Tail(s)[i] \in P
  BY DEF Ahead
<1>3. i + 1 \in 1 .. Len(s) /\ j + 1 \in 1 .. Len(s) /\ i + 1 < j + 1
  BY <1>1, <1>2
<1>. QED
  BY <1>1, <1>2, <1>3 DEF Ahead

LEMMA PushAhead ==
    ASSUME NEW P, NEW S, NEW s \in Seq(S), NEW e \in S, e \in P, Ahead(P, s)
    PROVE  Ahead(P, <<e>> \o s)
<1>. DEFINE t == <<e>> \o s
<1>1. /\ Len(t) = Len(s) + 1 /\ Len(s) \in Nat
      /\ \A i \in 1 .. Len(s) : t[i + 1] = s[i]
      /\ t[1] = e
  OBVIOUS
<1>. HIDE DEF t
<1>2. ASSUME NEW i \in 1 .. Len(t), i # 1
      PROVE  i - 1 \in 1 .. Len(s) /\ t[i] = s[i - 1]
  <2>1. i - 1 \in 1 .. Len(s)
    BY <1>1, <1>2
  <2>2. t[(i - 1) + 1] = s[i - 1] /\ (i - 1) + 1 = i
    BY <1>1, <2>1, <1>2
  <2>. QED
    BY <2>1, <2>2
<1>3. ASSUME NEW i \in 1 .. Len(t), NEW j \in 1 .. Len(t), i < j, t[j] \in P
      PROVE  t[i] \in P
  <2>1. CASE i = 1
    BY <1>1, <2>1
  <2>2. CASE i # 1
    <3>1. j # 1 /\ i - 1 < j - 1
      BY <1>1, <1>3, <2>2
    <3>. QED
      BY <1>2, <1>3, <2>2, <3>1 DEF Ahead
  <2>. QED
    BY <2>1, <2>2
<1>. QED
  BY <1>3 DEF Ahead, t

LEMMA AppendAhead ==
    ASSUME NEW P, NEW S, NEW s \in Seq(S), NEW e \in S, e \notin P, Ahead(P, s)
    PROVE  Ahead(P, Append(s, e))
<1>. DEFINE t == Append(s, e)
<1>1. /\ Len(t) = Len(s) + 1 /\ Len(s) \in Nat
      /\ \A i \in 1 .. Len(s) : t[i] = s[i]
      /\ t[Len(s) + 1] = e
  OBVIOUS
<1>. HIDE DEF t
<1>2. ASSUME NEW i \in 1 .. Len(t), NEW j \in 1 .. Len(t), i < j, t[j] \in P
      PROVE  t[i] \in P
  <2>1. j # Len(s) + 1
    BY <1>1, <1>2
  <2>2. i \in 1 .. Len(s) /\ j \in 1 .. Len(s)
    BY <1>1, <1>2, <2>1
  <2>. QED
    BY <1>1, <1>2, <2>2 DEF Ahead
<1>. QED
  BY <1>2 DEF Ahead, t

-----------------------------------------------------------------------------
(* Facts that several steps use                                            *)

\* No two rounds are woken at once, and none is while the queue is empty or
\* another round is next.
LEMMA WokenIsNext ==
    ASSUME Inv
    PROVE  /\ micro = <<>> => Woken = {}
           /\ \A r \in Rounds : micro # <<>> /\ Head(micro) = r =>
                 Woken = IF stage[r] = "woken" THEN {r} ELSE {}
BY DEF Inv, MicroInv, Woken

\* The counts of the two sets the pool's slots are in.
LEMMA SlotSets ==
    /\ Cardinality({}) = 0
    /\ \A r : Cardinality({r}) = 1
    /\ IsFiniteSet(Connected) /\ Cardinality(Connected) \in Nat
BY FS_EmptySet, FS_Singleton, FS_Subset, FS_CardinalityType, RoundsAssumption DEF Connected

\* A step that moves rounds only among the stages that hold their account, or
\* among those that do not, leaves the chains right.
LEMMA HoldersKept ==
    ASSUME ChainInv, chain' = chain,
           \A r \in Rounds : (Holds(r))' = Holds(r) /\ (stage'[r] = "queued" <=> stage[r] = "queued")
    PROVE  ChainInv'
BY DEF ChainInv

\* The head of the microtask queue is a round that is between two awaits.
LEMMA HeadIsPending ==
    ASSUME Inv, micro # <<>>
    PROVE  /\ Head(micro) \in Rounds /\ stage[Head(micro)] \in Pending
           /\ Tail(micro) \in Seq(Rounds) /\ Distinct(Tail(micro))
           /\ Members(Tail(micro)) = {r \in Rounds : stage[r] \in Pending} \ {Head(micro)}
BY HeadMember, TailMembers DEF Inv, TypeOK, MicroInv

\* Connecting a round that was not connected takes one slot more.
LEMMA OneMoreConnected ==
    ASSUME NEW r \in Rounds, r \notin Connected
    PROVE  Cardinality(Connected \union {r}) = Cardinality(Connected) + 1
BY SlotSets, FS_AddElement

LEMMA OneLessConnected ==
    ASSUME NEW r \in Connected
    PROVE  Cardinality(Connected \ {r}) = Cardinality(Connected) - 1
BY SlotSets, FS_RemoveElement

-----------------------------------------------------------------------------
(* The steps                                                               *)

\* A round joins the chain of its account.
LEMMA EnqueueInv ==
    ASSUME Inv, NEW r \in Rounds, micro = <<>>, stage[r] = "idle", Enqueue(r),
           UNCHANGED <<tries, active, waiting, result, failures, stopping>>
    PROVE  Inv'
<1>. DEFINE a == AccountOf[r]
<1>1. a \in Accounts /\ chain[a] \in Seq(Rounds) /\ r \notin Members(chain[a])
  <2>1. a \in Accounts
    BY RoundsAssumption
  <2>2. ~Holds(r) /\ stage[r] # "queued"
    BY DEF Holds, Pending
  <2>. QED
    BY <2>1, <2>2 DEF Inv, TypeOK, ChainInv
<1>2. chain' = [chain EXCEPT ![a] = Append(chain[a], r)]
  BY <1>1 DEF Enqueue, Inv, TypeOK
<1>3. /\ Append(chain[a], r) \in Seq(Rounds) /\ Distinct(Append(chain[a], r))
      /\ Members(Append(chain[a], r)) = Members(chain[a]) \union {r}
      /\ Head(Append(chain[a], r)) = IF chain[a] = <<>> THEN r ELSE Head(chain[a])
  BY <1>1, AppendMembers DEF Inv, ChainInv
<1>4. Woken = {} /\ \A s \in Rounds : stage[s] \notin Pending
  BY WokenIsNext, HeadMember DEF Inv, MicroInv, TypeOK
<1>5. \/ /\ Locked(a) /\ stage' = [stage EXCEPT ![r] = "queued"] /\ micro' = <<>>
      \/ /\ ~Locked(a) /\ stage' = [stage EXCEPT ![r] = "starting"] /\ micro' = <<r>>
  BY DEF Enqueue
<1>6. TypeOK'
  <2>1. stage' \in [Rounds -> Stages] /\ micro' \in Seq(Rounds)
    <3>1. stage' \in [Rounds -> Stages]
      BY <1>5 DEF Inv, TypeOK, Stages, Pending
    <3>2. <<>> \in Seq(Rounds) /\ <<r>> \in Seq(Rounds)
      BY ShortMembers
    <3>. QED
      BY <1>5, <3>1, <3>2
  <2>2. chain' \in [Accounts -> Seq(Rounds)]
    BY <1>2, <1>3 DEF Inv, TypeOK
  <2>. QED
    BY <2>1, <2>2 DEF Inv, TypeOK
<1>7. MicroInv'
  <2>1. Woken' = {}
    BY <1>4, <1>5 DEF Woken, Inv, TypeOK
  <2>2. Members(micro') = {s \in Rounds : stage'[s] \in Pending} /\ Distinct(micro')
    BY <1>4, <1>5, ShortMembers DEF Inv, TypeOK, Pending
  <2>. QED
    BY <2>1, <2>2 DEF MicroInv
<1>8. WaitingInv'
  BY <1>5 DEF Inv, TypeOK, WaitingInv
<1>9. ChainInv'
  <2>1. SUFFICES ASSUME NEW b \in Accounts
        PROVE  /\ Distinct(chain'[b])
               /\ Members(chain'[b]) =
                    {s \in Rounds : AccountOf[s] = b /\ ((Holds(s))' \/ stage'[s] = "queued")}
               /\ \A s \in Members(chain'[b]) : (Holds(s))' <=> s = Head(chain'[b])
    BY DEF ChainInv
  <2>2. \A s \in Rounds \ {r} : (Holds(s))' = Holds(s) /\ stage'[s] = stage[s]
    BY <1>5 DEF Holds, Inv, TypeOK
  <2>3. /\ (Holds(r))' <=> ~Locked(a)
        /\ stage'[r] = "queued" <=> Locked(a)
        /\ ~Holds(r) /\ stage[r] # "queued"
    BY <1>5 DEF Holds, Inv, TypeOK, Pending
  <2>4. CASE b # a
    <3>1. chain'[b] = chain[b] /\ AccountOf[r] # b
      BY <1>2, <2>4 DEF Inv, TypeOK
    <3>2. r \notin Members(chain[b])
      BY <3>1 DEF Inv, ChainInv
    <3>. QED
      BY <2>1, <2>2, <3>1, <3>2 DEF Inv, ChainInv
  <2>5. CASE b = a
    <3>1. chain'[b] = Append(chain[a], r)
      BY <1>1, <1>2, <2>5 DEF Inv, TypeOK
    <3>2. Members(chain'[b]) =
            {s \in Rounds : AccountOf[s] = a /\ ((Holds(s))' \/ stage'[s] = "queued")}
      BY <1>1, <1>3, <2>2, <2>3, <3>1 DEF Inv, ChainInv
    <3>3. \A s \in Members(chain'[b]) : (Holds(s))' <=> s = Head(chain'[b])
      <4>1. CASE chain[a] = <<>>
        BY <1>1, <1>3, <2>3, <3>1, <4>1, ShortMembers DEF Locked
      <4>2. CASE chain[a] # <<>>
        <5>1. Head(chain[a]) \in Members(chain[a]) /\ Members(chain[a]) \subseteq Rounds
          BY <1>1, <4>2, HeadMember
        <5>. QED
          BY <1>1, <1>3, <2>2, <2>3, <3>1, <4>2, <5>1 DEF Locked, Inv, ChainInv
      <4>. QED
        BY <4>1, <4>2
    <3>. QED
      BY <1>3, <2>5, <3>1, <3>2, <3>3
  <2>. QED
    BY <2>4, <2>5
<1>10. SlotInv'
  <2>1. Connected' = Connected /\ Woken' = Woken
    BY <1>5 DEF Connected, Woken, Inv, TypeOK
  <2>. QED
    BY <2>1 DEF Inv, SlotInv, ConnectionBound, NoIdleSlot
<1>11. BlameInv'
  BY <1>5 DEF BlameInv, Inv, TypeOK
<1>. QED
  BY <1>6, <1>7, <1>8, <1>9, <1>10, <1>11 DEF Inv

\* A round that is next asks the pool for a slot.
LEMMA AcquireInv ==
    ASSUME Inv, NEW r \in Rounds, micro # <<>>, Head(micro) = r,
           stage[r] \in {"starting", "retrying"}, Acquire(r), micro' = Tail(micro),
           UNCHANGED <<chain, result, failures, stopping>>
    PROVE  Inv'
<1>1. /\ Woken = {} /\ r \notin Connected /\ r \notin Members(waiting)
      /\ \A s \in Rounds : stage[s] # "woken"
  BY WokenIsNext DEF Inv, Connected, WaitingInv, Woken
<1>2. /\ Tail(micro) \in Seq(Rounds) /\ Distinct(Tail(micro))
      /\ Members(Tail(micro)) = {s \in Rounds : stage[s] \in Pending} \ {r}
  BY HeadIsPending
<1>3. \/ /\ active < Limit /\ active' = active + 1 /\ waiting' = waiting
         /\ stage' = [stage EXCEPT ![r] = "attempt"]
      \/ /\ ~(active < Limit) /\ active' = active
         /\ \/ waiting' = <<r>> \o waiting
            \/ waiting' = Append(waiting, r)
         /\ stage' = [stage EXCEPT ![r] = "waiting"]
  BY DEF Acquire
<1>4. /\ waiting' \in Seq(Rounds)
      /\ waiting' = waiting \/ (Members(waiting') = Members(waiting) \union {r} /\ Distinct(waiting')
                                  /\ waiting' # <<>>)
      /\ waiting' = waiting => stage' = [stage EXCEPT ![r] = "attempt"]
  <2>1. waiting \in Seq(Rounds) /\ Distinct(waiting)
    BY DEF Inv, TypeOK, WaitingInv
  <2>2. /\ <<r>> \o waiting \in Seq(Rounds) /\ <<r>> \o waiting # <<>>
        /\ Members(<<r>> \o waiting) = Members(waiting) \union {r}
        /\ Distinct(<<r>> \o waiting)
    BY <1>1, <2>1, PushMembers
  <2>3. /\ Append(waiting, r) \in Seq(Rounds) /\ Append(waiting, r) # <<>>
        /\ Members(Append(waiting, r)) = Members(waiting) \union {r}
        /\ Distinct(Append(waiting, r))
    BY <1>1, <2>1, AppendMembers
  <2>. QED
    BY <1>1, <1>3, <2>1, <2>2, <2>3
<1>5. TypeOK'
  <2>1. stage' \in [Rounds -> Stages]
    BY <1>3 DEF Inv, TypeOK, Stages, Pending
  <2>2. active' \in Nat
    BY <1>3 DEF Inv, TypeOK
  <2>3. tries' \in [Rounds -> Nat]
    BY DEF Acquire, Inv, TypeOK
  <2>. QED
    BY <1>2, <1>4, <2>1, <2>2, <2>3 DEF Inv, TypeOK
<1>6. MicroInv'
  <2>1. Woken' = {}
    BY <1>1, <1>3 DEF Woken, Inv, TypeOK
  <2>2. Members(micro') = {s \in Rounds : stage'[s] \in Pending}
    BY <1>2, <1>3 DEF Inv, TypeOK, Pending
  <2>. QED
    BY <1>2, <2>1, <2>2 DEF MicroInv
<1>7. WaitingInv'
  BY <1>3, <1>4 DEF Inv, TypeOK, WaitingInv
<1>8. ChainInv'
  <2>1. \A s \in Rounds : (Holds(s))' = Holds(s) /\ (stage'[s] = "queued" <=> stage[s] = "queued")
    BY <1>3 DEF Holds, Inv, TypeOK, Pending
  <2>. QED
    BY <2>1, HoldersKept DEF Inv
<1>9. SlotInv'
  <2>1. Woken' = {} /\ Cardinality({}) = 0
    BY <1>1, <1>3, SlotSets DEF Woken, Inv, TypeOK
  <2>2. Cardinality(Connected) = active /\ active <= Limit /\ (waiting # <<>> => active = Limit)
    BY <1>1, <2>1 DEF Inv, SlotInv, ConnectionBound, NoIdleSlot, TypeOK
  <2>3. CASE active < Limit /\ active' = active + 1 /\ waiting' = waiting
                /\ stage' = [stage EXCEPT ![r] = "attempt"]
    <3>1. Connected' = Connected \union {r}
      BY <2>3 DEF Connected, Inv, TypeOK
    <3>2. Cardinality(Connected') = active'
      BY <1>1, <2>2, <2>3, <3>1, OneMoreConnected
    <3>. QED
      BY <2>1, <2>2, <2>3, <3>2, BoundsAssumption
      DEF SlotInv, ConnectionBound, NoIdleSlot, Inv, TypeOK
  <2>4. CASE ~(active < Limit) /\ active' = active /\ stage' = [stage EXCEPT ![r] = "waiting"]
    <3>1. Connected' = Connected
      BY <1>1, <2>4 DEF Connected, Inv, TypeOK
    <3>2. active = Limit
      BY <2>2, <2>4, BoundsAssumption DEF Inv, TypeOK
    <3>. QED
      BY <2>1, <2>2, <2>4, <3>1, <3>2, BoundsAssumption DEF SlotInv, ConnectionBound, NoIdleSlot
  <2>. QED
    BY <1>3, <2>3, <2>4
<1>10. BlameInv'
  BY <1>3 DEF BlameInv, Inv, TypeOK
<1>. QED
  BY <1>5, <1>6, <1>7, <1>8, <1>9, <1>10 DEF Inv

\* A waiter that was woken takes its slot.
LEMMA ResumeInv ==
    ASSUME Inv, NEW r \in Rounds, Resume(r)
    PROVE  Inv'
<1>1. /\ micro # <<>> /\ Head(micro) = r /\ stage[r] = "woken"
      /\ active' = active + 1 /\ stage' = [stage EXCEPT ![r] = "attempt"]
      /\ micro' = Tail(micro)
      /\ UNCHANGED <<tries, chain, waiting, result, failures, stopping>>
  BY DEF Resume
<1>2. /\ Tail(micro) \in Seq(Rounds) /\ Distinct(Tail(micro))
      /\ Members(Tail(micro)) = {s \in Rounds : stage[s] \in Pending} \ {r}
  BY <1>1, HeadIsPending
<1>3. Woken = {r} /\ Woken' = {} /\ r \notin Connected
  BY <1>1, WokenIsNext DEF Woken, Connected, Inv, TypeOK
<1>4. TypeOK'
  BY <1>1, <1>2 DEF Inv, TypeOK, Stages, Pending
<1>5. MicroInv'
  <2>1. Members(micro') = {s \in Rounds : stage'[s] \in Pending}
    BY <1>1, <1>2 DEF Inv, TypeOK, Pending
  <2>. QED
    BY <1>1, <1>2, <1>3, <2>1 DEF MicroInv
<1>6. WaitingInv'
  BY <1>1 DEF Inv, TypeOK, WaitingInv
<1>7. ChainInv'
  <2>1. \A s \in Rounds : (Holds(s))' = Holds(s) /\ (stage'[s] = "queued" <=> stage[s] = "queued")
    BY <1>1 DEF Holds, Inv, TypeOK, Pending
  <2>. QED
    BY <1>1, <2>1, HoldersKept DEF Inv
<1>8. SlotInv'
  <2>1. Connected' = Connected \union {r}
    BY <1>1 DEF Connected, Inv, TypeOK
  <2>2. Cardinality(Connected') = Cardinality(Connected) + 1
    BY <1>3, <2>1, OneMoreConnected
  <2>3. Cardinality(Woken) = 1 /\ Cardinality(Woken') = 0
    BY <1>3, SlotSets
  <2>. QED
    BY <1>1, <2>2, <2>3, BoundsAssumption
    DEF Inv, TypeOK, SlotInv, ConnectionBound, NoIdleSlot
<1>9. BlameInv'
  BY <1>1 DEF BlameInv, Inv, TypeOK
<1>. QED
  BY <1>4, <1>5, <1>6, <1>7, <1>8, <1>9 DEF Inv

\* An attempt gives its slot back and wakes the first waiter.
LEMMA AttemptEndsInv ==
    ASSUME Inv, NEW r \in Rounds, NEW outcome \in Outcomes, AttemptEnds(r, outcome)
    PROVE  Inv'
<1>. DEFINE w == Head(waiting)
<1>1. /\ micro = <<>> /\ stage[r] = "attempt" /\ active' = active - 1
      /\ result' = [result EXCEPT ![r] = outcome]
      /\ UNCHANGED <<tries, chain, failures, stopping>>
  BY DEF AttemptEnds, Release
<1>2. \/ /\ waiting = <<>> /\ waiting' = <<>> /\ micro' = <<r>>
         /\ stage' = [stage EXCEPT ![r] = "settling"]
      \/ /\ waiting # <<>> /\ waiting' = Tail(waiting) /\ micro' = <<w, r>>
         /\ stage' = [stage EXCEPT ![r] = "settling", ![w] = "woken"]
  BY DEF AttemptEnds, Release
<1>3. /\ Woken = {} /\ r \in Connected
      /\ \A s \in Rounds : stage[s] \notin Pending
      /\ \A s \in Rounds : stage[s] # "woken"
  BY <1>1, WokenIsNext, HeadMember DEF Inv, MicroInv, TypeOK, Connected, Pending
<1>4. waiting # <<>> =>
        /\ w \in Rounds /\ stage[w] = "waiting" /\ w # r
        /\ Tail(waiting) \in Seq(Rounds) /\ Distinct(Tail(waiting))
        /\ Members(Tail(waiting)) = Members(waiting) \ {w}
  BY <1>1, HeadMember, TailMembers DEF Inv, TypeOK, WaitingInv
<1>5. active \in Nat \ {0} /\ Cardinality(Connected \ {r}) = active - 1
  <2>1. Cardinality(Connected) = active /\ active \in Nat
    BY DEF Inv, TypeOK, SlotInv, ConnectionBound
  <2>2. Cardinality(Connected \ {r}) = Cardinality(Connected) - 1
    BY <1>3, OneLessConnected
  <2>3. Cardinality(Connected \ {r}) \in Nat
    BY SlotSets, FS_Subset, FS_CardinalityType
  <2>. QED
    BY <2>1, <2>2, <2>3
<1>6. TypeOK'
  <2>1. stage' \in [Rounds -> Stages]
    BY <1>2, <1>4 DEF Inv, TypeOK, Stages, Pending
  <2>2. micro' \in Seq(Rounds)
    <3>1. <<r>> \in Seq(Rounds)
      OBVIOUS
    <3>2. waiting # <<>> => <<w, r>> \in Seq(Rounds)
      BY <1>4
    <3>. QED
      BY <1>2, <3>1, <3>2
  <2>3. waiting' \in Seq(Rounds)
    BY <1>2, <1>4 DEF Inv, TypeOK
  <2>4. result' \in [Rounds -> Outcomes \union {"none"}]
    BY <1>1 DEF Inv, TypeOK
  <2>5. active' \in Nat
    BY <1>1, <1>5
  <2>. QED
    BY <1>1, <2>1, <2>2, <2>3, <2>4, <2>5 DEF Inv, TypeOK
<1>7. MicroInv'
  <2>1. CASE waiting = <<>>
    <3>1. micro' = <<r>> /\ stage' = [stage EXCEPT ![r] = "settling"]
      BY <1>2, <2>1
    <3>2. Woken' = {}
      BY <1>3, <3>1 DEF Woken, Inv, TypeOK
    <3>3. Members(micro') = {s \in Rounds : stage'[s] \in Pending} /\ Distinct(micro')
      BY <1>3, <3>1, ShortMembers DEF Inv, TypeOK, Pending
    <3>. QED
      BY <3>2, <3>3 DEF MicroInv
  <2>2. CASE waiting # <<>>
    <3>1. micro' = <<w, r>> /\ stage' = [stage EXCEPT ![r] = "settling", ![w] = "woken"]
      BY <1>2, <2>2
    <3>2. Woken' = {w} /\ Head(micro') = w /\ micro' # <<>>
      BY <1>3, <1>4, <2>2, <3>1, ShortMembers DEF Woken, Inv, TypeOK
    <3>3. Members(micro') = {s \in Rounds : stage'[s] \in Pending} /\ Distinct(micro')
      BY <1>3, <1>4, <2>2, <3>1, ShortMembers DEF Inv, TypeOK, Pending
    <3>. QED
      BY <3>2, <3>3 DEF MicroInv
  <2>. QED
    BY <2>1, <2>2
<1>8. WaitingInv'
  <2>1. CASE waiting = <<>>
    BY <1>1, <1>2, <2>1 DEF Inv, TypeOK, WaitingInv
  <2>2. CASE waiting # <<>>
    BY <1>1, <1>2, <1>4, <2>2 DEF Inv, TypeOK, WaitingInv
  <2>. QED
    BY <2>1, <2>2
<1>9. ChainInv'
  <2>1. \A s \in Rounds : (Holds(s))' = Holds(s) /\ (stage'[s] = "queued" <=> stage[s] = "queued")
    BY <1>1, <1>2, <1>4 DEF Holds, Inv, TypeOK, Pending
  <2>. QED
    BY <1>1, <2>1, HoldersKept DEF Inv
<1>10. SlotInv'
  <2>1. Connected' = Connected \ {r}
    BY <1>1, <1>2, <1>4 DEF Connected, Inv, TypeOK
  <2>2. Cardinality(Connected') = active'
    BY <1>1, <1>5, <2>1
  <2>3. active <= Limit /\ (waiting # <<>> => active = Limit)
    BY <1>3, SlotSets, BoundsAssumption DEF Inv, TypeOK, SlotInv, ConnectionBound, NoIdleSlot
  <2>4. CASE waiting = <<>>
    <3>1. Woken' = {} /\ waiting' = <<>>
      BY <1>2, <1>3, <2>4 DEF Woken, Inv, TypeOK
    <3>. QED
      BY <1>1, <1>5, <2>2, <2>3, <3>1, SlotSets, BoundsAssumption
      DEF SlotInv, ConnectionBound, NoIdleSlot
  <2>5. CASE waiting # <<>>
    <3>1. Woken' = {w} /\ Cardinality({w}) = 1
      BY <1>2, <1>3, <1>4, <2>5, SlotSets DEF Woken, Inv, TypeOK
    <3>2. active' + 1 = Limit
      BY <1>1, <1>5, <2>3, <2>5
    <3>3. active' + Cardinality(Woken') = Limit
      BY <3>1, <3>2
    <3>. QED
      BY <2>2, <3>3, BoundsAssumption DEF SlotInv, ConnectionBound, NoIdleSlot
  <2>. QED
    BY <2>4, <2>5
<1>11. BlameInv'
  <2>1. \A s \in Rounds : stage'[s] \in {"unlocking", "done"} <=> stage[s] \in {"unlocking", "done"}
    BY <1>1, <1>2, <1>4 DEF Inv, TypeOK
  <2>2. \A s \in Rounds : stage[s] \in {"unlocking", "done"} => result'[s] = result[s]
    BY <1>1 DEF Inv, TypeOK
  <2>. QED
    BY <1>1, <2>1, <2>2 DEF BlameInv, Inv
<1>. QED
  BY <1>6, <1>7, <1>8, <1>9, <1>10, <1>11 DEF Inv

\* A round that is next moves on without touching the pool: its next stage is
\* another continuation ("again") or it waits for a timer.
LEMMA MoveOnInv ==
    ASSUME Inv, NEW r \in Rounds, micro # <<>>, Head(micro) = r,
           stage[r] \in {"settling", "retrying"}, NEW next,
           stage' = [stage EXCEPT ![r] = next],
           \/ next \in {"retrying", "unlocking"} /\ micro' = Append(Tail(micro), r)
           \/ next = "backoff" /\ micro' = Tail(micro),
           failures' \in [Rounds -> Nat], BlameInv',
           UNCHANGED <<tries, chain, active, waiting, result, stopping>>
    PROVE  Inv'
<1>1. /\ Tail(micro) \in Seq(Rounds) /\ Distinct(Tail(micro))
      /\ Members(Tail(micro)) = {s \in Rounds : stage[s] \in Pending} \ {r}
  BY HeadIsPending
<1>2. /\ Append(Tail(micro), r) \in Seq(Rounds) /\ Distinct(Append(Tail(micro), r))
      /\ Members(Append(Tail(micro), r)) = Members(Tail(micro)) \union {r}
  <2>1. ASSUME NEW q \in Seq(Rounds), Distinct(q), r \notin Members(q)
        PROVE  /\ Append(q, r) \in Seq(Rounds) /\ Distinct(Append(q, r))
               /\ Members(Append(q, r)) = Members(q) \union {r}
    BY <2>1, AppendMembers
  <2>. QED
    BY <1>1, <2>1
<1>3. Woken = {} /\ Woken' = {} /\ Connected' = Connected
  BY WokenIsNext DEF Woken, Connected, Inv, TypeOK
<1>4. TypeOK'
  <2>1. stage' \in [Rounds -> Stages]
    BY DEF Inv, TypeOK, Stages, Pending
  <2>2. micro' \in Seq(Rounds)
    BY <1>1, <1>2
  <2>. QED
    BY <2>1, <2>2 DEF Inv, TypeOK
<1>5. MicroInv'
  <2>1. Members(micro') = {s \in Rounds : stage'[s] \in Pending}
    BY <1>1, <1>2 DEF Inv, TypeOK, Pending
  <2>. QED
    BY <1>1, <1>2, <1>3, <2>1 DEF MicroInv
<1>6. WaitingInv'
  BY DEF Inv, TypeOK, WaitingInv
<1>7. ChainInv'
  <2>1. \A s \in Rounds : (Holds(s))' = Holds(s) /\ (stage'[s] = "queued" <=> stage[s] = "queued")
    BY DEF Holds, Inv, TypeOK, Pending
  <2>. QED
    BY <2>1, HoldersKept DEF Inv
<1>8. SlotInv'
  BY <1>3 DEF Inv, SlotInv, ConnectionBound, NoIdleSlot
<1>. QED
  BY <1>4, <1>5, <1>6, <1>7, <1>8 DEF Inv

\* The end of a round, with the failure it may leave on its account.
LEMMA FinishInv ==
    ASSUME Inv, NEW r \in Rounds, micro # <<>>, Head(micro) = r,
           stage[r] \in {"settling", "retrying"}, Finish(r),
           UNCHANGED <<tries, chain, active, waiting, result, stopping>>
    PROVE  Inv'
<1>1. /\ failures' = IF result[r] = "error" THEN [failures EXCEPT ![r] = failures[r] + 1] ELSE failures
      /\ stage' = [stage EXCEPT ![r] = "unlocking"] /\ micro' = Append(Tail(micro), r)
  BY DEF Finish
<1>2. failures \in [Rounds -> Nat] /\ failures[r] = 0
  BY DEF Inv, TypeOK, BlameInv
<1>3. failures' \in [Rounds -> Nat]
  BY <1>1, <1>2
<1>4. /\ failures'[r] = IF result[r] = "error" THEN 1 ELSE 0
      /\ \A s \in Rounds \ {r} : failures'[s] = failures[s]
  BY <1>1, <1>2
<1>5. stage'[r] = "unlocking" /\ \A s \in Rounds \ {r} : stage'[s] = stage[s]
  BY <1>1 DEF Inv, TypeOK
<1>6. BlameInv'
  BY <1>4, <1>5 DEF BlameInv, Inv
<1>. QED
  BY <1>1, <1>3, <1>6, MoveOnInv

LEMMA SettleInv ==
    ASSUME Inv, NEW r \in Rounds, Settle(r)
    PROVE  Inv'
<1>1. micro # <<>> /\ Head(micro) = r /\ stage[r] = "settling"
      /\ UNCHANGED <<tries, chain, active, waiting, result, stopping>>
  BY DEF Settle
<1>2. CASE Finish(r)
  BY <1>1, <1>2, FinishInv
<1>3. CASE /\ UNCHANGED failures
           /\ \/ stage' = [stage EXCEPT ![r] = "retrying"] /\ micro' = Append(Tail(micro), r)
              \/ stage' = [stage EXCEPT ![r] = "backoff"] /\ micro' = Tail(micro)
  <2>1. BlameInv' /\ failures' \in [Rounds -> Nat]
    BY <1>1, <1>3 DEF Inv, TypeOK, BlameInv
  <2>2. CASE stage' = [stage EXCEPT ![r] = "retrying"] /\ micro' = Append(Tail(micro), r)
    BY <1>1, <2>1, <2>2, MoveOnInv
  <2>3. CASE stage' = [stage EXCEPT ![r] = "backoff"] /\ micro' = Tail(micro)
    BY <1>1, <2>1, <2>3, MoveOnInv
  <2>. QED
    BY <1>3, <2>2, <2>3
<1>. QED
  BY <1>2, <1>3 DEF Settle

LEMMA RetryInv ==
    ASSUME Inv, NEW r \in Rounds, Retry(r)
    PROVE  Inv'
<1>1. micro # <<>> /\ Head(micro) = r /\ stage[r] = "retrying" /\ UNCHANGED <<chain, result, stopping>>
  BY DEF Retry
<1>2. CASE Finish(r) /\ UNCHANGED <<tries, active, waiting>>
  BY <1>1, <1>2, FinishInv
<1>3. CASE Acquire(r) /\ micro' = Tail(micro) /\ UNCHANGED failures
  BY <1>1, <1>3, AcquireInv
<1>. QED
  BY <1>2, <1>3 DEF Retry

\* A timer fires.
LEMMA BackoffEndsInv ==
    ASSUME Inv, NEW r \in Rounds, BackoffEnds(r)
    PROVE  Inv'
<1>1. /\ micro = <<>> /\ stage[r] = "backoff" /\ micro' = <<r>>
      /\ stage' = [stage EXCEPT ![r] = "retrying"]
      /\ UNCHANGED <<tries, chain, active, waiting, result, failures, stopping>>
  BY DEF BackoffEnds
<1>2. Woken = {} /\ \A s \in Rounds : stage[s] \notin Pending
  BY <1>1, WokenIsNext, HeadMember DEF Inv, MicroInv, TypeOK
<1>3. Woken' = {} /\ Connected' = Connected
  BY <1>1, <1>2 DEF Woken, Connected, Inv, TypeOK
<1>4. TypeOK'
  <2>1. stage' \in [Rounds -> Stages]
    BY <1>1 DEF Inv, TypeOK, Stages, Pending
  <2>2. micro' \in Seq(Rounds)
    BY <1>1
  <2>. QED
    BY <1>1, <2>1, <2>2 DEF Inv, TypeOK
<1>5. MicroInv'
  <2>1. Members(micro') = {s \in Rounds : stage'[s] \in Pending} /\ Distinct(micro')
    BY <1>1, <1>2, ShortMembers DEF Inv, TypeOK, Pending
  <2>. QED
    BY <1>3, <2>1 DEF MicroInv
<1>6. WaitingInv'
  BY <1>1 DEF Inv, TypeOK, WaitingInv
<1>7. ChainInv'
  <2>1. \A s \in Rounds : (Holds(s))' = Holds(s) /\ (stage'[s] = "queued" <=> stage[s] = "queued")
    BY <1>1 DEF Holds, Inv, TypeOK, Pending
  <2>. QED
    BY <1>1, <2>1, HoldersKept DEF Inv
<1>8. SlotInv'
  BY <1>1, <1>2, <1>3 DEF Inv, SlotInv, ConnectionBound, NoIdleSlot
<1>9. BlameInv'
  BY <1>1 DEF BlameInv, Inv, TypeOK
<1>. QED
  BY <1>4, <1>5, <1>6, <1>7, <1>8, <1>9 DEF Inv

\* A background round that finds the account locked gives up.
LEMMA SkipInv ==
    ASSUME Inv, NEW r \in Rounds, stage[r] = "idle", stage' = [stage EXCEPT ![r] = "skipped"],
           UNCHANGED <<tries, chain, active, waiting, micro, result, failures, stopping>>
    PROVE  Inv'
<1>1. Woken' = Woken /\ Connected' = Connected
  BY DEF Woken, Connected, Inv, TypeOK
<1>2. TypeOK'
  BY DEF Inv, TypeOK, Stages, Pending
<1>3. MicroInv'
  BY <1>1 DEF Inv, TypeOK, MicroInv, Pending
<1>4. WaitingInv'
  BY DEF Inv, TypeOK, WaitingInv
<1>5. ChainInv'
  <2>1. \A s \in Rounds : (Holds(s))' = Holds(s) /\ (stage'[s] = "queued" <=> stage[s] = "queued")
    BY DEF Holds, Inv, TypeOK, Pending
  <2>. QED
    BY <2>1, HoldersKept DEF Inv
<1>6. SlotInv'
  BY <1>1 DEF Inv, SlotInv, ConnectionBound, NoIdleSlot
<1>7. BlameInv'
  BY DEF BlameInv, Inv, TypeOK
<1>. QED
  BY <1>2, <1>3, <1>4, <1>5, <1>6, <1>7 DEF Inv

\* A round leaves its account to the next one in the chain.
LEMMA UnlockInv ==
    ASSUME Inv, NEW r \in Rounds, Unlock(r)
    PROVE  Inv'
<1>. DEFINE a == AccountOf[r]
            rest == Tail(chain[a])
            h == Head(rest)
            T == Tail(micro)
<1>1. /\ micro # <<>> /\ Head(micro) = r /\ stage[r] = "unlocking"
      /\ chain' = [chain EXCEPT ![a] = rest]
      /\ UNCHANGED <<tries, active, waiting, result, failures, stopping>>
  BY DEF Unlock
<1>2. \/ /\ rest = <<>> /\ micro' = T /\ stage' = [stage EXCEPT ![r] = "done"]
      \/ /\ rest # <<>> /\ micro' = Append(T, h)
         /\ stage' = [stage EXCEPT ![r] = "done", ![h] = "starting"]
  BY DEF Unlock
<1>3. /\ T \in Seq(Rounds) /\ Distinct(T)
      /\ Members(T) = {s \in Rounds : stage[s] \in Pending} \ {r}
  BY <1>1, HeadIsPending
<1>4. /\ a \in Accounts /\ AccountOf[r] = a /\ chain[a] \in Seq(Rounds) /\ Distinct(chain[a])
      /\ r \in Members(chain[a]) /\ r = Head(chain[a]) /\ chain[a] # <<>>
  <2>1. a \in Accounts /\ Holds(r)
    BY <1>1, RoundsAssumption DEF Holds, Pending
  <2>2. chain[a] \in Seq(Rounds) /\ Distinct(chain[a])
    BY <2>1 DEF Inv, TypeOK, ChainInv
  <2>3. r \in Members(chain[a]) /\ r = Head(chain[a])
    BY <2>1 DEF Inv, ChainInv
  <2>. QED
    BY <2>1, <2>2, <2>3, ShortMembers
<1>5. /\ rest \in Seq(Rounds) /\ Distinct(rest)
      /\ Members(rest) = Members(chain[a]) \ {r}
  BY <1>4, TailMembers
<1>6. \A s \in Members(rest) : /\ s \in Rounds /\ AccountOf[s] = a /\ s # r
                              /\ stage[s] = "queued" /\ ~Holds(s)
  BY <1>4, <1>5 DEF Inv, ChainInv
<1>7. rest # <<>> => h \in Members(rest)
  BY <1>5, HeadMember
<1>8. stage' \in [Rounds -> Stages] /\ stage'[r] = "done"
      /\ (rest # <<>> => h \in Rounds /\ h # r /\ stage[h] = "queued" /\ stage'[h] = "starting")
      /\ \A s \in Rounds : s # r /\ (rest # <<>> => s # h) => stage'[s] = stage[s]
  BY <1>2, <1>6, <1>7 DEF Inv, TypeOK, Stages, Pending
<1>. HIDE DEF a, rest, h, T
<1>9. /\ micro' \in Seq(Rounds) /\ Distinct(micro')
      /\ Members(micro') = {s \in Rounds : stage'[s] \in Pending}
  <2>1. CASE rest = <<>>
    <3>1. Members(T) = {s \in Rounds : stage'[s] \in Pending}
      BY <1>3, <1>8, <2>1 DEF Pending
    <3>. QED
      BY <1>2, <1>3, <2>1, <3>1
  <2>2. CASE rest # <<>>
    <3>1. h \in Rounds /\ h \notin Members(T)
      BY <1>3, <1>8, <2>2 DEF Pending
    <3>2. /\ Append(T, h) \in Seq(Rounds) /\ Distinct(Append(T, h))
          /\ Members(Append(T, h)) = Members(T) \union {h}
      BY <1>3, <3>1, AppendMembers
    <3>3. Members(T) \union {h} = {s \in Rounds : stage'[s] \in Pending}
      BY <1>3, <1>8, <2>2 DEF Pending
    <3>. QED
      BY <1>2, <2>2, <3>2, <3>3
  <2>. QED
    BY <2>1, <2>2
<1>10. Woken = {} /\ Woken' = {} /\ Connected' = Connected
  <2>1. Woken = {}
    BY <1>1, WokenIsNext
  <2>2. Woken' = {}
    BY <1>8, <2>1 DEF Woken
  <2>3. Connected' = Connected
    BY <1>1, <1>8 DEF Connected
  <2>. QED
    BY <2>1, <2>2, <2>3
<1>11. TypeOK'
  <2>1. chain' \in [Accounts -> Seq(Rounds)]
    BY <1>1, <1>5 DEF Inv, TypeOK
  <2>. QED
    BY <1>1, <1>8, <1>9, <2>1 DEF Inv, TypeOK
<1>12. MicroInv'
  BY <1>9, <1>10 DEF MicroInv
<1>13. WaitingInv'
  <2>1. \A s \in Rounds : stage'[s] = "waiting" <=> stage[s] = "waiting"
    BY <1>1, <1>8
  <2>. QED
    BY <1>1, <2>1 DEF Inv, WaitingInv
<1>14. ChainInv'
  <2>1. SUFFICES ASSUME NEW b \in Accounts
        PROVE  /\ Distinct(chain'[b])
               /\ Members(chain'[b]) =
                    {s \in Rounds : AccountOf[s] = b /\ ((Holds(s))' \/ stage'[s] = "queued")}
               /\ \A s \in Members(chain'[b]) : (Holds(s))' <=> s = Head(chain'[b])
    BY DEF ChainInv
  <2>2. /\ ~(Holds(r))' /\ stage'[r] # "queued"
        /\ \A s \in Rounds : rest # <<>> /\ s = h => (Holds(s))' /\ AccountOf[s] = a
        /\ \A s \in Rounds : s # r /\ (rest # <<>> => s # h) =>
              (Holds(s))' = Holds(s) /\ stage'[s] = stage[s]
    <3>1. ~(Holds(r))' /\ stage'[r] # "queued"
      BY <1>8 DEF Holds, Pending
    <3>2. ASSUME NEW s \in Rounds, rest # <<>>, s = h
          PROVE  (Holds(s))' /\ AccountOf[s] = a
      <4>1. stage'[s] = "starting"
        BY <1>8, <3>2
      <4>. QED
        BY <1>6, <1>7, <3>2, <4>1 DEF Holds, Pending
    <3>3. ASSUME NEW s \in Rounds, s # r, rest # <<>> => s # h
          PROVE  (Holds(s))' = Holds(s) /\ stage'[s] = stage[s]
      BY <1>8, <3>3 DEF Holds
    <3>. QED
      BY <3>1, <3>2, <3>3
  <2>3. CASE b # a
    <3>1. chain'[b] = chain[b] /\ \A s \in Rounds : AccountOf[s] = b => s # r /\ (rest # <<>> => s # h)
      BY <1>1, <1>4, <2>2, <2>3 DEF Inv, TypeOK
    <3>2. \A s \in Members(chain[b]) : s \in Rounds /\ AccountOf[s] = b
      BY DEF Inv, ChainInv
    <3>3. Members(chain'[b]) =
            {s \in Rounds : AccountOf[s] = b /\ ((Holds(s))' \/ stage'[s] = "queued")}
      BY <2>1, <2>2, <3>1 DEF Inv, ChainInv
    <3>4. \A s \in Members(chain'[b]) : (Holds(s))' <=> s = Head(chain'[b])
      BY <2>1, <2>2, <3>1, <3>2 DEF Inv, ChainInv
    <3>. QED
      BY <2>1, <3>1, <3>3, <3>4 DEF Inv, ChainInv
  <2>4. CASE b = a
    <3>1. chain'[b] = rest
      BY <1>1, <1>4, <2>4 DEF Inv, TypeOK
    <3>2. Members(rest) =
            {s \in Rounds : AccountOf[s] = a /\ ((Holds(s))' \/ stage'[s] = "queued")}
      <4>1. Members(chain[a]) = {s \in Rounds : AccountOf[s] = a /\ (Holds(s) \/ stage[s] = "queued")}
        BY <1>4 DEF Inv, ChainInv
      <4>2. rest = <<>> => Members(rest) = {}
        BY <1>5, HeadMember
      <4>3. ASSUME NEW s \in Rounds, AccountOf[s] = a
            PROVE  s \in Members(rest) <=> (Holds(s))' \/ stage'[s] = "queued"
        <5>1. CASE s = r
          BY <1>5, <2>2, <5>1
        <5>2. CASE rest # <<>> /\ s = h
          BY <1>7, <2>2, <5>2
        <5>3. CASE s # r /\ (rest # <<>> => s # h)
          BY <1>5, <2>2, <4>1, <4>3, <5>3
        <5>. QED
          BY <5>1, <5>2, <5>3
      <4>. QED
        BY <1>6, <4>3
    <3>3. ASSUME NEW s \in Members(rest)
          PROVE  (Holds(s))' <=> s = h
      <4>1. rest # <<>> /\ s \in Rounds /\ s # r /\ ~Holds(s)
        BY <1>5, <1>6, <3>3, HeadMember
      <4>. QED
        BY <2>2, <4>1
    <3>. QED
      BY <1>5, <2>4, <3>1, <3>2, <3>3 DEF h
  <2>. QED
    BY <2>3, <2>4
<1>15. SlotInv'
  BY <1>1, <1>10 DEF Inv, SlotInv, ConnectionBound, NoIdleSlot
<1>16. BlameInv'
  <2>1. \A s \in Rounds : stage'[s] \in {"unlocking", "done"} <=> stage[s] \in {"unlocking", "done"}
    BY <1>1, <1>8
  <2>. QED
    BY <1>1, <2>1 DEF BlameInv, Inv
<1>. QED
  BY <1>11, <1>12, <1>13, <1>14, <1>15, <1>16 DEF Inv

-----------------------------------------------------------------------------
(* The theorems                                                            *)

LEMMA InitInv == Init => Inv
<1>. SUFFICES ASSUME Init PROVE Inv
  OBVIOUS
<1>1. TypeOK
  <2>1. \A S : <<>> \in Seq(S)
    OBVIOUS
  <2>. QED
    BY <2>1 DEF Init, TypeOK, Stages
<1>2. Woken = {} /\ Connected = {} /\ Cardinality({}) = 0
  BY SlotSets DEF Init, Woken, Connected
<1>3. MicroInv
  BY <1>2, ShortMembers DEF Init, MicroInv, Pending
<1>4. WaitingInv
  BY ShortMembers DEF Init, WaitingInv
<1>5. ChainInv
  BY ShortMembers DEF Init, ChainInv, Holds, Pending
<1>6. SlotInv
  BY <1>2, BoundsAssumption DEF Init, SlotInv, ConnectionBound, NoIdleSlot
<1>7. BlameInv
  BY DEF Init, BlameInv
<1>. QED
  BY <1>1, <1>3, <1>4, <1>5, <1>6, <1>7 DEF Inv

LEMMA NextInv == Inv /\ [Next]_vars => Inv'
<1>. SUFFICES ASSUME Inv, [Next]_vars PROVE Inv'
  OBVIOUS
<1>1. CASE UNCHANGED <<stage, tries, chain, active, waiting, micro, result, failures>> /\ stopping' \in BOOLEAN
  BY <1>1 DEF Inv, TypeOK, MicroInv, WaitingInv, ChainInv, SlotInv, BlameInv, ConnectionBound,
     NoIdleSlot, Woken, Connected, Holds
<1>2. ASSUME NEW r \in Rounds, RunRound(r) PROVE Inv'
  BY <1>2, EnqueueInv DEF RunRound
<1>3. ASSUME NEW r \in Rounds, TryRunRound(r) PROVE Inv'
  BY <1>3, EnqueueInv, SkipInv DEF TryRunRound
<1>4. ASSUME NEW r \in Rounds, Start(r) PROVE Inv'
  BY <1>4, AcquireInv DEF Start
<1>5. ASSUME NEW r \in Rounds, AnAttemptEnds(r) PROVE Inv'
  BY <1>5, AttemptEndsInv DEF AnAttemptEnds
<1>6. CASE Stop \/ UNCHANGED vars
  BY <1>1, <1>6 DEF Stop, vars, Inv, TypeOK
<1>7. CASE \E r \in Rounds : Request(r) \/ Microtask(r) \/ AnAttemptEnds(r) \/ BackoffEnds(r)
  BY <1>2, <1>3, <1>4, <1>5, <1>7, ResumeInv, SettleInv, RetryInv, UnlockInv, BackoffEndsInv
  DEF Request, Microtask
<1>. QED
  BY <1>6, <1>7 DEF Next

LEMMA Invariance == Spec => []Inv
BY InitInv, NextInv, PTL DEF Spec

\* The state of runner.ts and concurrency.ts keeps its types; the counter of
\* the semaphore is never negative.
THEOREM PoolTypes == Spec => []TypeOK
<1>1. Inv => TypeOK
  BY DEF Inv
<1>. QED
  BY <1>1, Invariance, PTL

\* However many accounts there are, no more than Limit IMAP connections are
\* open at once, counting the slot a woken waiter has not taken yet.
THEOREM PoolConnectionBound == Spec => []ConnectionBound
<1>1. Inv => ConnectionBound
  BY DEF Inv, SlotInv
<1>. QED
  BY <1>1, Invariance, PTL

\* No round waits for the pool while the pool has a free slot.
THEOREM PoolNoIdleSlot == Spec => []NoIdleSlot
<1>1. Inv => NoIdleSlot
  BY DEF Inv, SlotInv
<1>. QED
  BY <1>1, Invariance, PTL

\* Two rounds of one account are never both past its lock.
THEOREM PoolOneRoundPerAccount == Spec => []OneRoundPerAccount
<1>1. Inv => OneRoundPerAccount
  <2>1. SUFFICES ASSUME Inv, NEW r \in Rounds, NEW s \in Rounds,
                        AccountOf[r] = AccountOf[s], Holds(r), Holds(s)
                 PROVE  r = s
    BY DEF OneRoundPerAccount
  <2>2. AccountOf[r] \in Accounts
    BY RoundsAssumption
  <2>3. r = Head(chain[AccountOf[r]]) /\ s = Head(chain[AccountOf[r]])
    BY <2>1, <2>2 DEF Inv, ChainInv
  <2>. QED
    BY <2>3
<1>. QED
  BY <1>1, Invariance, PTL

\* A failure is written to the account at most once per round, and only when
\* the round is over.
THEOREM PoolFailureOnlyAtRoundEnd == Spec => []FailureOnlyAtRoundEnd
<1>1. Inv => FailureOnlyAtRoundEnd
  BY DEF Inv, BlameInv, FailureOnlyAtRoundEnd
<1>. QED
  BY <1>1, Invariance, PTL

\* The pool's queue keeps the interactive rounds ahead of the others, whichever
\* end it grows at and however often it is served.
LEMMA QueueStep ==
    ASSUME waiting \in Seq(Rounds), InteractiveFirst,
           \/ waiting' = waiting
           \/ waiting # <<>> /\ waiting' = Tail(waiting)
           \/ \E r \in Interactive : waiting' = <<r>> \o waiting
           \/ \E r \in Rounds \ Interactive : waiting' = Append(waiting, r)
    PROVE  InteractiveFirst'
<1>1. /\ waiting' \in Seq(Rounds)
      /\ Ahead(Interactive, waiting) => Ahead(Interactive, waiting')
  <2>1. waiting # <<>> =>
          /\ Tail(waiting) \in Seq(Rounds)
          /\ Ahead(Interactive, waiting) => Ahead(Interactive, Tail(waiting))
    BY TailMembers, TailAhead
  <2>2. ASSUME NEW r \in Interactive
        PROVE  /\ <<r>> \o waiting \in Seq(Rounds)
               /\ Ahead(Interactive, waiting) => Ahead(Interactive, <<r>> \o waiting)
    <3>1. r \in Rounds
      BY RoundsAssumption
    <3>. QED
      BY <3>1, PushMembers, PushAhead
  <2>3. ASSUME NEW r \in Rounds \ Interactive
        PROVE  /\ Append(waiting, r) \in Seq(Rounds)
               /\ Ahead(Interactive, waiting) => Ahead(Interactive, Append(waiting, r))
    BY AppendMembers, AppendAhead
  <2>. QED
    BY <2>1, <2>2, <2>3
<1>2. ASSUME NEW q \in Seq(Rounds)
      PROVE  DOMAIN q = 1 .. Len(q)
  OBVIOUS
<1>3. /\ InteractiveFirst <=> Ahead(Interactive, waiting)
      /\ InteractiveFirst' <=> Ahead(Interactive, waiting')
  BY <1>1, <1>2 DEF InteractiveFirst, Ahead
<1>. QED
  BY <1>1, <1>3

\* The round a user is looking at never waits for the pool behind one that
\* nobody is waiting for.
THEOREM PoolInteractiveFirst == Spec => []InteractiveFirst
<1>1. Init => InteractiveFirst
  BY DEF Init, InteractiveFirst
<1>2. Inv /\ InteractiveFirst /\ [Next]_vars => InteractiveFirst'
  <2>1. SUFFICES ASSUME Inv, InteractiveFirst, [Next]_vars PROVE InteractiveFirst'
    OBVIOUS
  <2>2. waiting \in Seq(Rounds)
    BY <2>1 DEF Inv, TypeOK
  <2>3. CASE waiting' = waiting
    BY <2>1, <2>2, <2>3, QueueStep
  <2>4. ASSUME NEW r \in Rounds, Acquire(r) PROVE InteractiveFirst'
    BY <2>1, <2>2, <2>4, QueueStep DEF Acquire
  <2>5. ASSUME NEW r \in Rounds, Release(r) PROVE InteractiveFirst'
    BY <2>1, <2>2, <2>5, QueueStep DEF Release
  <2>6. CASE Stop \/ UNCHANGED vars
    BY <2>3, <2>6 DEF Stop, vars
  <2>7. ASSUME NEW r \in Rounds, Request(r) \/ Microtask(r) \/ AnAttemptEnds(r) \/ BackoffEnds(r)
        PROVE  InteractiveFirst'
    BY <2>3, <2>4, <2>5, <2>7
    DEF Request, RunRound, TryRunRound, Microtask, Start, Resume, Settle, Retry, Unlock,
        AnAttemptEnds, AttemptEnds, BackoffEnds
  <2>. QED
    BY <2>1, <2>6, <2>7 DEF Next
<1>. QED
  BY <1>1, <1>2, Invariance, PTL DEF Spec

-----------------------------------------------------------------------------
(* The refinement                                                          *)

\* What SyncGate sees of a stage, and of the whole state.
PhaseAt(x) ==
    CASE x \in {"idle", "skipped"} -> x
      [] x = "queued" -> "asked"
      [] x = "done" -> "over"
      [] OTHER -> "owner"

View == [r \in Rounds |-> PhaseOf(r)]

\* SyncGate's phases, one stage at a time.
LEMMA PhaseFacts ==
    /\ PhaseAt("idle") = "idle" /\ PhaseAt("skipped") = "skipped"
    /\ PhaseAt("queued") = "asked" /\ PhaseAt("done") = "over"
    /\ \A x \in {"waiting", "attempt", "backoff"} \union Pending : PhaseAt(x) = "owner"
    /\ \A x \in Stages :
         /\ PhaseAt(x) = "asked" <=> x = "queued"
         /\ PhaseAt(x) = "owner" <=> x \in {"waiting", "attempt", "backoff"} \union Pending
BY DEF PhaseAt, Pending, Stages

LEMMA ViewFacts ==
    /\ View = [r \in Rounds |-> PhaseAt(stage[r])]
    /\ View' = [r \in Rounds |-> PhaseAt(stage'[r])]
BY DEF View, PhaseOf, PhaseAt

\* A round is seen waiting for its account when it is queued and owning it
\* when it is past the lock.
LEMMA ViewStages ==
    ASSUME Inv, NEW r \in Rounds
    PROVE  /\ View[r] = PhaseAt(stage[r])
           /\ View[r] = "asked" <=> stage[r] = "queued"
           /\ View[r] = "owner" <=> Holds(r)
BY ViewFacts, PhaseFacts DEF Inv, TypeOK, Holds

\* A step among the stages of an owner that opens and closes no connection and
\* writes no failure is invisible.
LEMMA Invisible ==
    ASSUME \A r \in Rounds : stage'[r] = stage[r] \/ PhaseAt(stage'[r]) = PhaseAt(stage[r]),
           Connected' = Connected, failures' = failures
    PROVE  UNCHANGED <<View, Connected, failures>>
BY ViewFacts

\* A request: Ask.
LEMMA AskStep ==
    ASSUME Inv, NEW r \in Rounds, Request(r)
    PROVE  Gate!GateNext
<1>. DEFINE a == AccountOf[r]
<1>1. stage[r] = "idle" /\ View[r] = "idle" /\ a \in Accounts /\ failures' = failures
  BY ViewStages, PhaseFacts, RoundsAssumption DEF Request, RunRound, TryRunRound
<1>2. Locked(a) <=> Gate!Busy(r)
  <2>1. Locked(a) <=> \E s \in Rounds : AccountOf[s] = a /\ (Holds(s) \/ stage[s] = "queued")
    <3>1. chain[a] \in Seq(Rounds)
      BY <1>1 DEF Inv, TypeOK
    <3>2. chain[a] = <<>> <=> Members(chain[a]) = {}
      BY <3>1, HeadMember
    <3>3. Members(chain[a]) = {s \in Rounds : AccountOf[s] = a /\ (Holds(s) \/ stage[s] = "queued")}
      BY <1>1 DEF Inv, ChainInv
    <3>. QED
      BY <3>2, <3>3 DEF Locked
  <2>2. ~Holds(r) /\ stage[r] # "queued"
    BY <1>1 DEF Holds, Pending
  <2>. QED
    BY <2>1, <2>2, ViewStages DEF Gate!Busy, Gate!SameAccount, View
<1>3. stage' = [stage EXCEPT ![r] = IF ~Locked(a) THEN "starting"
                                   ELSE IF r \in Background THEN "skipped" ELSE "queued"]
  BY DEF Request, RunRound, TryRunRound, Enqueue
<1>4. stage \in [Rounds -> Stages]
  BY DEF Inv, TypeOK
<1>5. Connected' = Connected
  BY <1>1, <1>3, <1>4 DEF Connected
<1>6. PhaseAt(stage'[r]) = IF ~Locked(a) THEN "owner" ELSE IF r \in Background THEN "skipped" ELSE "asked"
  BY <1>3, <1>4, PhaseFacts DEF Pending
<1>7. \A s \in Rounds \ {r} : stage'[s] = stage[s]
  BY <1>3, <1>4
<1>8. View' = [View EXCEPT ![r] = IF ~Locked(a) THEN "owner"
                                  ELSE IF r \in Background THEN "skipped" ELSE "asked"]
  BY <1>6, <1>7, ViewFacts
<1>9. Gate!Ask(r)
  BY <1>1, <1>2, <1>5, <1>8 DEF Gate!Ask, View
<1>. QED
  BY <1>9 DEF Gate!GateNext, Gate!Ask

\* A slot is taken: Connect.
LEMMA ConnectStep ==
    ASSUME Inv, NEW r \in Rounds, stage[r] \in Pending \ {"unlocking"},
           stage' = [stage EXCEPT ![r] = "attempt"], failures' = failures, active < Limit
    PROVE  Gate!GateNext
<1>1. View[r] = "owner" /\ r \notin Connected
  BY ViewStages DEF Holds, Connected, Pending
<1>2. failures[r] = 0
  BY DEF Inv, BlameInv, Pending
<1>3. Gate!Cardinality(Connected) < Limit
  <2>1. Gate!Cardinality(Connected) = Cardinality(Connected)
    BY DEF Gate!Cardinality, Cardinality
  <2>. QED
    BY <2>1 DEF Inv, SlotInv, ConnectionBound
<1>4. Connected' = Connected \union {r}
  BY DEF Connected, Inv, TypeOK
<1>5. View' = View
  BY ViewFacts, PhaseFacts DEF Inv, TypeOK
<1>6. Gate!Connect(r)
  BY <1>1, <1>2, <1>3, <1>4, <1>5 DEF Gate!Connect, View
<1>. QED
  BY <1>6 DEF Gate!GateNext, Gate!Connect

\* An attempt ends: Disconnect.
LEMMA DisconnectStep ==
    ASSUME Inv, NEW r \in Rounds, AnAttemptEnds(r)
    PROVE  Gate!GateNext
<1>. DEFINE w == Head(waiting)
<1>1. /\ stage[r] = "attempt" /\ failures' = failures
      /\ \/ stage' = [stage EXCEPT ![r] = "settling"]
         \/ waiting # <<>> /\ stage' = [stage EXCEPT ![r] = "settling", ![w] = "woken"]
  BY DEF AnAttemptEnds, AttemptEnds, Release
<1>2. waiting # <<>> => w \in Rounds /\ stage[w] = "waiting"
  BY HeadMember DEF Inv, TypeOK, WaitingInv
<1>3. \A s \in Rounds : PhaseAt(stage'[s]) = PhaseAt(stage[s])
  <2>1. ASSUME NEW s \in Rounds
        PROVE  \/ stage'[s] = stage[s]
               \/ stage[s] = "attempt" /\ stage'[s] = "settling"
               \/ stage[s] = "waiting" /\ stage'[s] = "woken"
    BY <1>1, <1>2 DEF Inv, TypeOK
  <2>. QED
    BY <2>1, PhaseFacts DEF Pending
<1>4. View' = View
  BY <1>3, ViewFacts
<1>5. r \in Connected /\ Connected' = Connected \ {r}
  BY <1>1, <1>2 DEF Connected, Inv, TypeOK
<1>6. Gate!Disconnect(r)
  BY <1>1, <1>4, <1>5 DEF Gate!Disconnect, View
<1>. QED
  BY <1>6 DEF Gate!GateNext, Gate!Disconnect

\* The end of a round: Blame, or nothing to see.
LEMMA FinishStep ==
    ASSUME Inv, NEW r \in Rounds, stage[r] \in {"settling", "retrying"}, Finish(r)
    PROVE  Gate!GateNext \/ UNCHANGED <<View, Connected, failures>>
<1>1. /\ View[r] = "owner" /\ r \notin Connected /\ failures[r] = 0
      /\ failures \in [Rounds -> Nat]
  BY ViewStages DEF Holds, Connected, Pending, Inv, TypeOK, BlameInv
<1>2. stage' = [stage EXCEPT ![r] = "unlocking"] /\ stage \in [Rounds -> Stages]
  BY DEF Finish, Inv, TypeOK
<1>3. Connected' = Connected
  BY <1>2 DEF Connected
<1>4. View' = View
  BY <1>2, ViewFacts, PhaseFacts DEF Pending
<1>5. \/ failures' = failures
      \/ failures' = [failures EXCEPT ![r] = 1]
  BY <1>1 DEF Finish
<1>6. Gate!Blame(r) \/ UNCHANGED <<View, Connected, failures>>
  BY <1>1, <1>3, <1>4, <1>5 DEF Gate!Blame, View
<1>. QED
  BY <1>6 DEF Gate!GateNext, Gate!Blame

\* A round that is next asks the pool: Connect, or nothing to see.
LEMMA AcquireStep ==
    ASSUME Inv, NEW r \in Rounds, stage[r] \in {"starting", "retrying"}, Acquire(r),
           failures' = failures
    PROVE  Gate!GateNext \/ UNCHANGED <<View, Connected, failures>>
<1>1. CASE active < Limit
  BY <1>1, ConnectStep DEF Acquire, Pending
<1>2. CASE ~(active < Limit)
  <2>1. stage' = [stage EXCEPT ![r] = "waiting"] /\ stage \in [Rounds -> Stages]
    BY <1>2 DEF Acquire, Inv, TypeOK
  <2>2. Connected' = Connected
    BY <2>1 DEF Connected
  <2>3. View' = View
    BY <2>1, ViewFacts, PhaseFacts DEF Pending
  <2>. QED
    BY <2>2, <2>3
<1>. QED
  BY <1>1, <1>2

\* A woken waiter takes its slot: Connect.
LEMMA ResumeStep ==
    ASSUME Inv, NEW r \in Rounds, Resume(r)
    PROVE  Gate!GateNext
<1>1. active < Limit
  <2>1. micro # <<>> /\ Head(micro) = r /\ stage[r] = "woken"
    BY DEF Resume
  <2>2. Woken = {r}
    BY <2>1, WokenIsNext
  <2>3. Cardinality(Woken) = 1
    BY <2>2, SlotSets
  <2>. QED
    BY <2>3, BoundsAssumption DEF Inv, TypeOK, SlotInv, ConnectionBound
<1>. QED
  BY <1>1, ConnectStep DEF Resume, Pending

\* A round leaves its account: Leave.
LEMMA LeaveStep ==
    ASSUME Inv, NEW r \in Rounds, Unlock(r)
    PROVE  Gate!GateNext
<1>. DEFINE a == AccountOf[r]
            rest == Tail(chain[a])
            h == Head(rest)
            heirs == {s \in Gate!SameAccount(r) : View[s] = "asked"}
<1>1. /\ stage[r] = "unlocking" /\ failures' = failures /\ stage \in [Rounds -> Stages]
      /\ \/ rest = <<>> /\ stage' = [stage EXCEPT ![r] = "done"]
         \/ rest # <<>> /\ stage' = [stage EXCEPT ![r] = "done", ![h] = "starting"]
  BY DEF Unlock, Inv, TypeOK
<1>2. View[r] = "owner" /\ r \notin Connected
  BY <1>1, ViewStages DEF Holds, Connected, Pending
<1>3. heirs = Members(rest) /\ rest \in Seq(Rounds)
  <2>1. a \in Accounts /\ Holds(r)
    BY <1>1, RoundsAssumption DEF Holds, Pending
  <2>2. /\ chain[a] \in Seq(Rounds) /\ Distinct(chain[a])
        /\ r \in Members(chain[a]) /\ r = Head(chain[a])
        /\ \A s \in Members(chain[a]) : s # r => stage[s] = "queued"
        /\ Members(chain[a]) = {s \in Rounds : AccountOf[s] = a /\ (Holds(s) \/ stage[s] = "queued")}
    BY <2>1 DEF Inv, TypeOK, ChainInv
  <2>3. chain[a] # <<>>
    BY <2>2, ShortMembers
  <2>4. Members(rest) = Members(chain[a]) \ {r} /\ rest \in Seq(Rounds)
    BY <2>2, <2>3, TailMembers
  <2>5. Members(rest) = {s \in Rounds \ {r} : AccountOf[s] = a /\ stage[s] = "queued"}
    BY <2>2, <2>4
  <2>6. heirs = {s \in Rounds \ {r} : AccountOf[s] = a /\ stage[s] = "queued"}
    BY ViewStages DEF Gate!SameAccount
  <2>. QED
    BY <2>4, <2>5, <2>6
<1>4. Connected' = Connected
  <2>1. rest # <<>> => h \in Rounds /\ stage[h] = "queued"
    BY <1>3, HeadMember, ViewStages DEF Gate!SameAccount
  <2>. QED
    BY <1>1, <2>1 DEF Connected
<1>5. ASSUME rest = <<>> PROVE Gate!Leave(r)
  <2>1. View' = [View EXCEPT ![r] = "over"]
    BY <1>1, <1>5, ViewFacts, PhaseFacts
  <2>2. heirs = {}
    BY <1>3, <1>5, ShortMembers
  <2>. QED
    BY <1>1, <1>2, <1>4, <2>1, <2>2 DEF Gate!Leave, View
<1>6. ASSUME rest # <<>> PROVE Gate!Leave(r)
  <2>1. h \in heirs /\ h \in Rounds /\ h # r
    BY <1>3, <1>6, HeadMember DEF Gate!SameAccount
  <2>2. View' = [View EXCEPT ![r] = "over", ![h] = "owner"]
    BY <1>1, <1>6, <2>1, ViewFacts, PhaseFacts DEF Pending
  <2>. HIDE DEF h
  <2>. QED
    BY <1>1, <1>2, <1>4, <2>1, <2>2 DEF Gate!Leave, View
<1>7. Gate!Leave(r)
  BY <1>5, <1>6
<1>. QED
  BY <1>7 DEF Gate!GateNext, Gate!Leave

\* The steps that SyncGate does not see.
LEMMA QuietStep ==
    ASSUME Inv,
           \/ Stop
           \/ \E r \in Rounds : BackoffEnds(r)
           \/ \E r \in Rounds : Settle(r) /\ ~Finish(r)
           \/ UNCHANGED vars
    PROVE  UNCHANGED <<View, Connected, failures>>
<1>1. CASE Stop \/ UNCHANGED vars
  BY <1>1 DEF Stop, vars, View, PhaseOf, Connected
<1>2. ASSUME NEW r \in Rounds, BackoffEnds(r) \/ (Settle(r) /\ ~Finish(r))
      PROVE  UNCHANGED <<View, Connected, failures>>
  <2>1. /\ stage \in [Rounds -> Stages] /\ failures' = failures
        /\ stage[r] \in {"backoff", "settling"}
        /\ \/ stage' = [stage EXCEPT ![r] = "retrying"]
           \/ stage' = [stage EXCEPT ![r] = "backoff"]
    BY <1>2 DEF BackoffEnds, Settle, Inv, TypeOK
  <2>2. Connected' = Connected
    BY <2>1 DEF Connected
  <2>3. \A s \in Rounds : stage'[s] = stage[s] \/ PhaseAt(stage'[s]) = PhaseAt(stage[s])
    BY <2>1, PhaseFacts DEF Pending
  <2>. QED
    BY <2>1, <2>2, <2>3, Invisible
<1>. QED
  BY <1>1, <1>2

\* Whatever the queue, the lock and the semaphore do, the rounds are gated:
\* the execution layer implements SyncGate.
THEOREM PoolImplementsGate == Spec => ImplementsGate
<1>1. Init => Gate!GateInit
  BY DEF Init, Gate!GateInit, PhaseOf, Connected
<1>2. Inv /\ [Next]_vars => [Gate!GateNext]_<<View, Connected, failures>>
  <2>1. SUFFICES ASSUME Inv, [Next]_vars
        PROVE  Gate!GateNext \/ UNCHANGED <<View, Connected, failures>>
    OBVIOUS
  <2>2. ASSUME NEW r \in Rounds, Microtask(r)
        PROVE  Gate!GateNext \/ UNCHANGED <<View, Connected, failures>>
    <3>1. CASE Start(r)
      BY <2>1, <3>1, AcquireStep DEF Start
    <3>2. CASE Resume(r)
      BY <2>1, <3>2, ResumeStep
    <3>3. CASE Settle(r)
      <4>1. stage[r] = "settling"
        BY <3>3 DEF Settle
      <4>. QED
        BY <2>1, <3>3, <4>1, FinishStep, QuietStep
    <3>4. CASE Retry(r)
      BY <2>1, <3>4, AcquireStep, FinishStep DEF Retry
    <3>5. CASE Unlock(r)
      BY <2>1, <3>5, LeaveStep
    <3>. QED
      BY <2>2, <3>1, <3>2, <3>3, <3>4, <3>5 DEF Microtask
  <2>3. ASSUME NEW r \in Rounds, Request(r) \/ AnAttemptEnds(r)
        PROVE  Gate!GateNext
    BY <2>1, <2>3, AskStep, DisconnectStep
  <2>. QED
    BY <2>1, <2>2, <2>3, QuietStep DEF Next
<1>3. Inv /\ [Next]_vars => [Gate!GateNext]_(Gate!gateVars)
  BY <1>2 DEF View, Gate!gateVars
<1>. QED
  BY <1>1, <1>3, Invariance, PTL DEF Spec, ImplementsGate, Gate!GateSpec
=============================================================================
