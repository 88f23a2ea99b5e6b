---------------------------- MODULE SequenceSets ----------------------------
(***************************************************************************)
(* Queues as the proofs see them: the set of the members of a sequence,    *)
(* whether they are distinct, and whether some of them come first.         *)
(***************************************************************************)
EXTENDS Naturals, Sequences

Members(s) == {s[i] : i \in 1 .. Len(s)}

Distinct(s) == \A i, j \in 1 .. Len(s) : s[i] = s[j] => i = j

\* Every member of P comes before every other element.
Ahead(P, s) == \A i, j \in 1 .. Len(s) : i < j /\ s[j] \in P => s[i] \in P
=============================================================================
