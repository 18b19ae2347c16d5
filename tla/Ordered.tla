------------------------------- MODULE Ordered -------------------------------
(***************************************************************************)
(* Sequences by the ranks of what is in them, for TextFill and TableExpand. *)
(***************************************************************************)
EXTENDS Integers, Sequences, FiniteSets

IsIndexed(s) == Len(s) \in Nat /\ s = [n \in 1 .. Len(s) |-> s[n]]

\* The members of a family as a sequence, each at its rank in the family.
Ranked(cell, rank) ==
  [n \in 1 .. Cardinality(DOMAIN cell) |-> cell[CHOOSE p \in DOMAIN cell : rank[p] = n]]

\* The numbers of a set, the least first.
Ascending(S) == Ranked([n \in S |-> n], [n \in S |-> Cardinality({m \in S : m <= n})])
=============================================================================
