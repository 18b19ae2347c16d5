------------------------------ MODULE AnchorLog ------------------------------
(***************************************************************************)
(* The format of the anchor log and of the settlement ledger: one entry per *)
(* line, each with its number and the digest of the line before it, and the *)
(* Merkle root over the digests of all lines (anchor_log.rs, settle.rs).    *)
(*                                                                          *)
(* A digest identifies what it was computed from, so the digest of a line   *)
(* is the line itself and that of two digests is their pair.  A log is the  *)
(* sequence of the file's lines.                                           *)
(***************************************************************************)
EXTENDS Integers, Sequences

CONSTANT Null

\* A line that does not parse is one without a number.
Torn == [seq |-> -1, sha |-> Null, verdict |-> Null, by |-> 0, prev |-> Null]

NoLines == <<>>

\* prevEntryHash of the line that follows the lines of log.
LastLine(log) == IF log = NoLines THEN Null ELSE log[Len(log)]

\* Only the line before is compared, never the whole log.
Loads(text) == \A i \in 1 .. Len(text) :
  /\ text[i].seq = i - 1
  /\ text[i].prev = IF i = 1 THEN Null ELSE text[i - 1]

\* by stands for what tells two lines of one capsule apart: the claim's digest
\* and the time.
NewLine(log, sha, verdict, by) ==
  [seq |-> Len(log), sha |-> sha, verdict |-> verdict, by |-> by,
   prev |-> LastLine(log)]

FindAccepted(log, sha) ==
  {i \in 1 .. Len(log) : log[i].sha = sha /\ log[i].verdict = "accepted"}
-----------------------------------------------------------------------------
(* The Merkle tree.  A level of odd length pairs its last node with itself. *)

Sibling(level, i) ==
  IF i % 2 = 0 THEN level[i - 1]
  ELSE IF i < Len(level) THEN level[i + 1]
  ELSE level[i]

LevelAbove(level) ==
  [k \in 1 .. (Len(level) + 1) \div 2 |->
     <<level[2 * k - 1], Sibling(level, 2 * k - 1)>>]

\* A level of one node is the last: no level above it is ever looked at.
Levels(leaves) ==
  LET level[h \in 0 .. Len(leaves)] ==
        IF h = 0 THEN leaves ELSE LevelAbove(level[h - 1])
  IN level

Height(leaves) ==
  CHOOSE h \in 0 .. Len(leaves) :
    /\ Len(Levels(leaves)[h]) = 1
    /\ \A k \in 0 .. h - 1 : Len(Levels(leaves)[k]) > 1

MerkleRoot(leaves) == Levels(leaves)[Height(leaves)][1]

\* The places of leaf i in the levels, all counted from 1.
Places(i, n) ==
  LET place[h \in 0 .. n] == IF h = 0 THEN i ELSE (place[h - 1] + 1) \div 2
  IN place

\* Mutant: the side of the sibling is that of the level above.
PathSwapped(leaves, i) ==
  LET place == Places(i, Len(leaves))
  IN [h \in 1 .. Height(leaves) |->
        [node |-> Sibling(Levels(leaves)[h - 1], place[h - 1]),
         left |-> place[h] % 2 = 0]]
MerklePath(leaves, i) ==
  LET place == Places(i, Len(leaves))
  IN [h \in 1 .. Height(leaves) |->
        [node |-> Sibling(Levels(leaves)[h - 1], place[h - 1]),
         left |-> place[h - 1] % 2 = 0]]

\* The digests from the leaf up to the root.
Climb(leaf, path) ==
  LET acc[h \in 0 .. Len(path)] ==
        IF h = 0 THEN leaf
        ELSE IF path[h].left THEN <<path[h].node, acc[h - 1]>>
        ELSE <<acc[h - 1], path[h].node>>
  IN acc

MerkleVerify(leaf, path, root) == Climb(leaf, path)[Len(path)] = root
=============================================================================
