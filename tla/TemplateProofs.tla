--------------------------- MODULE TemplateProofs ---------------------------
(***************************************************************************)
(* What filling a template promises, for every layout, table and data.      *)
(***************************************************************************)
EXTENDS TextFill, TableExpand, SequenceTheorems, FiniteSetTheorems, WellFoundedInduction,
        TLAPS

-----------------------------------------------------------------------------
(* Sets of numbers, and families that are laid out by rank.                 *)

LEMMA LeastOf ==
  ASSUME NEW T, T \subseteq Nat, T # {}
  PROVE  \E x \in T : \A y \in T : x <= y
<1>1. \E x \in T : \A y \in T : ~(<<y, x>> \in OpToRel(<, Nat))
  BY NatLessThanWellFounded, WFMin
<1>2. ASSUME NEW x \in T, NEW y \in T, y < x
      PROVE  <<y, x>> \in OpToRel(<, Nat)
  <2> DEFINE pair == <<y, x>>
  <2>1. pair \in Nat \X Nat /\ pair[1] < pair[2]
    BY <1>2
  <2> QED
    BY <2>1, <1>2 DEF OpToRel
<1>3. PICK x \in T : \A y \in T : ~(y < x)
  BY <1>1, <1>2
<1>4. \A y \in T : x <= y
  BY <1>3
<1> QED
  BY <1>4

LEMMA GreatestOf ==
  ASSUME NEW n \in Nat, NEW T, T \subseteq 1 .. n, T # {}
  PROVE  \E x \in T : \A y \in T : y <= x
<1> DEFINE Mirror == {n - y : y \in T}
<1>1. Mirror \subseteq Nat /\ Mirror # {}
  <2>1. PICK y \in T : TRUE
    OBVIOUS
  <2>2. n - y \in Mirror
    BY <2>1
  <2>3. \A x \in T : n - x \in Nat
    OBVIOUS
  <2> QED
    BY <2>2, <2>3
<1>2. PICK m \in Mirror : \A l \in Mirror : m <= l
  BY <1>1, LeastOf
<1>3. PICK x \in T : m = n - x
  BY <1>2
<1>4. \A y \in T : y <= x
  <2>1. ASSUME NEW y \in T PROVE y <= x
    <3>1. n - y \in Mirror
      BY <2>1
    <3>2. n - x <= n - y
      BY <3>1, <1>2, <1>3
    <3> QED
      BY <3>2
  <2> QED
    BY <2>1
<1> QED
  BY <1>4

\* Ranks that tell the members of a family apart reach every place.
Ranks(P, rank) ==
  /\ IsFiniteSet(P)
  /\ rank \in [P -> 1 .. Cardinality(P)]
  /\ \A p, q \in P : rank[p] = rank[q] => p = q

LEMMA RanksOnto ==
  ASSUME NEW P, NEW rank, Ranks(P, rank)
  PROVE  \A n \in 1 .. Cardinality(P) : \E p \in P : rank[p] = n
<1> DEFINE N == Cardinality(P)
<1>1. N \in Nat
  BY FS_CardinalityType DEF Ranks
<1>2. IsFiniteSet(1 .. N) /\ Cardinality(1 .. N) = N
  BY <1>1, FS_Interval
<1>3. rank \in Injection(P, 1 .. N)
  BY DEF Ranks, Injection, IsInjective
<1>4. rank \in Surjection(P, 1 .. N)
  BY <1>2, <1>3, FS_Injection
<1> QED
  BY <1>4 DEF Surjection

LEMMA RankedIs ==
  ASSUME NEW P, NEW cell, DOMAIN cell = P, NEW rank, Ranks(P, rank)
  PROVE  /\ IsIndexed(Ranked(cell, rank))
         /\ Len(Ranked(cell, rank)) = Cardinality(P)
         /\ \A p \in P : /\ rank[p] \in DOMAIN Ranked(cell, rank)
                         /\ Ranked(cell, rank)[rank[p]] = cell[p]
         /\ \A n \in DOMAIN Ranked(cell, rank) : \E p \in P : rank[p] = n
<1> DEFINE N == Cardinality(P)
           R == Ranked(cell, rank)
<1>1. N \in Nat
  BY FS_CardinalityType DEF Ranks
<1>2. R = [n \in 1 .. N |-> cell[CHOOSE p \in P : rank[p] = n]]
  BY DEF Ranked
<1>3. Len(R) = N /\ DOMAIN R = 1 .. N
  <2>1. \A n \in 1 .. N : R[n] \in {R[m] : m \in 1 .. N}
    OBVIOUS
  <2>2. R \in Seq({R[m] : m \in 1 .. N}) /\ DOMAIN R = 1 .. N
    BY <1>1, <1>2
  <2> HIDE DEF R
  <2> QED
    BY <1>1, <2>2
<1>4. ASSUME NEW p \in P
      PROVE  rank[p] \in 1 .. N /\ R[rank[p]] = cell[p]
  <2>1. rank[p] \in 1 .. N
    BY DEF Ranks
  <2>2. (CHOOSE q \in P : rank[q] = rank[p]) = p
    BY DEF Ranks
  <2> QED
    BY <2>1, <2>2, <1>2
<1>5. R = [n \in 1 .. N |-> R[n]]
  <2> DEFINE S == {R[m] : m \in 1 .. N}
  <2>1. R \in [1 .. N -> S]
    BY <1>2
  <2> HIDE DEF S, R
  <2> QED
    BY <2>1
<1> HIDE DEF R
<1>6. IsIndexed(R)
  BY <1>1, <1>3, <1>5 DEF IsIndexed
<1> QED
  BY <1>3, <1>4, <1>6, RanksOnto DEF R

\* A rank counts who comes up to a member: sets that are nested one in another
\* differ in size.
LEMMA OrderRanks ==
  ASSUME NEW P, IsFiniteSet(P), NEW upTo \in [P -> SUBSET P],
         \A p \in P : p \in upTo[p],
         \A p, q \in P : p # q =>
           \/ upTo[p] \subseteq upTo[q] /\ q \notin upTo[p]
           \/ upTo[q] \subseteq upTo[p] /\ p \notin upTo[q]
  PROVE  Ranks(P, [p \in P |-> Cardinality(upTo[p])])
<1> DEFINE rank == [p \in P |-> Cardinality(upTo[p])]
<1>1. ASSUME NEW p \in P
      PROVE  /\ IsFiniteSet(upTo[p])
             /\ Cardinality(upTo[p]) \in 1 .. Cardinality(P)
  <2>1. IsFiniteSet(upTo[p]) /\ Cardinality(upTo[p]) <= Cardinality(P)
    BY FS_Subset
  <2>2. Cardinality(P) \in Nat /\ Cardinality(upTo[p]) \in Nat
    BY <2>1, FS_CardinalityType
  <2>3. Cardinality(upTo[p]) # 0
    BY <2>1, FS_EmptySet
  <2> QED
    BY <2>1, <2>2, <2>3
<1>2. ASSUME NEW p \in P, NEW q \in P, upTo[p] \subseteq upTo[q], q \notin upTo[p]
      PROVE  Cardinality(upTo[p]) # Cardinality(upTo[q])
  <2>1. q \in upTo[q]
    OBVIOUS
  <2> QED
    BY <1>1, <1>2, <2>1, FS_Subset
<1>3. \A p, q \in P : rank[p] = rank[q] => p = q
  <2>1. ASSUME NEW p \in P, NEW q \in P, p # q
        PROVE  Cardinality(upTo[p]) # Cardinality(upTo[q])
    BY <2>1, <1>2
  <2> QED
    BY <2>1
<1>4. rank \in [P -> 1 .. Cardinality(P)]
  BY <1>1
<1> QED
  BY <1>3, <1>4 DEF Ranks

-----------------------------------------------------------------------------
(* Sequences of anything.                                                   *)

Size(s) == Len(s)
Joined(s, u) == s \o u
Cut(s, m, n) == SubSeq(s, m, n)

LEMMA IndexedSeq ==
  ASSUME NEW s, IsIndexed(s)
  PROVE  /\ Len(s) \in Nat
         /\ DOMAIN s = 1 .. Len(s)
         /\ s \in Seq({s[n] : n \in 1 .. Len(s)})
<1> DEFINE m == Len(s)
           S == {s[n] : n \in 1 .. m}
<1>1. m \in Nat /\ s = [n \in 1 .. m |-> s[n]]
  BY DEF IsIndexed
<1> HIDE DEF m
<1>2. s \in [1 .. m -> S]
  <2>1. \A n \in 1 .. m : s[n] \in S
    OBVIOUS
  <2> HIDE DEF S
  <2> QED
    BY <1>1, <2>1
<1> HIDE DEF S
<1>3. s \in Seq(S) /\ DOMAIN s = 1 .. m
  BY <1>1, <1>2
<1> QED
  BY <1>1, <1>3 DEF m, S

LEMMA MakeIndexed ==
  ASSUME NEW m \in Nat, NEW s, s = [n \in 1 .. m |-> s[n]]
  PROVE  IsIndexed(s) /\ Size(s) = m /\ DOMAIN s = 1 .. m
<1> DEFINE S == {s[n] : n \in 1 .. m}
<1>1. \A n \in 1 .. m : s[n] \in S
  OBVIOUS
<1> HIDE DEF S
<1>2. s \in [1 .. m -> S]
  BY <1>1
<1>3. s \in Seq(S) /\ Len(s) = m
  BY <1>2
<1> QED
  BY <1>2, <1>3 DEF IsIndexed, Size

LEMMA InSeq ==
  ASSUME NEW S, NEW s \in Seq(S)
  PROVE  IsIndexed(s)
<1>1. Len(s) \in Nat /\ s \in [1 .. Len(s) -> S]
  BY LenProperties
<1> HIDE DEF Size
<1> QED
  BY <1>1 DEF IsIndexed

LEMMA JoinAt ==
  ASSUME NEW s, IsIndexed(s), NEW u, IsIndexed(u)
  PROVE  /\ IsIndexed(Joined(s, u))
         /\ Size(s) \in Nat /\ Size(u) \in Nat
         /\ Size(Joined(s, u)) = Size(s) + Size(u)
         /\ \A k \in 1 .. Size(s) : Joined(s, u)[k] = s[k]
         /\ \A k \in 1 .. Size(u) : Joined(s, u)[Size(s) + k] = u[k]
<1> DEFINE S == {s[n] : n \in 1 .. Len(s)} \cup {u[n] : n \in 1 .. Len(u)}
           m == Len(s)
           n == Len(u)
<1>1. m \in Nat /\ n \in Nat
  BY IndexedSeq
<1>2. s \in Seq(S) /\ u \in Seq(S)
  <2>1. s \in Seq({s[k] : k \in 1 .. Len(s)}) /\ u \in Seq({u[k] : k \in 1 .. Len(u)})
    BY IndexedSeq
  <2> QED
    BY <2>1, SeqMonotonic
<1> HIDE DEF S
<1>3. /\ s \o u \in Seq(S)
      /\ Len(s \o u) = m + n
      /\ \A k \in 1 .. (m + n) : (s \o u)[k] = IF k <= m THEN s[k] ELSE u[k - m]
  BY <1>2, ConcatProperties
<1>4. IsIndexed(s \o u)
  BY <1>3, InSeq
<1> HIDE DEF m, n
<1>5. \A k \in 1 .. m : (s \o u)[k] = s[k]
  <2>1. \A k \in 1 .. m : k \in 1 .. (m + n) /\ k <= m
    BY <1>1
  <2> QED
    BY <1>3, <2>1
<1>6. ASSUME NEW k \in 1 .. n
      PROVE  (s \o u)[m + k] = u[k]
  <2> DEFINE i == m + k
             w == s \o u
  <2>1. i \in 1 .. (m + n) /\ ~(i <= m) /\ i - m = k
    BY <1>1
  <2> HIDE DEF i, w
  <2>2. w[i] = u[i - m]
    BY <1>3, <2>1 DEF w
  <2> QED
    BY <2>1, <2>2 DEF i, w
<1> QED
  BY <1>1, <1>3, <1>4, <1>5, <1>6 DEF Size, Joined, m, n

LEMMA CutAt ==
  ASSUME NEW s, IsIndexed(s), NEW m \in Nat \ {0}, NEW n \in Nat,
         n <= Size(s), m <= n + 1
  PROVE  /\ IsIndexed(Cut(s, m, n))
         /\ Size(Cut(s, m, n)) = n - m + 1
         /\ \A k \in 1 .. (n - m + 1) : Cut(s, m, n)[k] = s[m + k - 1]
<1> DEFINE L == Len(s)
           S == {s[k] : k \in 1 .. L}
<1>1. L \in Nat /\ n <= L
  BY IndexedSeq DEF Size
<1> HIDE DEF L
<1>2. \A k \in m .. n : s[k] \in S
  <2>1. \A k \in m .. n : k \in 1 .. L
    BY <1>1
  <2> QED
    BY <2>1
<1> HIDE DEF S
<1>3. /\ SubSeq(s, m, n) \in Seq(S)
      /\ Len(SubSeq(s, m, n)) = IF m <= n THEN n - m + 1 ELSE 0
      /\ \A k \in 1 .. (n - m + 1) : SubSeq(s, m, n)[k] = s[m + k - 1]
  BY <1>2, SubSeqProperties
<1>4. Len(SubSeq(s, m, n)) = n - m + 1
  BY <1>3
<1>5. IsIndexed(SubSeq(s, m, n))
  BY <1>3, InSeq
<1> QED
  BY <1>3, <1>4, <1>5 DEF Cut, Size

IsJoin(w, s, u) ==
  /\ IsIndexed(w)
  /\ Size(s) \in Nat /\ Size(u) \in Nat
  /\ Size(w) = Size(s) + Size(u)
  /\ \A k \in 1 .. Size(s) : w[k] = s[k]
  /\ \A k \in 1 .. Size(u) : w[Size(s) + k] = u[k]

LEMMA JoinIs ==
  ASSUME NEW s, IsIndexed(s), NEW u, IsIndexed(u)
  PROVE  IsJoin(Joined(s, u), s, u)
BY JoinAt DEF IsJoin

IsCut(w, s, m, n) ==
  /\ IsIndexed(w)
  /\ Size(w) = n - m + 1
  /\ \A k \in 1 .. (n - m + 1) : w[k] = s[m + k - 1]

LEMMA CutIs ==
  ASSUME NEW s, IsIndexed(s), NEW m \in Nat \ {0}, NEW n \in Nat,
         n <= Size(s), m <= n + 1
  PROVE  IsCut(Cut(s, m, n), s, m, n)
BY CutAt DEF IsCut

LEMMA SameSeq ==
  ASSUME NEW s, IsIndexed(s), NEW u, IsIndexed(u), Size(s) = Size(u),
         \A n \in 1 .. Size(s) : s[n] = u[n]
  PROVE  s = u
BY DEF IsIndexed, Size

-----------------------------------------------------------------------------
(* Totals.                                                                  *)

\* The sums of the first numbers of a sequence.
Sums(f, numbers, n) ==
  /\ f \in [0 .. n -> Int]
  /\ f[0] = 0
  /\ \A j \in 1 .. n : f[j] = f[j - 1] + numbers[j]

LEMMA SumsExist ==
  ASSUME NEW n \in Nat, NEW numbers, \A j \in 1 .. n : numbers[j] \in Int
  PROVE  \E f : Sums(f, numbers, n)
<1> DEFINE Bad == {m \in 0 .. n : ~\E f : Sums(f, numbers, m)}
<1>1. ASSUME Bad # {} PROVE FALSE
  <2>1. Bad \subseteq Nat
    OBVIOUS
  <2>2. PICK m \in Bad : \A l \in Bad : m <= l
    BY <1>1, <2>1, LeastOf
  <2>3. CASE m = 0
    <3>1. Sums([j \in 0 .. 0 |-> 0], numbers, 0)
      BY DEF Sums
    <3> QED
      BY <2>2, <2>3, <3>1
  <2>4. CASE m # 0
    <3>1. m \in 1 .. n /\ m - 1 \in 0 .. n /\ m - 1 \notin Bad
      BY <2>2, <2>4
    <3>2. PICK f : Sums(f, numbers, m - 1)
      BY <3>1
    <3> DEFINE g == [j \in 0 .. m |-> IF j = m THEN f[m - 1] + numbers[m] ELSE f[j]]
    <3>3. Sums(g, numbers, m)
      <4>1. f[m - 1] \in Int /\ numbers[m] \in Int /\ \A j \in 0 .. (m - 1) : f[j] \in Int
        BY <3>1, <3>2 DEF Sums
      <4>2. g \in [0 .. m -> Int]
        BY <3>1, <4>1
      <4>3. g[0] = 0
        BY <3>1, <3>2 DEF Sums
      <4>4. ASSUME NEW j \in 1 .. m
            PROVE  g[j] = g[j - 1] + numbers[j]
        <5>1. CASE j = m
          BY <3>1, <5>1
        <5>2. CASE j # m
          <6>1. j \in 1 .. (m - 1) /\ j - 1 \in 0 .. m /\ j - 1 # m /\ j \in 0 .. m
            BY <3>1, <5>2
          <6>2. f[j] = f[j - 1] + numbers[j]
            BY <3>2, <6>1 DEF Sums
          <6> QED
            BY <5>2, <6>1, <6>2
        <5> QED
          BY <5>1, <5>2
      <4> HIDE DEF g
      <4> QED
        BY <4>2, <4>3, <4>4 DEF Sums
    <3> HIDE DEF g
    <3> QED
      BY <2>2, <3>3
  <2> QED
    BY <2>3, <2>4
<1>2. n \notin Bad
  BY <1>1
<1> QED
  BY <1>2

LEMMA SumsAgree ==
  ASSUME NEW n \in Nat, NEW m \in Nat, NEW f, NEW g, NEW a, NEW b,
         Sums(f, a, n), Sums(g, b, m),
         NEW k \in Nat, k <= n, k <= m, \A j \in 1 .. k : a[j] = b[j]
  PROVE  \A j \in 0 .. k : f[j] = g[j]
<1> DEFINE Bad == {j \in 0 .. k : f[j] # g[j]}
<1>1. ASSUME Bad # {} PROVE FALSE
  <2>1. Bad \subseteq Nat
    OBVIOUS
  <2>2. PICK i \in Bad : \A l \in Bad : i <= l
    BY <1>1, <2>1, LeastOf
  <2>3. i # 0
    BY <2>2 DEF Sums
  <2>4. i \in 1 .. k /\ i \in 1 .. n /\ i \in 1 .. m /\ i - 1 \in 0 .. k /\ i - 1 \notin Bad
    BY <2>2, <2>3
  <2>5. f[i] = f[i - 1] + a[i] /\ g[i] = g[i - 1] + b[i] /\ f[i - 1] = g[i - 1] /\ a[i] = b[i]
    BY <2>4 DEF Sums
  <2> QED
    BY <2>2, <2>5
<1> QED
  BY <1>1

LEMMA TotalIs ==
  ASSUME NEW s, IsIndexed(s), \A j \in 1 .. Size(s) : s[j] \in Int
  PROVE  \E f : Sums(f, s, Size(s)) /\ Total(s) = f[Size(s)]
<1> DEFINE n == Len(s)
           Equation(f) == f = [j \in 0 .. n |-> IF j = 0 THEN 0 ELSE f[j - 1] + s[j]]
           up == CHOOSE f : Equation(f)
<1>1. n \in Nat
  BY IndexedSeq
<1>2. \E f : Sums(f, s, n)
  BY <1>1, SumsExist DEF Size
<1>3. \A f : Sums(f, s, n) => Equation(f)
  <2>1. ASSUME NEW f, Sums(f, s, n) PROVE Equation(f)
    <3>1. \A j \in 0 .. n : f[j] = IF j = 0 THEN 0 ELSE f[j - 1] + s[j]
      <4>1. ASSUME NEW j \in 0 .. n, j # 0 PROVE j \in 1 .. n
        BY <1>1, <4>1
      <4> QED
        BY <2>1, <4>1 DEF Sums
    <3> QED
      BY <2>1, <3>1 DEF Sums
  <2> QED
    BY <2>1
<1>4. Equation(up)
  BY <1>2, <1>3
<1>5. Total(s) = up[n]
  BY DEF Total
<1>6. PICK g : Sums(g, s, n)
  BY <1>2
<1> HIDE DEF up
<1>7. up = g
  <2>1. DOMAIN up = 0 .. n /\ up[0] = 0 /\ \A j \in 1 .. n : up[j] = up[j - 1] + s[j]
    <3>1. \A j \in 0 .. n : up[j] = IF j = 0 THEN 0 ELSE up[j - 1] + s[j]
      BY <1>4
    <3>2. DOMAIN up = 0 .. n
      BY <1>4
    <3>3. 0 \in 0 .. n /\ \A j \in 1 .. n : j \in 0 .. n /\ j # 0
      BY <1>1
    <3> QED
      BY <3>1, <3>2, <3>3
  <2> DEFINE Bad == {j \in 0 .. n : up[j] # g[j]}
  <2>2. ASSUME Bad # {} PROVE FALSE
    <3>1. Bad \subseteq Nat
      OBVIOUS
    <3>2. PICK i \in Bad : \A l \in Bad : i <= l
      BY <2>2, <3>1, LeastOf
    <3>3. i # 0
      BY <1>6, <2>1, <3>2 DEF Sums
    <3>4. i \in 1 .. n /\ i - 1 \in 0 .. n /\ i - 1 \notin Bad
      BY <1>1, <3>2, <3>3
    <3>5. up[i] = up[i - 1] + s[i] /\ g[i] = g[i - 1] + s[i] /\ up[i - 1] = g[i - 1]
      BY <1>6, <2>1, <3>4 DEF Sums
    <3> QED
      BY <3>2, <3>5
  <2>3. \A j \in 0 .. n : up[j] = g[j]
    BY <2>2
  <2>4. g = [j \in 0 .. n |-> g[j]] /\ up = [j \in 0 .. n |-> up[j]]
    BY <1>4, <1>6 DEF Sums
  <2> QED
    BY <2>3, <2>4
<1> QED
  BY <1>5, <1>6, <1>7 DEF Size

-----------------------------------------------------------------------------
(* Widths.                                                                  *)

\* The width of the first glyphs of a text.
WidthTo(s, i) == WidthOf(Cut(s, 1, i))

LEMMA WidthIs == \A g : Width(g) \in Nat \ {0}
BY DEF Width

LEMMA WidthSums ==
  ASSUME NEW s, IsIndexed(s)
  PROVE  \E f : /\ Sums(f, [j \in 1 .. Size(s) |-> Width(s[j])], Size(s))
                /\ \A i \in 0 .. Size(s) : WidthTo(s, i) = f[i]
<1> DEFINE n == Size(s)
           a == [j \in 1 .. n |-> Width(s[j])]
<1>1. n \in Nat
  BY IndexedSeq DEF Size
<1> HIDE DEF n
<1>2. \A j \in 1 .. n : a[j] \in Int /\ a[j] = Width(s[j])
  BY WidthIs
<1> HIDE DEF a
<1>3. PICK f : Sums(f, a, n)
  BY <1>1, <1>2, SumsExist
<1>4. ASSUME NEW i \in 0 .. n
      PROVE  WidthTo(s, i) = f[i]
  <2> DEFINE cut == Cut(s, 1, i)
             b == [j \in DOMAIN cut |-> Width(cut[j])]
  <2>1. IsIndexed(cut) /\ Size(cut) = i /\ \A j \in 1 .. i : cut[j] = s[j]
    <3>1. i \in Nat /\ i <= n /\ 1 \in Nat \ {0} /\ 1 <= i + 1 /\ i - 1 + 1 = i
      BY <1>1
    <3>2. IsIndexed(cut) /\ Size(cut) = i /\ \A j \in 1 .. i : cut[j] = s[1 + j - 1]
      <4>1. /\ IsIndexed(Cut(s, 1, i)) /\ Size(Cut(s, 1, i)) = i - 1 + 1
            /\ \A k \in 1 .. (i - 1 + 1) : Cut(s, 1, i)[k] = s[1 + k - 1]
        BY <3>1, CutAt DEF n
      <4> QED
        BY <3>1, <4>1
    <3>3. \A j \in 1 .. i : 1 + j - 1 = j
      BY <3>1
    <3> QED
      BY <3>2, <3>3
  <2> HIDE DEF cut
  <2>2. DOMAIN cut = 1 .. i
    BY <2>1, IndexedSeq DEF Size
  <2>3. \A j \in 1 .. i : b[j] = a[j] /\ b[j] \in Int
    <3>1. ASSUME NEW j \in 1 .. i PROVE b[j] = a[j] /\ b[j] \in Int
      <4>1. j \in 1 .. n
        BY <1>1
      <4>2. b[j] = Width(s[j])
        BY <2>1, <2>2
      <4> QED
        BY <1>2, <4>1, <4>2
    <3> QED
      BY <3>1
  <2>4. IsIndexed(b) /\ Size(b) = i
    <3>1. b = [j \in 1 .. i |-> b[j]] /\ i \in Nat
      BY <2>2
    <3> HIDE DEF b
    <3> QED
      BY <3>1, MakeIndexed
  <2>5. WidthTo(s, i) = Total(b)
    BY DEF WidthTo, WidthOf, cut
  <2> HIDE DEF b
  <2>6. PICK g : Sums(g, b, i) /\ Total(b) = g[i]
    <3>1. \A j \in 1 .. Size(b) : b[j] \in Int
      BY <2>3, <2>4
    <3> QED
      BY <2>4, <3>1, TotalIs
  <2>7. f[i] = g[i]
    <3>1. i \in Nat /\ i <= n /\ i <= i /\ i \in 0 .. i
      BY <1>1
    <3>2. \A j \in 1 .. i : a[j] = b[j]
      BY <2>3
    <3>3. \A j \in 0 .. i : f[j] = g[j]
      BY <1>1, <1>3, <2>6, <3>1, <3>2, SumsAgree
    <3> QED
      BY <3>1, <3>3
  <2> QED
    BY <2>5, <2>6, <2>7
<1> QED
  BY <1>3, <1>4 DEF a, n

LEMMA WidthSteps ==
  ASSUME NEW s, IsIndexed(s)
  PROVE  /\ Size(s) \in Nat
         /\ WidthTo(s, 0) = 0
         /\ \A i \in 0 .. Size(s) : WidthTo(s, i) \in Int
         /\ \A i \in 1 .. Size(s) : WidthTo(s, i) = WidthTo(s, i - 1) + Width(s[i])
<1> DEFINE n == Size(s)
           a == [j \in 1 .. n |-> Width(s[j])]
<1>1. n \in Nat
  BY IndexedSeq DEF Size
<1>2. PICK f : Sums(f, a, n) /\ \A i \in 0 .. n : WidthTo(s, i) = f[i]
  BY WidthSums
<1> HIDE DEF n
<1>3. \A i \in 1 .. n : a[i] = Width(s[i]) /\ i \in 0 .. n /\ i - 1 \in 0 .. n
  BY <1>1
<1> HIDE DEF a
<1>4. 0 \in 0 .. n
  BY <1>1
<1> QED
  BY <1>1, <1>2, <1>3, <1>4 DEF Sums, n

LEMMA WidthGrows ==
  ASSUME NEW s, IsIndexed(s), NEW i \in 0 .. Size(s), NEW j \in 0 .. Size(s), i <= j
  PROVE  WidthTo(s, i) + (j - i) <= WidthTo(s, j)
<1> DEFINE n == Size(s)
           W(k) == WidthTo(s, k)
           Bad == {k \in i .. n : ~(W(i) + (k - i) <= W(k))}
<1>1. /\ n \in Nat
      /\ \A k \in 0 .. n : W(k) \in Int
      /\ \A k \in 1 .. n : W(k) = W(k - 1) + Width(s[k])
  BY WidthSteps
<1> HIDE DEF n, W
<1>2. ASSUME Bad # {} PROVE FALSE
  <2>1. Bad \subseteq Nat
    BY DEF n
  <2>2. PICK k \in Bad : \A l \in Bad : k <= l
    BY <1>2, <2>1, LeastOf
  <2>3. i \in 0 .. n
    BY DEF n
  <2>4. k # i
    BY <1>1, <2>2, <2>3
  <2>5. k \in 1 .. n /\ k - 1 \in i .. n /\ k - 1 \in 0 .. n /\ k \in 0 .. n /\ k - 1 \notin Bad
    BY <1>1, <2>2, <2>3, <2>4
  <2>6. W(i) + (k - 1 - i) <= W(k - 1)
    BY <2>5
  <2>7. W(k) = W(k - 1) + Width(s[k]) /\ Width(s[k]) \in Nat \ {0}
    BY <1>1, <2>5, WidthIs
  <2>8. W(i) \in Int /\ W(k) \in Int /\ W(k - 1) \in Int
    BY <1>1, <2>3, <2>5
  <2>9. W(i) + (k - i) <= W(k)
    BY <2>3, <2>5, <2>6, <2>7, <2>8
  <2> QED
    BY <2>2, <2>9
<1>3. j \in i .. n
  BY <1>1 DEF n
<1>4. W(i) + (j - i) <= W(j)
  BY <1>2, <1>3
<1> QED
  BY <1>4 DEF W

AreAlike(s, x, u, y, c) == \A i \in 1 .. c : s[x + i] = u[y + i]
AreAsWide(s, x, u, y, c) ==
  WidthTo(s, x + c) - WidthTo(s, x) = WidthTo(u, y + c) - WidthTo(u, y)

\* Equal stretches of two texts are equally wide.
LEMMA WidthAlong ==
  ASSUME NEW s, IsIndexed(s), NEW u, IsIndexed(u),
         NEW x \in Nat, NEW y \in Nat, NEW c \in Nat,
         x + c <= Size(s), y + c <= Size(u),
         AreAlike(s, x, u, y, c)
  PROVE  AreAsWide(s, x, u, y, c)
<1> DEFINE V(k) == WidthTo(s, k)
           W(k) == WidthTo(u, k)
           m == Size(s)
           n == Size(u)
           Bad == {k \in 0 .. c : V(x + k) - V(x) # W(y + k) - W(y)}
<1>1. /\ m \in Nat
      /\ \A k \in 0 .. m : V(k) \in Int
      /\ \A k \in 1 .. m : V(k) = V(k - 1) + Width(s[k])
  BY WidthSteps
<1>2. /\ n \in Nat
      /\ \A k \in 0 .. n : W(k) \in Int
      /\ \A k \in 1 .. n : W(k) = W(k - 1) + Width(u[k])
  BY WidthSteps
<1>3. x + c <= m /\ y + c <= n
  OBVIOUS
<1> HIDE DEF V, W, m, n
<1>4. ASSUME Bad # {} PROVE FALSE
  <2>1. Bad \subseteq Nat
    OBVIOUS
  <2>2. PICK k \in Bad : \A l \in Bad : k <= l
    BY <1>4, <2>1, LeastOf
  <2>3. V(x) \in Int /\ W(y) \in Int
    BY <1>1, <1>2, <1>3
  <2>4. k # 0
    <3>1. x + 0 = x /\ y + 0 = y
      OBVIOUS
    <3> QED
      BY <2>2, <2>3, <3>1
  <2>5. k \in 1 .. c /\ k - 1 \in 0 .. c /\ k - 1 \notin Bad
    BY <2>2, <2>4
  <2>6. V(x + (k - 1)) - V(x) = W(y + (k - 1)) - W(y)
    BY <2>5
  <2> DEFINE a == x + k
             b == y + k
  <2>7. /\ a \in 1 .. m /\ b \in 1 .. n /\ a - 1 = x + (k - 1) /\ b - 1 = y + (k - 1)
        /\ a \in 0 .. m /\ b \in 0 .. n /\ a - 1 \in 0 .. m /\ b - 1 \in 0 .. n
    BY <1>1, <1>2, <1>3, <2>5
  <2>8. s[a] = u[b]
    BY <2>5 DEF AreAlike
  <2> HIDE DEF a, b
  <2>9. /\ V(a) = V(a - 1) + Width(s[a]) /\ W(b) = W(b - 1) + Width(u[b])
        /\ V(a - 1) \in Int /\ W(b - 1) \in Int /\ Width(s[a]) \in Int
    BY <1>1, <1>2, <2>7, WidthIs
  <2>10. V(a - 1) - V(x) = W(b - 1) - W(y)
    BY <2>6, <2>7
  <2>11. V(a) - V(x) = W(b) - W(y)
    BY <2>3, <2>8, <2>9, <2>10
  <2> QED
    BY <2>2, <2>11 DEF a, b
<1>5. c \in 0 .. c /\ c \notin Bad
  <2>1. c \in 0 .. c
    OBVIOUS
  <2> HIDE DEF Bad
  <2> QED
    BY <1>4, <2>1
<1>6. V(x + c) - V(x) = W(y + c) - W(y)
  BY <1>5
<1> QED
  BY <1>6 DEF V, W, AreAsWide

-----------------------------------------------------------------------------
(* Ascending.                                                               *)

UpTo(S, k) == {m \in S : m <= k}

\* A finite set of places.
Places(S) == \E n \in Nat : S \subseteq 1 .. n

LEMMA RanksUpTo ==
  ASSUME NEW S, Places(S)
  PROVE  /\ IsFiniteSet(S)
         /\ Ranks(S, [k \in S |-> Cardinality(UpTo(S, k))])
         /\ \A k, l \in S : Cardinality(UpTo(S, k)) < Cardinality(UpTo(S, l)) => k < l
<1> DEFINE up == [k \in S |-> UpTo(S, k)]
<1>1. IsFiniteSet(S)
  <2>1. PICK n \in Nat : S \subseteq 1 .. n
    BY DEF Places
  <2>2. 1 \in Int /\ n \in Int /\ S \in SUBSET (1 .. n)
    BY <2>1
  <2> HIDE DEF up
  <2> QED
    BY <2>2, FS_Interval, FS_Subset
<1>2. \A k \in S : k \in Int
  BY DEF Places
<1>3. up \in [S -> SUBSET S]
  BY DEF UpTo
<1>4. \A k \in S : up[k] = UpTo(S, k) /\ k \in UpTo(S, k) /\ UpTo(S, k) \subseteq S
  BY <1>2 DEF UpTo
<1> HIDE DEF up
<1>0. ASSUME NEW p \in S, NEW q \in S, p <= q
      PROVE  UpTo(S, p) \subseteq UpTo(S, q)
  <2>1. ASSUME NEW m \in UpTo(S, p) PROVE m \in UpTo(S, q)
    <3>1. m \in S /\ m <= p
      BY <2>1 DEF UpTo
    <3>2. m \in Int /\ p \in Int /\ q \in Int
      BY <1>2, <3>1
    <3>3. m <= q
      BY <1>0, <3>1, <3>2
    <3> QED
      BY <3>1, <3>3 DEF UpTo
  <2> QED
    BY <2>1
<1>5. ASSUME NEW p \in S, NEW q \in S, p < q
      PROVE  UpTo(S, p) \subseteq UpTo(S, q) /\ q \notin UpTo(S, p)
  <2>1. p \in Int /\ q \in Int
    BY <1>2
  <2>2. p <= q /\ ~(q <= p)
    BY <1>5, <2>1
  <2> QED
    BY <1>0, <2>2 DEF UpTo
<1>6. \A p, q \in S : p # q =>
         \/ up[p] \subseteq up[q] /\ q \notin up[p]
         \/ up[q] \subseteq up[p] /\ p \notin up[q]
  <2>1. \A p, q \in S : p # q => p < q \/ q < p
    BY <1>2
  <2> QED
    BY <1>4, <1>5, <2>1
<1>7. Ranks(S, [p \in S |-> Cardinality(up[p])])
  <2>1. \A p \in S : p \in up[p]
    BY <1>4
  <2> QED
    BY <1>1, <1>3, <1>6, <2>1, OrderRanks
<1>8. [k \in S |-> Cardinality(UpTo(S, k))] = [p \in S |-> Cardinality(up[p])]
  BY <1>4
<1>9. ASSUME NEW k \in S, NEW l \in S, Cardinality(UpTo(S, k)) < Cardinality(UpTo(S, l))
      PROVE  k < l
  <2>1. ASSUME l <= k PROVE FALSE
    <3>1. UpTo(S, l) \subseteq UpTo(S, k)
      BY <1>0, <2>1
    <3>2. IsFiniteSet(UpTo(S, k)) /\ IsFiniteSet(UpTo(S, l))
      <4>1. UpTo(S, k) \in SUBSET S /\ UpTo(S, l) \in SUBSET S
        BY <1>4
      <4> QED
        BY <1>1, <4>1, FS_Subset
    <3>3. Cardinality(UpTo(S, l)) <= Cardinality(UpTo(S, k))
      BY <3>1, <3>2, FS_Subset
    <3>4. Cardinality(UpTo(S, l)) \in Nat /\ Cardinality(UpTo(S, k)) \in Nat
      BY <3>2, FS_CardinalityType
    <3> QED
      BY <1>9, <3>3, <3>4
  <2> QED
    BY <1>2, <2>1
<1> QED
  BY <1>1, <1>7, <1>8, <1>9

LEMMA AscendingIs ==
  ASSUME NEW S, Places(S)
  PROVE  /\ IsIndexed(Ascending(S))
         /\ Size(Ascending(S)) \in Nat
         /\ Size(Ascending(S)) = Cardinality(S)
         /\ \A b \in 1 .. Size(Ascending(S)) : Ascending(S)[b] \in S
         /\ \A k \in S : \E b \in 1 .. Size(Ascending(S)) : Ascending(S)[b] = k
         /\ \A k \in S : Ascending(S)[Cardinality(UpTo(S, k))] = k
         /\ \A a, b \in 1 .. Size(Ascending(S)) : a < b => Ascending(S)[a] < Ascending(S)[b]
<1> DEFINE cell == [k \in S |-> k]
           rank == [k \in S |-> Cardinality(UpTo(S, k))]
           A == Ranked(cell, rank)
<1>2. Ranks(S, rank) /\ \A k, l \in S : rank[k] < rank[l] => k < l
  BY RanksUpTo
<1>3. A = Ascending(S)
  BY DEF Ascending, UpTo
<1>6. DOMAIN cell = S /\ \A k \in S : cell[k] = k /\ rank[k] = Cardinality(UpTo(S, k))
  OBVIOUS
<1>7. \A k \in S : rank[k] \in 1 .. Cardinality(S)
  BY <1>2 DEF Ranks
<1> HIDE DEF cell, rank
<1>4. /\ IsIndexed(A) /\ Size(A) = Cardinality(S)
      /\ \A k \in S : rank[k] \in DOMAIN A /\ A[rank[k]] = cell[k]
      /\ \A b \in DOMAIN A : \E k \in S : rank[k] = b
  <2>1. DOMAIN cell = S /\ Ranks(S, rank)
    BY <1>2, <1>6
  <2>2. /\ IsIndexed(Ranked(cell, rank)) /\ Len(Ranked(cell, rank)) = Cardinality(S)
        /\ \A p \in S : /\ rank[p] \in DOMAIN Ranked(cell, rank)
                        /\ Ranked(cell, rank)[rank[p]] = cell[p]
        /\ \A b \in DOMAIN Ranked(cell, rank) : \E p \in S : rank[p] = b
    BY <2>1, RankedIs
  <2> QED
    BY <2>2 DEF Size
<1>5. DOMAIN A = 1 .. Size(A) /\ Size(A) \in Nat
  BY <1>4, IndexedSeq DEF Size
<1> HIDE DEF A
<1>9. \A b \in 1 .. Size(A) : A[b] \in S /\ rank[A[b]] = b
  BY <1>4, <1>5, <1>6
<1>10. \A a, b \in 1 .. Size(A) : a < b => A[a] < A[b]
  BY <1>2, <1>9
<1>11. \A k \in S : \E b \in 1 .. Size(A) : A[b] = k
  BY <1>4, <1>5, <1>6
<1>12. \A k \in S : A[Cardinality(UpTo(S, k))] = k
  BY <1>4, <1>6
<1> QED
  BY <1>3, <1>4, <1>5, <1>9, <1>10, <1>11, <1>12

\* An interval in its own order.
LEMMA AscendingInterval ==
  ASSUME NEW a \in Nat, NEW b \in Nat, a <= b
  PROVE  /\ Size(Ascending((a + 1) .. b)) = b - a
         /\ \A j \in 1 .. (b - a) : Ascending((a + 1) .. b)[j] = a + j
<1> DEFINE S == (a + 1) .. b
           A == Ascending(S)
<1>1. /\ Size(A) = Cardinality(S)
      /\ \A k \in S : A[Cardinality(UpTo(S, k))] = k
  <2>1. Places(S)
    BY DEF Places
  <2> HIDE DEF S
  <2> QED
    BY <2>1, AscendingIs
<1>0. ASSUME NEW k \in Nat, a <= k PROVE Cardinality((a + 1) .. k) = k - a
  <2>1. a + 1 \in Int /\ k \in Int /\ (a + 1 > k => k - a = 0) /\ k - (a + 1) + 1 = k - a
    BY <1>0
  <2>2. Cardinality((a + 1) .. k) = IF a + 1 > k THEN 0 ELSE k - (a + 1) + 1
    BY <2>1, FS_Interval
  <2> QED
    BY <2>1, <2>2
<1>2. Cardinality(S) = b - a
  BY <1>0
<1>3. ASSUME NEW j \in 1 .. (b - a)
      PROVE  A[j] = a + j
  <2> DEFINE k == a + j
  <2>1. k \in S /\ UpTo(S, k) = (a + 1) .. k /\ k \in Nat /\ a <= k /\ k - a = j
    BY DEF UpTo
  <2> HIDE DEF k, A, S
  <2>2. Cardinality((a + 1) .. k) = j
    BY <1>0, <2>1
  <2> QED
    BY <1>1, <2>1, <2>2 DEF k
<1> QED
  BY <1>1, <1>2, <1>3

-----------------------------------------------------------------------------
(* What find_markers finds.                                                 *)

FirstClosing(s, i) == CHOOSE c \in Closings(s, i) : \A d \in Closings(s, i) : c <= d

LEMMA FirstClosingIs ==
  ASSUME NEW s, IsIndexed(s), NEW i \in 1 .. Size(s), Closings(s, i) # {}
  PROVE  FirstClosing(s, i) \in (i + 1) .. Size(s)
<1> DEFINE n == Size(s)
           C == Closings(s, i)
<1>1. n \in Nat /\ DOMAIN s = 1 .. n
  BY IndexedSeq DEF Size
<1>2. \A c \in C : c \in Nat /\ c \in (i + 1) .. n
  <2>1. ASSUME NEW c \in C PROVE c \in Nat /\ c \in (i + 1) .. n
    <3>1. c \in 1 .. n /\ c > i
      BY <1>1 DEF Closings
    <3>2. i \in Nat
      OBVIOUS
    <3> HIDE DEF n, C
    <3> QED
      BY <1>1, <3>1, <3>2
  <2> QED
    BY <2>1
<1> HIDE DEF n, C
<1>3. \E c \in C : \A d \in C : c <= d
  BY <1>2, LeastOf DEF C
<1>4. (CHOOSE c \in C : \A d \in C : c <= d) \in C
  BY <1>3
<1> QED
  BY <1>2, <1>4 DEF FirstClosing, C, n

\* What find_markers does at a place, when f says what it does further on.
Opens(s, i) == s[i] = "{{" /\ Closings(s, i) # {}
FindAt(s, f, i) ==
  IF i > Len(s) THEN << >>
  ELSE IF Opens(s, i)
    THEN Joined(<<[first |-> i, last |-> FirstClosing(s, i)]>>, f[FirstClosing(s, i) + 1])
  ELSE f[i + 1]

Finds(s, f, m) ==
  /\ f = [i \in m .. (Size(s) + 1) |-> f[i]]
  /\ \A i \in m .. (Size(s) + 1) : f[i] = FindAt(s, f, i)

\* At a place, only what is found further on matters.
LEMMA FindAtSame ==
  ASSUME NEW s, IsIndexed(s), NEW i \in 1 .. (Size(s) + 1), NEW f, NEW g,
         \A k \in (i + 1) .. (Size(s) + 1) : f[k] = g[k]
  PROVE  FindAt(s, f, i) = FindAt(s, g, i)
<1> DEFINE n == Size(s)
<1>1. n \in Nat /\ Len(s) = n /\ i \in 1 .. (n + 1)
  BY IndexedSeq DEF Size
<1>2. CASE i > n
  BY <1>1, <1>2 DEF FindAt
<1>3. CASE i <= n /\ Opens(s, i)
  <2> DEFINE c == FirstClosing(s, i) + 1
  <2>1. FirstClosing(s, i) \in (i + 1) .. n
    <3>1. i \in 1 .. Size(s)
      BY <1>1, <1>3
    <3> HIDE DEF n
    <3> QED
      BY <1>3, <3>1, FirstClosingIs DEF n, Opens
  <2>2. c \in (i + 1) .. (n + 1)
    BY <1>1, <2>1
  <2> HIDE DEF c, n
  <2>3. f[c] = g[c]
    BY <2>2 DEF n
  <2>4. ~(i > Len(s))
    BY <1>1, <1>3
  <2> QED
    BY <1>3, <2>3, <2>4 DEF FindAt, c
<1>4. CASE i <= n /\ ~Opens(s, i)
  <2> DEFINE c == i + 1
  <2>1. c \in (i + 1) .. (n + 1)
    BY <1>1, <1>4
  <2> HIDE DEF c, n
  <2>2. f[c] = g[c]
    BY <2>1 DEF n
  <2>3. ~(i > Len(s))
    BY <1>1, <1>4
  <2> QED
    BY <1>4, <2>2, <2>3 DEF FindAt, c
<1>5. i > n \/ i <= n
  BY <1>1
<1> QED
  BY <1>2, <1>3, <1>4, <1>5

LEMMA FindsExist ==
  ASSUME NEW s, IsIndexed(s)
  PROVE  \E f : Finds(s, f, 1)
<1> DEFINE n == Size(s)
           Bad == {m \in 1 .. (n + 1) : ~\E f : Finds(s, f, m)}
<1>1. n \in Nat /\ n + 1 \in Nat /\ Len(s) = n
  BY IndexedSeq DEF Size
<1>2. ASSUME Bad # {} PROVE FALSE
  <2>1. Bad \subseteq 1 .. (n + 1)
    OBVIOUS
  <2>2. PICK m \in Bad : \A l \in Bad : l <= m
    <3> HIDE DEF Bad
    <3> QED
      BY <1>1, <1>2, <2>1, GreatestOf
  <2>3. CASE m = n + 1
    <3> DEFINE f == [i \in (n + 1) .. (n + 1) |-> << >>]
    <3>1. Finds(s, f, n + 1)
      <4>1. f = [i \in (n + 1) .. (n + 1) |-> f[i]]
        OBVIOUS
      <4>2. \A i \in (n + 1) .. (n + 1) : f[i] = << >> /\ i > Len(s)
        BY <1>1
      <4> HIDE DEF f
      <4> QED
        BY <4>1, <4>2 DEF Finds, FindAt
    <3> HIDE DEF f
    <3> QED
      BY <2>2, <2>3, <3>1
  <2>4. CASE m # n + 1
    <3>1. m \in 1 .. n /\ m + 1 \in 1 .. (n + 1) /\ m + 1 \notin Bad
      BY <1>1, <2>2, <2>4
    <3>2. PICK f : Finds(s, f, m + 1)
      BY <3>1
    <3> DEFINE g == [i \in m .. (n + 1) |-> IF i = m THEN FindAt(s, f, m) ELSE f[i]]
    <3>3. g = [i \in m .. (n + 1) |-> g[i]]
      OBVIOUS
    <3>4. g[m] = FindAt(s, f, m) /\ \A i \in (m + 1) .. (n + 1) : g[i] = f[i]
      BY <1>1, <3>1
    <3> HIDE DEF g
    <3>5. ASSUME NEW i \in m .. (n + 1)
          PROVE  g[i] = FindAt(s, g, i)
      <4>1. i \in 1 .. (n + 1)
        BY <1>1, <3>1
      <4>2. \A k \in (i + 1) .. (n + 1) : f[k] = g[k]
        <5>1. \A k \in (i + 1) .. (n + 1) : k \in (m + 1) .. (n + 1)
          BY <1>1, <3>1
        <5> QED
          BY <3>4, <5>1
      <4>3. FindAt(s, f, i) = FindAt(s, g, i)
        <5> HIDE DEF Bad
        <5> QED
          BY <4>1, <4>2, FindAtSame
      <4>4. g[i] = FindAt(s, f, i)
        <5>1. CASE i = m
          BY <3>4, <5>1
        <5>2. CASE i # m
          <6>1. i \in (m + 1) .. (n + 1)
            BY <1>1, <3>1, <5>2
          <6>2. f[i] = FindAt(s, f, i)
            BY <3>2, <6>1 DEF Finds
          <6> QED
            BY <3>4, <6>1, <6>2
        <5> QED
          BY <5>1, <5>2
      <4> QED
        BY <4>3, <4>4
    <3>6. Finds(s, g, m)
      BY <3>3, <3>5 DEF Finds
    <3> QED
      BY <2>2, <3>6
  <2> QED
    BY <2>3, <2>4
<1>3. 1 \notin Bad /\ 1 \in 1 .. (n + 1)
  BY <1>1, <1>2
<1> QED
  BY <1>3

\* Markers lie one after the other, from a place on.
MarkersFrom(ms, i, n) ==
  /\ IsIndexed(ms)
  /\ \A p \in 1 .. Size(ms) :
       /\ ms[p].first \in i .. n
       /\ ms[p].last \in (ms[p].first + 1) .. n
  /\ \A p, q \in 1 .. Size(ms) : p < q => ms[p].last < ms[q].first

IsCons(w, x, s) ==
  /\ IsIndexed(w)
  /\ Size(s) \in Nat
  /\ Size(w) = 1 + Size(s)
  /\ w[1] = x
  /\ \A k \in 1 .. Size(s) : w[1 + k] = s[k]

LEMMA ConsIs ==
  ASSUME NEW x, NEW s, IsIndexed(s)
  PROVE  IsCons(Joined(<<x>>, s), x, s)
<1> DEFINE one == <<x>>
           w == Joined(one, s)
<1>1. IsIndexed(one) /\ Size(one) = 1 /\ one[1] = x
  BY DEF IsIndexed, Size
<1> HIDE DEF one
<1>2. IsJoin(w, one, s)
  BY <1>1, JoinIs
<1> HIDE DEF w
<1>3. 1 \in 1 .. Size(one)
  BY <1>1
<1>4. w[1] = one[1]
  BY <1>2, <1>3 DEF IsJoin
<1> QED
  BY <1>1, <1>2, <1>4 DEF one, w, IsJoin, IsCons

LEMMA MarkersBefore ==
  ASSUME NEW n \in Nat, NEW i \in 1 .. n, NEW c \in (i + 1) .. n, NEW ms,
         MarkersFrom(ms, c + 1, n)
  PROVE  MarkersFrom(Joined(<<[first |-> i, last |-> c]>>, ms), i, n)
<1> DEFINE all == Joined(<<[first |-> i, last |-> c]>>, ms)
           k == Size(ms)
<1>0. n \in Nat /\ i \in 1 .. n /\ c \in (i + 1) .. n /\ c \in Nat /\ i \in Nat
  OBVIOUS
<1>2. IsIndexed(ms) /\ k \in Nat
  BY IndexedSeq DEF Size, MarkersFrom
<1>3. IsCons(all, [first |-> i, last |-> c], ms)
  BY <1>2, ConsIs
<1> HIDE DEF all
<1>4. all[1].first = i /\ all[1].last = c /\ IsIndexed(all) /\ Size(all) = 1 + k
  BY <1>3 DEF IsCons
<1>5. ASSUME NEW p \in 1 .. (1 + k), p # 1
      PROVE  p - 1 \in 1 .. k /\ all[p] = ms[p - 1]
  <2> DEFINE b == p - 1
  <2>1. b \in 1 .. k /\ 1 + b = p
    BY <1>2, <1>5
  <2> HIDE DEF b
  <2>2. all[1 + b] = ms[b]
    BY <1>3, <2>1 DEF IsCons
  <2> QED
    BY <2>1, <2>2 DEF b
<1>6. \A p \in 1 .. k : /\ ms[p].first \in (c + 1) .. n
                        /\ ms[p].last \in (ms[p].first + 1) .. n
  BY DEF MarkersFrom
<1>7. \A p, q \in 1 .. k : p < q => ms[p].last < ms[q].first
  BY DEF MarkersFrom
<1> HIDE DEF k
<1>8. ASSUME NEW p \in 1 .. (1 + k)
      PROVE  all[p].first \in i .. n /\ all[p].last \in (all[p].first + 1) .. n
  <2>1. CASE p = 1
    BY <1>4, <2>1
  <2>2. CASE p # 1
    <3>1. p - 1 \in 1 .. k /\ all[p] = ms[p - 1]
      BY <1>5, <2>2
    <3>2. ms[p - 1].first \in (c + 1) .. n /\ ms[p - 1].last \in (ms[p - 1].first + 1) .. n
      BY <1>6, <3>1
    <3>3. ms[p - 1].first \in i .. n
      BY <3>2
    <3> QED
      BY <3>1, <3>2, <3>3
  <2> QED
    BY <2>1, <2>2
<1>9. ASSUME NEW p \in 1 .. (1 + k), NEW q \in 1 .. (1 + k), p < q
      PROVE  all[p].last < all[q].first
  <2>1. q # 1
    BY <1>2, <1>9
  <2>2. q - 1 \in 1 .. k /\ all[q] = ms[q - 1]
    BY <1>5, <2>1
  <2>3. CASE p = 1
    <3>1. ms[q - 1].first \in (c + 1) .. n
      BY <1>6, <2>2
    <3> QED
      BY <1>4, <2>2, <2>3, <3>1
  <2>4. CASE p # 1
    <3>1. p - 1 \in 1 .. k /\ all[p] = ms[p - 1]
      BY <1>5, <2>4
    <3>2. p - 1 < q - 1
      BY <1>2, <1>9
    <3> QED
      BY <1>7, <2>2, <3>1, <3>2
  <2> QED
    BY <2>3, <2>4
<1> QED
  BY <1>4, <1>8, <1>9 DEF MarkersFrom, all

\* What find_markers returns lies one after the other in the text.
LEMMA MarkersOfIs ==
  ASSUME NEW s, IsIndexed(s)
  PROVE  MarkersFrom(MarkersOf(s), 1, Size(s))
<1> DEFINE n == Size(s)
           Equation(f) == f = [i \in 1 .. (Len(s) + 1) |-> FindAt(s, f, i)]
           From == CHOOSE f : Equation(f)
<1>1. n \in Nat /\ n + 1 \in Nat /\ Len(s) = n
  BY IndexedSeq DEF Size
<1>2. MarkersOf(s) = From[1]
  BY DEF MarkersOf, FindAt, FirstClosing, Joined, Opens
<1>3. \E f : Equation(f)
  <2>1. PICK f : Finds(s, f, 1)
    BY FindsExist
  <2>2. Equation(f)
    <3>1. f = [i \in 1 .. (n + 1) |-> f[i]] /\ \A i \in 1 .. (n + 1) : f[i] = FindAt(s, f, i)
      BY <2>1 DEF Finds
    <3>2. [i \in 1 .. (n + 1) |-> f[i]] = [i \in 1 .. (n + 1) |-> FindAt(s, f, i)]
      BY <3>1
    <3> QED
      BY <1>1, <3>1, <3>2
  <2> QED
    BY <2>2
<1>4. Equation(From)
  BY <1>3
<1> HIDE DEF From
<1>5. \A i \in 1 .. (n + 1) : From[i] = FindAt(s, From, i)
  BY <1>1, <1>4
<1> HIDE DEF Equation
<1> DEFINE Bad == {i \in 1 .. (n + 1) : ~MarkersFrom(From[i], i, n)}
<1>6. ASSUME Bad # {} PROVE FALSE
  <2>1. Bad \subseteq 1 .. (n + 1)
    OBVIOUS
  <2>2. PICK i \in Bad : \A l \in Bad : l <= i
    <3> HIDE DEF Bad
    <3> QED
      BY <1>1, <1>6, <2>1, GreatestOf
  <2>3. \A k \in (i + 1) .. (n + 1) : MarkersFrom(From[k], k, n)
    <3>1. ASSUME NEW k \in (i + 1) .. (n + 1) PROVE MarkersFrom(From[k], k, n)
      <4>1. k \in 1 .. (n + 1) /\ ~(k <= i)
        BY <1>1, <2>2
      <4> QED
        BY <2>2, <4>1
    <3> QED
      BY <3>1
  <2>4. i \in Nat /\ i \in 1 .. (n + 1) /\ From[i] = FindAt(s, From, i) /\ ~MarkersFrom(From[i], i, n)
    BY <1>1, <1>5, <2>2
  <2> HIDE DEF Bad, n
  <2>5. CASE i > n
    <3>1. From[i] = << >>
      BY <1>1, <2>4, <2>5 DEF FindAt
    <3>2. IsIndexed(<< >>) /\ Size(<< >>) = 0
      BY DEF IsIndexed, Size
    <3> QED
      BY <2>4, <3>1, <3>2 DEF MarkersFrom
  <2>6. CASE i <= n /\ Opens(s, i)
    <3> DEFINE c == FirstClosing(s, i)
    <3>1. i \in 1 .. n /\ c \in (i + 1) .. n
      <4>1. i \in 1 .. n
        BY <1>1, <2>4, <2>6
      <4> QED
        BY <2>6, <4>1, FirstClosingIs DEF n, Opens
    <3>2. From[i] = Joined(<<[first |-> i, last |-> c]>>, From[c + 1])
      <4>1. ~(i > Len(s))
        BY <1>1, <2>4, <2>6
      <4> QED
        BY <2>4, <2>6, <4>1 DEF FindAt
    <3> HIDE DEF c
    <3>3. c + 1 \in (i + 1) .. (n + 1)
      BY <1>1, <3>1
    <3>4. MarkersFrom(From[c + 1], c + 1, n)
      BY <2>3, <3>3
    <3> QED
      BY <1>1, <2>4, <3>1, <3>2, <3>4, MarkersBefore
  <2>7. CASE i <= n /\ ~Opens(s, i)
    <3>1. From[i] = From[i + 1]
      <4>1. ~(i > Len(s))
        BY <1>1, <2>4, <2>7
      <4> QED
        BY <2>4, <2>7, <4>1 DEF FindAt
    <3>2. i + 1 \in (i + 1) .. (n + 1)
      BY <1>1, <2>4, <2>7
    <3>3. MarkersFrom(From[i], i + 1, n)
      BY <2>3, <3>1, <3>2
    <3>4. \A k : k \in (i + 1) .. n => k \in i .. n
      BY <2>4
    <3>5. MarkersFrom(From[i], i, n)
      BY <3>3, <3>4 DEF MarkersFrom
    <3> QED
      BY <2>4, <3>5
  <2>8. i > n \/ i <= n
    BY <1>1, <2>4
  <2> QED
    BY <2>5, <2>6, <2>7, <2>8
<1>7. 1 \in 1 .. (n + 1) /\ 1 \notin Bad
  BY <1>1, <1>6
<1> QED
  BY <1>2, <1>7

-----------------------------------------------------------------------------
(* How far the shapes at a position move.                                   *)

IsAppended(w, s, x) ==
  /\ IsIndexed(w)
  /\ Size(s) \in Nat
  /\ Size(w) = Size(s) + 1
  /\ \A k \in 1 .. Size(s) : w[k] = s[k]
  /\ w[Size(s) + 1] = x

LEMMA AppendIs ==
  ASSUME NEW s, IsIndexed(s), NEW x
  PROVE  IsAppended(Append(s, x), s, x)
<1> DEFINE n == Len(s)
           S == {s[k] : k \in 1 .. n} \cup {x}
           w == Append(s, x)
<1>1. n \in Nat /\ s \in Seq({s[k] : k \in 1 .. n})
  BY IndexedSeq
<1>2. s \in Seq(S) /\ x \in S
  <2>1. {s[k] : k \in 1 .. n} \subseteq S
    OBVIOUS
  <2>2. s \in Seq(S)
    BY <1>1, <2>1, SeqMonotonic
  <2> QED
    BY <2>2
<1> HIDE DEF S
<1>3. w \in Seq(S) /\ Len(w) = n + 1 /\ \A k \in 1 .. n : w[k] = s[k] /\ w[n + 1] = x
  BY <1>2, AppendProperties
<1>4. w[n + 1] = x
  BY <1>2, AppendProperties
<1>5. IsIndexed(w)
  BY <1>3, InSeq
<1> QED
  BY <1>1, <1>3, <1>4, <1>5 DEF IsAppended, Size

AreDeltas(ds) ==
  IsIndexed(ds) /\ \A k \in 1 .. Size(ds) : ds[k].at \in Nat /\ ds[k].by \in Int

ShiftOf(d, pos) == IF pos >= d.at THEN d.by ELSE 0
ShiftIn(ds, pos) == Total([k \in DOMAIN ds |-> ShiftOf(ds[k], pos)])

LEMMA ShiftSums ==
  ASSUME NEW ds, AreDeltas(ds), NEW pos \in Int
  PROVE  \E a, f : /\ \A k \in 1 .. Size(ds) : a[k] = ShiftOf(ds[k], pos) /\ a[k] \in Int
                   /\ Sums(f, a, Size(ds))
                   /\ ShiftIn(ds, pos) = f[Size(ds)]
<1> DEFINE n == Size(ds)
           a == [k \in DOMAIN ds |-> ShiftOf(ds[k], pos)]
<1>1. n \in Nat /\ DOMAIN ds = 1 .. n
  BY IndexedSeq DEF Size, AreDeltas
<1>2. a = [k \in 1 .. n |-> a[k]]
  BY <1>1
<1>3. \A k \in 1 .. n : a[k] = ShiftOf(ds[k], pos)
  BY <1>1
<1>4. \A k \in 1 .. n : a[k] \in Int
  BY <1>3 DEF AreDeltas, ShiftOf
<1>5. ShiftIn(ds, pos) = Total(a)
  BY DEF ShiftIn
<1> HIDE DEF a, n
<1>6. IsIndexed(a) /\ Size(a) = n
  BY <1>1, <1>2, MakeIndexed
<1>7. \E f : Sums(f, a, n) /\ Total(a) = f[n]
  <2>1. \A k \in 1 .. Size(a) : a[k] \in Int
    BY <1>4, <1>6
  <2>2. \E f : Sums(f, a, Size(a)) /\ Total(a) = f[Size(a)]
    BY <1>6, <2>1, TotalIs
  <2> QED
    BY <1>6, <2>2
<1> QED
  BY <1>3, <1>4, <1>5, <1>7 DEF n

LEMMA ShiftType ==
  ASSUME NEW ds, AreDeltas(ds), NEW pos \in Int
  PROVE  ShiftIn(ds, pos) \in Int
<1>1. PICK a, f : Sums(f, a, Size(ds)) /\ ShiftIn(ds, pos) = f[Size(ds)]
  BY ShiftSums
<1>2. Size(ds) \in Nat
  BY IndexedSeq DEF Size, AreDeltas
<1>3. Size(ds) \in 0 .. Size(ds)
  BY <1>2
<1> QED
  BY <1>1, <1>3 DEF Sums

LEMMA ShiftNone ==
  ASSUME NEW pos \in Int
  PROVE  AreDeltas(<< >>) /\ ShiftIn(<< >>, pos) = 0
<1>1. Size(<< >>) = 0 /\ AreDeltas(<< >>)
  BY DEF Size, AreDeltas, IsIndexed
<1>2. PICK a, f : Sums(f, a, 0) /\ ShiftIn(<< >>, pos) = f[0]
  <2> DEFINE ds == << >>
  <2>1. AreDeltas(ds) /\ Size(ds) = 0
    BY <1>1
  <2> HIDE DEF ds
  <2>2. PICK a, f : Sums(f, a, Size(ds)) /\ ShiftIn(ds, pos) = f[Size(ds)]
    BY <2>1, ShiftSums
  <2> QED
    BY <2>1, <2>2 DEF ds
<1> QED
  BY <1>1, <1>2 DEF Sums

LEMMA ShiftMore ==
  ASSUME NEW ds, AreDeltas(ds), NEW d, d.at \in Nat, d.by \in Int,
         NEW more, IsAppended(more, ds, d)
  PROVE  /\ AreDeltas(more)
         /\ \A pos \in Int : ShiftIn(more, pos) = ShiftIn(ds, pos) + ShiftOf(d, pos)
<1> DEFINE n == Size(ds)
<1>1. n \in Nat /\ Size(more) = n + 1 /\ IsIndexed(more)
  BY DEF IsAppended
<1>2. (\A k \in 1 .. n : more[k] = ds[k]) /\ more[n + 1] = d
  BY DEF IsAppended
<1>3. \A k \in 1 .. n : ds[k].at \in Nat /\ ds[k].by \in Int
  BY DEF AreDeltas
<1> HIDE DEF n
<1>4. AreDeltas(more)
  <2>1. ASSUME NEW k \in 1 .. (n + 1)
        PROVE  more[k].at \in Nat /\ more[k].by \in Int
    <3>1. CASE k = n + 1
      BY <1>2, <3>1
    <3>2. CASE k # n + 1
      <4>1. k \in 1 .. n
        BY <1>1, <3>2
      <4> QED
        BY <1>2, <1>3, <4>1
    <3> QED
      BY <3>1, <3>2
  <2> QED
    BY <1>1, <2>1 DEF AreDeltas
<1>5. ASSUME NEW pos \in Int
      PROVE  ShiftIn(more, pos) = ShiftIn(ds, pos) + ShiftOf(d, pos)
  <2>1. PICK a, f : /\ \A k \in 1 .. n : a[k] = ShiftOf(ds[k], pos) /\ a[k] \in Int
                    /\ Sums(f, a, n) /\ ShiftIn(ds, pos) = f[n]
    BY ShiftSums DEF n
  <2>2. PICK b, g : /\ \A k \in 1 .. (n + 1) : b[k] = ShiftOf(more[k], pos) /\ b[k] \in Int
                    /\ Sums(g, b, n + 1) /\ ShiftIn(more, pos) = g[n + 1]
    <3>1. \E b, g : /\ \A k \in 1 .. Size(more) : b[k] = ShiftOf(more[k], pos) /\ b[k] \in Int
                    /\ Sums(g, b, Size(more)) /\ ShiftIn(more, pos) = g[Size(more)]
      BY <1>4, ShiftSums
    <3> QED
      BY <1>1, <3>1
  <2>3. \A k \in 1 .. n : a[k] = b[k]
    <3>1. \A k \in 1 .. n : k \in 1 .. (n + 1)
      BY <1>1
    <3> QED
      BY <1>2, <2>1, <2>2, <3>1
  <2>4. f[n] = g[n]
    <3>1. n + 1 \in Nat /\ n <= n /\ n <= n + 1 /\ n \in 0 .. n
      BY <1>1
    <3>2. \A j \in 0 .. n : f[j] = g[j]
      BY <1>1, <2>1, <2>2, <2>3, <3>1, SumsAgree
    <3> QED
      BY <3>1, <3>2
  <2>5. g[n + 1] = g[n] + b[n + 1] /\ b[n + 1] = ShiftOf(d, pos)
    <3> DEFINE k == n + 1
    <3>1. k \in 1 .. k /\ k - 1 = n
      BY <1>1
    <3>2. Sums(g, b, k) /\ more[k] = d /\ \A i \in 1 .. k : b[i] = ShiftOf(more[i], pos)
      BY <1>2, <2>2
    <3> HIDE DEF k
    <3>3. g[k] = g[k - 1] + b[k] /\ b[k] = ShiftOf(d, pos)
      BY <3>1, <3>2 DEF Sums
    <3> QED
      BY <3>1, <3>3 DEF k
  <2> QED
    BY <2>1, <2>2, <2>4, <2>5
<1> QED
  BY <1>4, <1>5

-----------------------------------------------------------------------------
(* One replacement.                                                         *)

IsReplaced(w, t, f, l, v) ==
  /\ IsIndexed(w)
  /\ Size(t) \in Nat /\ Size(v) \in Nat
  /\ Size(w) = Size(t) + Size(v) - (l - f + 1)
  /\ \A k \in 1 .. (f - 1) : w[k] = t[k]
  /\ \A k \in 1 .. Size(v) : w[f - 1 + k] = v[k]
  /\ \A k \in 1 .. (Size(t) - l) : w[f - 1 + Size(v) + k] = t[l + k]

\* The text that ReplaceMarker makes.
LEMMA ReplacedIs ==
  ASSUME NEW t, IsIndexed(t), NEW v, IsIndexed(v),
         NEW f \in 1 .. Size(t), NEW l \in f .. Size(t)
  PROVE  IsReplaced(Joined(Joined(Cut(t, 1, f - 1), v), Cut(t, l + 1, Size(t))), t, f, l, v)
<1> DEFINE n == Size(t)
           z == Size(v)
           a == Cut(t, 1, f - 1)
           c == Cut(t, l + 1, n)
           av == Joined(a, v)
           w == Joined(av, c)
<1>1. n \in Nat /\ z \in Nat /\ f \in 1 .. n /\ l \in f .. n
  BY IndexedSeq DEF Size
<1> HIDE DEF z
<1>2. IsCut(a, t, 1, f - 1)
  <2>1. 1 \in Nat \ {0} /\ f - 1 \in Nat /\ f - 1 <= Size(t) /\ 1 <= f - 1 + 1
    BY <1>1
  <2> HIDE DEF n
  <2> QED
    BY <2>1, CutIs
<1>3. IsCut(c, t, l + 1, n)
  <2>1. l + 1 \in Nat \ {0} /\ n \in Nat /\ n <= Size(t) /\ l + 1 <= n + 1
    BY <1>1
  <2> HIDE DEF n
  <2> QED
    BY <2>1, CutIs
<1> HIDE DEF n
<1>4. IsIndexed(a) /\ Size(a) = f - 1 /\ \A k \in 1 .. (f - 1) : a[k] = t[k]
  <2>1. IsIndexed(a) /\ Size(a) = f - 1 - 1 + 1 /\ \A k \in 1 .. (f - 1 - 1 + 1) : a[k] = t[1 + k - 1]
    <3> HIDE DEF a
    <3> QED
      BY <1>2 DEF IsCut
  <2>2. f - 1 - 1 + 1 = f - 1 /\ \A k \in 1 .. (f - 1) : 1 + k - 1 = k
    BY <1>1
  <2> HIDE DEF a
  <2> QED
    BY <2>1, <2>2
<1>5. IsIndexed(c) /\ Size(c) = n - l /\ \A k \in 1 .. (n - l) : c[k] = t[l + k]
  <2>1. IsIndexed(c) /\ Size(c) = n - (l + 1) + 1 /\ \A k \in 1 .. (n - (l + 1) + 1) : c[k] = t[l + 1 + k - 1]
    <3> HIDE DEF c
    <3> QED
      BY <1>3 DEF IsCut
  <2>2. n - (l + 1) + 1 = n - l /\ \A k \in 1 .. (n - l) : l + 1 + k - 1 = l + k
    BY <1>1
  <2> HIDE DEF c
  <2> QED
    BY <2>1, <2>2
<1> HIDE DEF a, c
<1>6. IsJoin(av, a, v)
  BY <1>4, JoinIs
<1>7. IsIndexed(av)
  BY <1>6 DEF IsJoin
<1> HIDE DEF av
<1>8. IsJoin(w, av, c)
  BY <1>5, <1>7, JoinIs
<1> HIDE DEF w
<1>9. Size(av) = f - 1 + z /\ IsIndexed(w) /\ Size(w) = f - 1 + z + (n - l)
  BY <1>4, <1>5, <1>6, <1>8 DEF IsJoin, z
<1>10. /\ \A k \in 1 .. (f - 1) : av[k] = a[k]
       /\ \A k \in 1 .. z : av[f - 1 + k] = v[k]
  BY <1>4, <1>6 DEF IsJoin, z
<1>11. /\ \A k \in 1 .. (f - 1 + z) : w[k] = av[k]
       /\ \A k \in 1 .. (n - l) : w[f - 1 + z + k] = c[k]
  BY <1>5, <1>8, <1>9 DEF IsJoin
<1>12. ASSUME NEW k \in 1 .. (f - 1)
       PROVE  w[k] = t[k]
  <2>1. k \in 1 .. (f - 1 + z)
    BY <1>1
  <2> QED
    BY <1>4, <1>10, <1>11, <2>1
<1>13. ASSUME NEW k \in 1 .. z
       PROVE  w[f - 1 + k] = v[k]
  <2> DEFINE i == f - 1 + k
  <2>1. i \in 1 .. (f - 1 + z) /\ av[i] = v[k]
    BY <1>1, <1>10
  <2> HIDE DEF i
  <2>2. w[i] = v[k]
    BY <1>11, <2>1
  <2> QED
    BY <2>2 DEF i
<1>14. \A k \in 1 .. (n - l) : w[f - 1 + z + k] = t[l + k]
  BY <1>5, <1>11
<1>15. f - 1 + z + (n - l) = n + z - (l - f + 1)
  BY <1>1
<1> QED
  BY <1>1, <1>9, <1>12, <1>13, <1>14, <1>15 DEF IsReplaced, n, z, w, av, a, c

LEMMA WidthWhole ==
  ASSUME NEW s, IsIndexed(s)
  PROVE  WidthOf(s) = WidthTo(s, Size(s)) /\ WidthOf(s) \in Int
<1> DEFINE n == Size(s)
           cut == Cut(s, 1, n)
<1>1. n \in Nat
  BY IndexedSeq DEF Size
<1>2. IsCut(cut, s, 1, n)
  <2>1. 1 \in Nat \ {0} /\ n \in Nat /\ n <= Size(s) /\ 1 <= n + 1
    BY <1>1
  <2> HIDE DEF n
  <2> QED
    BY <2>1, CutIs
<1> HIDE DEF cut, n
<1>3. IsIndexed(cut) /\ Size(cut) = n - 1 + 1 /\ \A k \in 1 .. (n - 1 + 1) : cut[k] = s[1 + k - 1]
  BY <1>2 DEF IsCut
<1>4. n - 1 + 1 = n /\ \A k \in 1 .. n : 1 + k - 1 = k
  BY <1>1
<1>5. IsIndexed(cut) /\ Size(cut) = n /\ \A k \in 1 .. n : cut[k] = s[k]
  BY <1>3, <1>4
<1>6. cut = s
  BY <1>5, SameSeq DEF n
<1>7. n \in 0 .. n
  BY <1>1
<1>8. WidthTo(s, n) \in Int
  BY <1>7, WidthSteps DEF n
<1> QED
  BY <1>6, <1>8 DEF WidthTo, cut, n

\* A stretch is as wide as the way from its start to its end.
LEMMA WidthBetween ==
  ASSUME NEW t, IsIndexed(t), NEW f \in 1 .. Size(t), NEW l \in f .. Size(t)
  PROVE  /\ WidthOf(Cut(t, f, l)) = WidthTo(t, l) - WidthTo(t, f - 1)
         /\ WidthOf(Cut(t, f, l)) \in Int
<1> DEFINE n == Size(t)
           cut == Cut(t, f, l)
           x == f - 1
           c == l - f + 1
<1>1. n \in Nat /\ f \in 1 .. n /\ l \in f .. n
  BY IndexedSeq DEF Size
<1>2. IsCut(cut, t, f, l)
  <2>1. f \in Nat \ {0} /\ l \in Nat /\ l <= Size(t) /\ f <= l + 1
    BY <1>1
  <2> HIDE DEF n
  <2> QED
    BY <2>1, CutIs
<1> HIDE DEF cut, n
<1>3. IsIndexed(cut) /\ Size(cut) = l - f + 1 /\ \A k \in 1 .. (l - f + 1) : cut[k] = t[f + k - 1]
  BY <1>2 DEF IsCut
<1>4. /\ x \in Nat /\ c \in Nat /\ 0 \in Nat /\ x + c = l /\ 0 + c = c /\ x + c <= n
      /\ \A k \in 1 .. c : f + k - 1 = x + k /\ 0 + k = k
  BY <1>1
<1>5. AreAlike(cut, 0, t, x, c)
  BY <1>3, <1>4 DEF AreAlike
<1>6. 0 + c <= Size(cut) /\ x + c <= Size(t)
  BY <1>3, <1>4 DEF n
<1>7. WidthOf(cut) = WidthTo(cut, c) /\ WidthOf(cut) \in Int /\ WidthTo(cut, 0) = 0
  BY <1>3, WidthWhole, WidthSteps
<1> HIDE DEF x, c
<1>8. WidthTo(cut, 0 + c) - WidthTo(cut, 0) = WidthTo(t, x + c) - WidthTo(t, x)
  <2>1. AreAsWide(cut, 0, t, x, c)
    BY <1>3, <1>4, <1>5, <1>6, WidthAlong
  <2> QED
    BY <2>1 DEF AreAsWide
<1>9. WidthTo(cut, c) \in Int
  BY <1>7
<1> QED
  BY <1>4, <1>7, <1>8, <1>9 DEF cut, x

-----------------------------------------------------------------------------
(* A text in which markers have been replaced, against the text it was:     *)
(* start[j] characters stand before what became of the j-th.                *)

Order(start, n, m) ==
  /\ start \in [1 .. (n + 1) -> Nat]
  /\ start[1] = 0
  /\ start[n + 1] = m
  /\ \A i, j \in 1 .. (n + 1) : i <= j => start[i] <= start[j]

StaysUpTo(start, i) == \A j \in 1 .. i : start[j] = j - 1

\* Where characters start once those from f to l have given way to z others.
Shifted(start, n, f, l, z) ==
  [j \in 1 .. (n + 1) |-> IF j <= f THEN j - 1
                          ELSE IF j <= l THEN f - 1 + z
                          ELSE start[j] + z - (l - f + 1)]

ShiftedAt(new, start, n, f, l, z) ==
  /\ \A j \in 1 .. f : new[j] = j - 1
  /\ \A j \in (f + 1) .. (l + 1) : new[j] = f - 1 + z
  /\ \A j \in (l + 1) .. (n + 1) : new[j] = start[j] + z - (l - f + 1)
  /\ \A j \in (l + 1) .. (n + 1) : start[j] >= l

LEMMA ShiftedIs ==
  ASSUME NEW n \in Nat, NEW m \in Nat, NEW z \in Nat, NEW f \in 1 .. n, NEW l \in (f + 1) .. n,
         NEW start, Order(start, n, m), StaysUpTo(start, l + 1)
  PROVE  /\ Order(Shifted(start, n, f, l, z), n, m + z - (l - f + 1))
         /\ ShiftedAt(Shifted(start, n, f, l, z), start, n, f, l, z)
<1> DEFINE new == Shifted(start, n, f, l, z)
<1>1. /\ \A j \in 1 .. (n + 1) : start[j] \in Nat
      /\ start[n + 1] = m
      /\ \A i, j \in 1 .. (n + 1) : i <= j => start[i] <= start[j]
  BY DEF Order
<1>2. \A j \in 1 .. (l + 1) : start[j] = j - 1
  BY DEF StaysUpTo
<1>3. start[l + 1] = l
  <2> DEFINE j == l + 1
  <2>1. j \in 1 .. j /\ j - 1 = l
    OBVIOUS
  <2>2. \A i \in 1 .. j : start[i] = i - 1
    BY <1>2
  <2> HIDE DEF j
  <2>3. start[j] = l
    BY <2>1, <2>2
  <2> QED
    BY <2>3 DEF j
<1>4. ASSUME NEW j \in (l + 1) .. (n + 1)
      PROVE  start[j] \in Nat /\ start[j] >= l
  <2>1. j \in 1 .. (n + 1) /\ l + 1 \in 1 .. (n + 1) /\ l + 1 <= j
    OBVIOUS
  <2>2. start[l + 1] <= start[j] /\ start[j] \in Nat
    BY <1>1, <2>1
  <2> QED
    BY <1>3, <2>2
<1>5. /\ DOMAIN new = 1 .. (n + 1)
      /\ \A j \in 1 .. (n + 1) : new[j] = IF j <= f THEN j - 1
                                          ELSE IF j <= l THEN f - 1 + z
                                          ELSE start[j] + z - (l - f + 1)
      /\ new = [j \in 1 .. (n + 1) |-> new[j]]
  BY DEF Shifted
<1> HIDE DEF new
<1>6. ASSUME NEW j \in 1 .. f
      PROVE  new[j] = j - 1
  <2>1. j \in 1 .. (n + 1) /\ j <= f
    OBVIOUS
  <2> QED
    BY <1>5, <2>1
<1>7. ASSUME NEW j \in (l + 1) .. (n + 1)
      PROVE  new[j] = start[j] + z - (l - f + 1)
  <2>1. j \in 1 .. (n + 1) /\ ~(j <= f) /\ ~(j <= l)
    OBVIOUS
  <2> QED
    BY <1>5, <2>1
<1>8. ASSUME NEW j \in (f + 1) .. (l + 1)
      PROVE  new[j] = f - 1 + z
  <2>1. CASE j = l + 1
    <3>1. j \in (l + 1) .. (n + 1)
      BY <2>1
    <3>2. new[j] = start[j] + z - (l - f + 1) /\ start[j] = l
      BY <1>3, <1>7, <2>1, <3>1
    <3> QED
      BY <3>2
  <2>2. CASE j # l + 1
    <3>1. j \in 1 .. (n + 1) /\ ~(j <= f) /\ j <= l
      BY <2>2
    <3> QED
      BY <1>5, <3>1
  <2> QED
    BY <2>1, <2>2
<1>9. ASSUME NEW j \in 1 .. (n + 1)
      PROVE  new[j] \in Nat
  <2>1. j \in 1 .. f \/ j \in (f + 1) .. (l + 1) \/ j \in (l + 1) .. (n + 1)
    OBVIOUS
  <2>2. CASE j \in 1 .. f
    BY <1>6, <2>2
  <2>3. CASE j \in (f + 1) .. (l + 1)
    BY <1>8, <2>3
  <2>4. CASE j \in (l + 1) .. (n + 1)
    BY <1>4, <1>7, <2>4
  <2> QED
    BY <2>1, <2>2, <2>3, <2>4
<1>10. ASSUME NEW i \in 1 .. (n + 1), NEW j \in 1 .. (n + 1), i <= j
       PROVE  new[i] <= new[j]
  <2>1. \A k \in 1 .. (n + 1) : k \in 1 .. f \/ k \in (f + 1) .. (l + 1) \/ k \in (l + 1) .. (n + 1)
    OBVIOUS
  <2>2. CASE j \in 1 .. f
    <3>1. i \in 1 .. f
      BY <1>10, <2>2
    <3> QED
      BY <1>6, <1>10, <2>2, <3>1
  <2>3. CASE j \in (f + 1) .. (l + 1)
    <3>1. i \in 1 .. f \/ i \in (f + 1) .. (l + 1)
      BY <1>10, <2>3
    <3>2. CASE i \in 1 .. f
      BY <1>6, <1>8, <2>3, <3>2
    <3>3. CASE i \in (f + 1) .. (l + 1)
      BY <1>8, <2>3, <3>3
    <3> QED
      BY <3>1, <3>2, <3>3
  <2>4. CASE j \in (l + 1) .. (n + 1)
    <3>1. new[j] = start[j] + z - (l - f + 1) /\ start[j] \in Nat /\ start[j] >= l
      BY <1>4, <1>7, <2>4
    <3>2. CASE i \in 1 .. f
      BY <1>6, <3>1, <3>2
    <3>3. CASE i \in (f + 1) .. (l + 1)
      BY <1>8, <3>1, <3>3
    <3>4. CASE i \in (l + 1) .. (n + 1)
      <4>1. new[i] = start[i] + z - (l - f + 1) /\ start[i] \in Nat /\ start[i] <= start[j]
        BY <1>1, <1>4, <1>7, <1>10, <3>4
      <4> QED
        BY <3>1, <4>1
    <3> QED
      BY <2>1, <3>2, <3>3, <3>4
  <2> QED
    BY <2>1, <2>2, <2>3, <2>4
<1>11. new \in [1 .. (n + 1) -> Nat]
  BY <1>5, <1>9
<1>12. new[1] = 0
  <2>1. 1 \in 1 .. f
    OBVIOUS
  <2>2. new[1] = 1 - 1
    BY <1>6, <2>1
  <2> QED
    BY <2>2
<1>13. new[n + 1] = m + z - (l - f + 1)
  <2>1. n + 1 \in (l + 1) .. (n + 1)
    OBVIOUS
  <2>2. new[n + 1] = start[n + 1] + z - (l - f + 1)
    BY <1>7, <2>1
  <2> QED
    BY <1>1, <2>2
<1>14. ShiftedAt(new, start, n, f, l, z)
  BY <1>4, <1>6, <1>7, <1>8 DEF ShiftedAt
<1> QED
  BY <1>10, <1>11, <1>12, <1>13, <1>14 DEF Order, new

\* A character that no replaced marker covers, and one that none covers but as
\* its opening.
Spared(ms, R, j) == \A q \in R : ~(ms[q].first <= j /\ j <= ms[q].last)
Passable(ms, R, j) == \A q \in R : ~(ms[q].first < j /\ j <= ms[q].last)
AheadOf(ms, R, j) == \A q \in R : j <= ms[q].first

Keeps(s, ms, R, t, start) ==
  \A j \in 1 .. Size(s) : Spared(ms, R, j) =>
    start[j + 1] = start[j] + 1 /\ t[start[j] + 1] = s[j]

FillsOne(m, v, t, start) ==
  /\ start[m.first + 1] = start[m.first] + Size(v)
  /\ \A i \in 1 .. Size(v) : t[start[m.first] + i] = v[i]
  /\ \A j \in (m.first + 1) .. m.last : start[j + 1] = start[j]

FitWidths(s, ms, R, t, ds, start) ==
  \A j \in 1 .. (Size(s) + 1) : Passable(ms, R, j) =>
    WidthTo(t, start[j]) = WidthTo(s, j - 1) + ShiftIn(ds, WidthTo(s, j - 1))

TextFits(s, ms, R, val, t, ds, start) ==
  /\ Order(start, Size(s), Size(t))
  /\ \A j \in 1 .. (Size(s) + 1) : AheadOf(ms, R, j) => start[j] = j - 1
  /\ Keeps(s, ms, R, t, start)
  /\ \A q \in R : IsIndexed(val[q]) /\ FillsOne(ms[q], val[q], t, start)
  /\ FitWidths(s, ms, R, t, ds, start)

\* What follows a replaced stretch moves as it is.
LEMMA TailMoves ==
  ASSUME NEW t, NEW v, NEW t2, NEW f \in Nat \ {0}, NEW l \in Nat, f <= l, l <= Size(t),
         IsReplaced(t2, t, f, l, v)
  PROVE  \A p \in (l + 1) .. Size(t) : t2[p + Size(v) - (l - f + 1)] = t[p]
<1> DEFINE m == Size(t)
           z == Size(v)
<1>1. /\ m \in Nat /\ z \in Nat
      /\ \A k \in 1 .. (m - l) : t2[f - 1 + z + k] = t[l + k]
  BY DEF IsReplaced
<1> HIDE DEF m, z
<1>2. ASSUME NEW p \in (l + 1) .. m
      PROVE  t2[p + z - (l - f + 1)] = t[p]
  <2> DEFINE k == p - l
  <2>1. k \in 1 .. (m - l) /\ f - 1 + z + k = p + z - (l - f + 1) /\ l + k = p
    BY <1>1
  <2> HIDE DEF k
  <2>2. t2[f - 1 + z + k] = t[l + k]
    BY <1>1, <2>1
  <2> QED
    BY <2>1, <2>2
<1> QED
  BY <1>2 DEF m, z

\* The lasting circumstances of one replacement.
Replacing(s, t, start, f, l, v, t2, new) ==
  /\ Size(s) \in Nat /\ Size(t) \in Nat /\ Size(v) \in Nat
  /\ f \in 1 .. Size(s) /\ l \in (f + 1) .. Size(s) /\ l <= Size(t)
  /\ Order(start, Size(s), Size(t))
  /\ StaysUpTo(start, l + 1)
  /\ IsReplaced(t2, t, f, l, v)
  /\ ShiftedAt(new, start, Size(s), f, l, Size(v))

\* A character outside of the marker is still there.
LEMMA KeptOne ==
  ASSUME NEW s, NEW t, NEW start, NEW f, NEW l, NEW v, NEW t2, NEW new,
         Replacing(s, t, start, f, l, v, t2, new),
         NEW j \in 1 .. Size(s), j < f \/ l < j,
         start[j + 1] = start[j] + 1, t[start[j] + 1] = s[j]
  PROVE  new[j + 1] = new[j] + 1 /\ t2[new[j] + 1] = s[j]
<1> DEFINE n == Size(s)
           m == Size(t)
           z == Size(v)
           d == z - (l - f + 1)
           i == j + 1
<1>1. /\ n \in Nat /\ m \in Nat /\ z \in Nat
      /\ f \in 1 .. n /\ l \in (f + 1) .. n /\ l <= m /\ f \in Nat \ {0} /\ l \in Nat
  BY DEF Replacing
<1>2. /\ \A k \in 1 .. (n + 1) : start[k] \in Nat
      /\ start[n + 1] = m
      /\ \A k, h \in 1 .. (n + 1) : k <= h => start[k] <= start[h]
  BY DEF Replacing, Order
<1>3. \A k \in 1 .. (l + 1) : start[k] = k - 1
  BY DEF Replacing, StaysUpTo
<1>4. /\ \A k \in 1 .. f : new[k] = k - 1
      /\ \A k \in (l + 1) .. (n + 1) : new[k] = start[k] + z - (l - f + 1)
      /\ \A k \in (l + 1) .. (n + 1) : start[k] >= l
  BY DEF Replacing, ShiftedAt
<1>5. IsReplaced(t2, t, f, l, v) /\ f <= l /\ l <= Size(t)
  BY <1>1 DEF Replacing
<1>6. j \in 1 .. n /\ i \in 1 .. (n + 1) /\ start[i] = start[j] + 1 /\ j \in 1 .. (n + 1)
  BY <1>1
<1>7. CASE j < f
  <2>1. j \in 1 .. f /\ i \in 1 .. f /\ j \in 1 .. (l + 1) /\ j \in 1 .. (f - 1)
    BY <1>1, <1>6, <1>7
  <2>2. start[j] = j - 1 /\ new[j] = j - 1 /\ new[i] = i - 1
    BY <1>3, <1>4, <2>1
  <2>3. t2[j] = t[j]
    BY <1>5, <2>1 DEF IsReplaced
  <2>4. j - 1 + 1 = j /\ i - 1 = j
    BY <1>6
  <2>5. t[j] = s[j]
    BY <2>2, <2>4
  <2> QED
    BY <2>2, <2>3, <2>4, <2>5
<1>8. CASE l < j
  <2>1. j \in (l + 1) .. (n + 1) /\ i \in (l + 1) .. (n + 1)
    BY <1>1, <1>6, <1>8
  <2>2. /\ new[j] = start[j] + z - (l - f + 1) /\ new[i] = start[i] + z - (l - f + 1)
        /\ start[j] >= l /\ start[j] \in Nat /\ start[i] \in Nat
    BY <1>2, <1>4, <1>6, <2>1
  <2>3. start[i] <= m
    <3>1. n + 1 \in 1 .. (n + 1) /\ i <= n + 1
      BY <1>1, <1>6
    <3> QED
      BY <1>2, <1>6, <3>1
  <2> DEFINE p == start[j] + 1
  <2>4. p \in (l + 1) .. m /\ p + z - (l - f + 1) = new[j] + 1 /\ new[i] = new[j] + 1
    BY <1>1, <1>6, <2>2, <2>3
  <2>5. t2[p + z - (l - f + 1)] = t[p]
    <3>1. \A k \in (l + 1) .. Size(t) : t2[k + Size(v) - (l - f + 1)] = t[k]
      BY <1>1, <1>5, TailMoves
    <3> HIDE DEF p
    <3> QED
      BY <2>4, <3>1
  <2> HIDE DEF n, m, z
  <2>6. t[p] = s[j]
    OBVIOUS
  <2> HIDE DEF p
  <2> QED
    BY <2>4, <2>5, <2>6
<1> QED
  BY <1>7, <1>8

\* A marker that was replaced before still shows its value.
LEMMA FilledOne ==
  ASSUME NEW s, NEW t, NEW start, NEW f, NEW l, NEW v, NEW t2, NEW new,
         Replacing(s, t, start, f, l, v, t2, new),
         NEW m, m.first \in (l + 1) .. Size(s), m.last \in (m.first + 1) .. Size(s),
         NEW u, IsIndexed(u), FillsOne(m, u, t, start)
  PROVE  FillsOne(m, u, t2, new)
<1> DEFINE n == Size(s)
           N == Size(t)
           z == Size(v)
           a == m.first
           b == m.last
           y == Size(u)
           i == a + 1
<1>1. /\ n \in Nat /\ N \in Nat /\ z \in Nat /\ y \in Nat
      /\ f \in 1 .. n /\ l \in (f + 1) .. n /\ l <= N /\ f \in Nat \ {0} /\ l \in Nat
      /\ a \in (l + 1) .. n /\ b \in (a + 1) .. n
  BY IndexedSeq DEF Replacing, Size
<1>2. /\ \A k \in 1 .. (n + 1) : start[k] \in Nat
      /\ start[n + 1] = N
      /\ \A k, h \in 1 .. (n + 1) : k <= h => start[k] <= start[h]
  BY DEF Replacing, Order
<1>4. /\ \A k \in (l + 1) .. (n + 1) : new[k] = start[k] + z - (l - f + 1)
      /\ \A k \in (l + 1) .. (n + 1) : start[k] >= l
  BY DEF Replacing, ShiftedAt
<1>5. IsReplaced(t2, t, f, l, v) /\ f <= l /\ l <= Size(t)
  BY <1>1 DEF Replacing
<1>6. \A p \in (l + 1) .. N : t2[p + z - (l - f + 1)] = t[p]
  BY <1>1, <1>5, TailMoves
<1>7. /\ start[i] = start[a] + y
      /\ \A k \in 1 .. y : t[start[a] + k] = u[k]
      /\ \A j \in i .. b : start[j + 1] = start[j]
  BY DEF FillsOne
<1>8. i \in (l + 1) .. (n + 1) /\ a \in (l + 1) .. (n + 1) /\ a \in 1 .. (n + 1) /\ i \in 1 .. (n + 1)
  BY <1>1
<1> HIDE DEF n, N, z, a, b, y, i
<1>9. /\ new[a] = start[a] + z - (l - f + 1) /\ new[i] = start[i] + z - (l - f + 1)
      /\ start[a] \in Nat /\ start[a] >= l /\ start[i] \in Nat
  BY <1>2, <1>4, <1>8
<1>10. new[i] = new[a] + y
  BY <1>1, <1>7, <1>9
<1>11. start[i] <= N
  <2>1. n + 1 \in 1 .. (n + 1) /\ i <= n + 1
    BY <1>1, <1>8
  <2> QED
    BY <1>2, <1>8, <2>1
<1>12. ASSUME NEW k \in 1 .. y
       PROVE  t2[new[a] + k] = u[k]
  <2> DEFINE p == start[a] + k
  <2>1. p \in (l + 1) .. N /\ p + z - (l - f + 1) = new[a] + k
    BY <1>1, <1>7, <1>9, <1>11
  <2>2. t[p] = u[k]
    BY <1>7
  <2> HIDE DEF p
  <2>3. t2[p + z - (l - f + 1)] = t[p]
    BY <1>6, <2>1
  <2> QED
    BY <2>1, <2>2, <2>3
<1>13. ASSUME NEW j \in i .. b
       PROVE  new[j + 1] = new[j]
  <2> DEFINE h == j + 1
  <2>1. j \in (l + 1) .. (n + 1) /\ h \in (l + 1) .. (n + 1)
    BY <1>1, <1>8
  <2>2. start[h] = start[j]
    BY <1>7
  <2> HIDE DEF h
  <2>3. new[j] = start[j] + z - (l - f + 1) /\ new[h] = start[h] + z - (l - f + 1)
    BY <1>4, <2>1
  <2> QED
    BY <2>2, <2>3 DEF h
<1> QED
  BY <1>10, <1>12, <1>13 DEF FillsOne, a, b, y, i

\* The marker just replaced shows its value.
LEMMA FilledNow ==
  ASSUME NEW s, NEW t, NEW start, NEW m, NEW v, NEW t2, NEW new,
         Replacing(s, t, start, m.first, m.last, v, t2, new)
  PROVE  FillsOne(m, v, t2, new)
<1> DEFINE n == Size(s)
           z == Size(v)
           f == m.first
           l == m.last
           i == f + 1
<1>1. n \in Nat /\ z \in Nat /\ f \in 1 .. n /\ l \in (f + 1) .. n
  BY DEF Replacing
<1>2. /\ \A k \in 1 .. f : new[k] = k - 1
      /\ \A k \in (f + 1) .. (l + 1) : new[k] = f - 1 + z
  BY DEF Replacing, ShiftedAt
<1>3. \A k \in 1 .. z : t2[f - 1 + k] = v[k]
  BY DEF Replacing, IsReplaced
<1>4. f \in 1 .. f /\ i \in (f + 1) .. (l + 1)
  BY <1>1
<1> HIDE DEF n, z, f, l, i
<1>5. new[f] = f - 1 /\ new[i] = f - 1 + z
  BY <1>2, <1>4
<1>6. ASSUME NEW j \in (f + 1) .. l
      PROVE  new[j + 1] = new[j]
  <2> DEFINE h == j + 1
  <2>1. j \in (f + 1) .. (l + 1) /\ h \in (f + 1) .. (l + 1)
    BY <1>1
  <2> HIDE DEF h
  <2>2. new[j] = f - 1 + z /\ new[h] = f - 1 + z
    BY <1>2, <2>1
  <2> QED
    BY <2>2 DEF h
<1> QED
  BY <1>3, <1>5, <1>6 DEF FillsOne, f, l, z, i

ShiftsMore(more, ds, at, by) ==
  \A pos \in Int : ShiftIn(more, pos) = ShiftIn(ds, pos) + (IF pos >= at THEN by ELSE 0)

FitsWidth(s, t, ds, k, j) == WidthTo(t, k) = WidthTo(s, j - 1) + ShiftIn(ds, WidthTo(s, j - 1))

\* The widths of a text after a replacement.
LEMMA ReplacedWidths ==
  ASSUME NEW t, IsIndexed(t), NEW v, IsIndexed(v),
         NEW f \in Nat \ {0}, NEW l \in Nat, f <= l, l <= Size(t),
         NEW t2, IsReplaced(t2, t, f, l, v)
  PROVE  /\ \A i \in 0 .. (f - 1) : WidthTo(t2, i) = WidthTo(t, i)
         /\ \A p \in l .. Size(t) :
              WidthTo(t2, p + Size(v) - (l - f + 1))
                = WidthTo(t, p) + WidthOf(v) - WidthOf(Cut(t, f, l))
<1> DEFINE n == Size(t)
           z == Size(v)
           w == f - 1 + z
<1>1. /\ n \in Nat /\ z \in Nat /\ w \in Nat /\ f \in 1 .. n /\ l \in f .. n
      /\ IsIndexed(t2) /\ Size(t2) = w + (n - l)
  BY DEF IsReplaced
<1>2. /\ \A k \in 1 .. (f - 1) : t2[k] = t[k]
      /\ \A k \in 1 .. z : t2[f - 1 + k] = v[k]
      /\ \A k \in 1 .. (n - l) : t2[w + k] = t[l + k]
  BY DEF IsReplaced
<1> HIDE DEF n, z
<1>3. /\ WidthTo(t, 0) = 0 /\ WidthTo(t2, 0) = 0 /\ WidthTo(v, 0) = 0
      /\ \A i \in 0 .. n : WidthTo(t, i) \in Int
      /\ \A i \in 0 .. (w + (n - l)) : WidthTo(t2, i) \in Int
      /\ WidthOf(v) = WidthTo(v, z) /\ WidthOf(v) \in Int
      /\ WidthOf(Cut(t, f, l)) = WidthTo(t, l) - WidthTo(t, f - 1)
  <2>1. WidthTo(t, 0) = 0 /\ \A i \in 0 .. n : WidthTo(t, i) \in Int
    BY WidthSteps DEF n
  <2>2. WidthTo(t2, 0) = 0 /\ \A i \in 0 .. (w + (n - l)) : WidthTo(t2, i) \in Int
    <3>1. WidthTo(t2, 0) = 0 /\ \A i \in 0 .. Size(t2) : WidthTo(t2, i) \in Int
      BY <1>1, WidthSteps
    <3> QED
      BY <1>1, <3>1
  <2>3. WidthTo(v, 0) = 0 /\ WidthOf(v) = WidthTo(v, z) /\ WidthOf(v) \in Int
    BY WidthSteps, WidthWhole DEF z
  <2>4. WidthOf(Cut(t, f, l)) = WidthTo(t, l) - WidthTo(t, f - 1)
    <3>1. f \in 1 .. Size(t) /\ l \in f .. Size(t)
      BY <1>1 DEF n
    <3> QED
      BY <3>1, WidthBetween
  <2> QED
    BY <2>1, <2>2, <2>3, <2>4
<1>4. ASSUME NEW i \in 0 .. (f - 1)
      PROVE  WidthTo(t2, i) = WidthTo(t, i)
  <2>1. i \in Nat /\ 0 \in Nat /\ 0 + i = i /\ i <= n /\ i <= w + (n - l)
    BY <1>1
  <2>2. 0 + i <= Size(t2) /\ 0 + i <= Size(t)
    BY <1>1, <2>1 DEF n
  <2>3. AreAlike(t2, 0, t, 0, i)
    <3>1. \A k \in 1 .. i : k \in 1 .. (f - 1) /\ 0 + k = k
      BY <2>1
    <3> QED
      BY <1>2, <3>1 DEF AreAlike
  <2>4. AreAsWide(t2, 0, t, 0, i)
    BY <1>1, <2>1, <2>2, <2>3, WidthAlong
  <2>5. WidthTo(t2, i) - 0 = WidthTo(t, i) - 0
    BY <1>3, <2>1, <2>4 DEF AreAsWide
  <2>6. WidthTo(t2, i) \in Int /\ WidthTo(t, i) \in Int
    BY <1>1, <1>3, <2>1
  <2> QED
    BY <2>5, <2>6
<1>5. WidthTo(t2, w) = WidthTo(t, f - 1) + WidthOf(v)
  <2> DEFINE x == f - 1
  <2>1. x \in Nat /\ 0 \in Nat /\ x + z = w /\ 0 + z = z /\ w <= w + (n - l) /\ x \in 0 .. (f - 1)
        /\ x \in 0 .. n /\ w \in 0 .. (w + (n - l))
    BY <1>1
  <2>2. x + z <= Size(t2) /\ 0 + z <= Size(v)
    BY <1>1, <2>1 DEF z
  <2>3. AreAlike(t2, x, v, 0, z)
    <3>1. \A k \in 1 .. z : 0 + k = k
      BY <1>1
    <3> QED
      BY <1>2, <3>1 DEF AreAlike
  <2>7. WidthTo(t2, x) = WidthTo(t, x) /\ WidthTo(t, x) \in Int /\ WidthTo(t2, w) \in Int
    BY <1>3, <1>4, <2>1
  <2> HIDE DEF x, w
  <2>4. AreAsWide(t2, x, v, 0, z)
    BY <1>1, <2>1, <2>2, <2>3, WidthAlong
  <2>5. WidthTo(t2, w) - WidthTo(t2, x) = WidthTo(v, z) - 0
    BY <1>3, <2>1, <2>4 DEF AreAsWide
  <2>6. WidthTo(t2, w) = WidthTo(t, x) + WidthOf(v)
    BY <1>3, <2>5, <2>7
  <2> QED
    BY <2>6 DEF x
<1>6. ASSUME NEW p \in l .. n
      PROVE  WidthTo(t2, p + z - (l - f + 1)) = WidthTo(t, p) + WidthOf(v) - WidthOf(Cut(t, f, l))
  <2> DEFINE c == p - l
             q == p + z - (l - f + 1)
             x == f - 1
  <2>1. /\ c \in Nat /\ w + c = q /\ l + c = p /\ w + c <= w + (n - l) /\ l + c <= n
        /\ c \in 0 .. (n - l) /\ q \in 0 .. (w + (n - l)) /\ w \in 0 .. (w + (n - l))
        /\ x \in 0 .. n /\ l \in 0 .. n /\ p \in 0 .. n /\ w \in Nat /\ l \in Nat
    BY <1>1
  <2> HIDE DEF w, c, q, x
  <2>2. w + c <= Size(t2) /\ l + c <= Size(t)
    BY <1>1, <2>1 DEF n
  <2>3. AreAlike(t2, w, t, l, c)
    <3>1. \A k \in 1 .. c : k \in 1 .. (n - l)
      BY <1>1, <2>1
    <3> QED
      BY <1>2, <3>1 DEF AreAlike
  <2>4. AreAsWide(t2, w, t, l, c)
    BY <1>1, <2>1, <2>2, <2>3, WidthAlong
  <2>5. WidthTo(t2, q) - WidthTo(t2, w) = WidthTo(t, p) - WidthTo(t, l)
    BY <2>1, <2>4 DEF AreAsWide
  <2>6. /\ WidthTo(t2, q) \in Int /\ WidthTo(t2, w) \in Int /\ WidthTo(t, p) \in Int
        /\ WidthTo(t, l) \in Int /\ WidthTo(t, x) \in Int /\ WidthOf(v) \in Int
    BY <1>3, <2>1
  <2>7. WidthTo(t2, w) = WidthTo(t, x) + WidthOf(v) /\ WidthOf(Cut(t, f, l)) = WidthTo(t, l) - WidthTo(t, x)
    BY <1>3, <1>5 DEF x
  <2>8. WidthTo(t2, q) = WidthTo(t, p) + WidthOf(v) - WidthOf(Cut(t, f, l))
    BY <2>5, <2>6, <2>7
  <2> QED
    BY <2>8 DEF q
<1> QED
  BY <1>4, <1>6 DEF n, z

\* The deltas still say where a character outside of the marker is.
LEMMA WidthsKept ==
  ASSUME NEW s, IsIndexed(s), NEW t, IsIndexed(t), NEW v, IsIndexed(v),
         NEW start, NEW f, NEW l, NEW t2, NEW new,
         Replacing(s, t, start, f, l, v, t2, new),
         \A i \in 1 .. l : t[i] = s[i],
         NEW ds, AreDeltas(ds), NEW ds2,
         ShiftsMore(ds2, ds, WidthTo(t, l), WidthOf(v) - WidthOf(Cut(t, f, l))),
         NEW j \in 1 .. (Size(s) + 1), j <= f \/ l < j, FitsWidth(s, t, ds, start[j], j)
  PROVE  FitsWidth(s, t2, ds2, new[j], j)
<1> DEFINE n == Size(s)
           m == Size(t)
           z == Size(v)
           i == j - 1
           at == WidthTo(t, l)
           by == WidthOf(v) - WidthOf(Cut(t, f, l))
           pos == WidthTo(s, i)
<1>1. /\ n \in Nat /\ m \in Nat /\ z \in Nat
      /\ f \in 1 .. n /\ l \in (f + 1) .. n /\ l <= m /\ f \in Nat \ {0} /\ l \in Nat /\ f <= l
      /\ j \in 1 .. (n + 1)
  BY DEF Replacing
<1>2. /\ \A k \in 1 .. (n + 1) : start[k] \in Nat
      /\ start[n + 1] = m
      /\ \A k, h \in 1 .. (n + 1) : k <= h => start[k] <= start[h]
  BY DEF Replacing, Order
<1>3. \A k \in 1 .. (l + 1) : start[k] = k - 1
  BY DEF Replacing, StaysUpTo
<1>4. /\ \A k \in 1 .. f : new[k] = k - 1
      /\ \A k \in (l + 1) .. (n + 1) : new[k] = start[k] + z - (l - f + 1)
      /\ \A k \in (l + 1) .. (n + 1) : start[k] >= l
  BY DEF Replacing, ShiftedAt
<1>5. /\ \A k \in 0 .. (f - 1) : WidthTo(t2, k) = WidthTo(t, k)
      /\ \A p \in l .. m : WidthTo(t2, p + z - (l - f + 1)) = WidthTo(t, p) + by
  <2>1. IsReplaced(t2, t, f, l, v) /\ l <= Size(t)
    BY <1>1 DEF Replacing
  <2>2. /\ \A k \in 0 .. (f - 1) : WidthTo(t2, k) = WidthTo(t, k)
        /\ \A p \in l .. Size(t) :
             WidthTo(t2, p + Size(v) - (l - f + 1)) = WidthTo(t, p) + WidthOf(v) - WidthOf(Cut(t, f, l))
    BY <1>1, <2>1, ReplacedWidths
  <2>3. WidthOf(v) \in Int /\ WidthOf(Cut(t, f, l)) \in Int /\ \A p \in 0 .. m : WidthTo(t, p) \in Int
    <3>1. f \in 1 .. Size(t) /\ l \in f .. Size(t)
      BY <1>1
    <3>2. WidthOf(Cut(t, f, l)) \in Int
      BY <3>1, WidthBetween
    <3> QED
      BY <3>2, WidthWhole, WidthSteps
  <2>4. \A p \in l .. m : WidthTo(t, p) + WidthOf(v) - WidthOf(Cut(t, f, l)) = WidthTo(t, p) + by
    <3>1. \A p \in l .. m : p \in 0 .. m
      BY <1>1
    <3> QED
      BY <2>3, <3>1
  <2> QED
    BY <2>2, <2>4
<1>6. by \in Int
  <2>1. f \in 1 .. Size(t) /\ l \in f .. Size(t)
    BY <1>1
  <2>2. WidthOf(Cut(t, f, l)) \in Int /\ WidthOf(v) \in Int
    BY <2>1, WidthBetween, WidthWhole
  <2> QED
    BY <2>2
<1>7. \A k \in 0 .. l : WidthTo(t, k) = WidthTo(s, k)
  <2>1. ASSUME NEW k \in 0 .. l PROVE WidthTo(t, k) = WidthTo(s, k)
    <3>1. k \in Nat /\ 0 \in Nat /\ 0 + k = k /\ k <= m /\ k <= n /\ k \in 0 .. m /\ k \in 0 .. n
      BY <1>1
    <3>2. 0 + k <= Size(t) /\ 0 + k <= Size(s)
      BY <3>1
    <3>3. AreAlike(t, 0, s, 0, k)
      <4>1. \A h \in 1 .. k : h \in 1 .. l /\ 0 + h = h
        BY <1>1, <3>1
      <4> QED
        BY <4>1 DEF AreAlike
    <3> HIDE DEF n, m
    <3>4. AreAsWide(t, 0, s, 0, k)
      BY <3>1, <3>2, <3>3, WidthAlong
    <3>5. /\ WidthTo(t, 0) = 0 /\ WidthTo(s, 0) = 0
          /\ WidthTo(t, k) \in Int /\ WidthTo(s, k) \in Int
      BY <3>1, WidthSteps DEF n, m
    <3>6. WidthTo(t, k) - 0 = WidthTo(s, k) - 0
      BY <3>1, <3>4, <3>5 DEF AreAsWide
    <3> QED
      BY <3>5, <3>6
  <2> QED
    BY <2>1
<1>8. i \in 0 .. n /\ pos \in Int /\ at = WidthTo(s, l) /\ at \in Int /\ l \in 0 .. n
  <2>1. i \in 0 .. n /\ l \in 0 .. n /\ l \in 0 .. l
    BY <1>1
  <2>2. \A k \in 0 .. n : WidthTo(s, k) \in Int
    BY WidthSteps
  <2> QED
    BY <1>7, <2>1, <2>2
<1>9. WidthTo(t, start[j]) = pos + ShiftIn(ds, pos)
  BY DEF FitsWidth
<1>10. ShiftIn(ds, pos) \in Int
  BY <1>8, ShiftType
<1>11. ShiftIn(ds2, pos) = ShiftIn(ds, pos) + (IF pos >= at THEN by ELSE 0)
  BY <1>8 DEF ShiftsMore
<1>12. \A a, b \in 0 .. n : a <= b => WidthTo(s, a) + (b - a) <= WidthTo(s, b)
  BY WidthGrows
<1>13. \A h \in 0 .. n : WidthTo(s, h) \in Int
  BY WidthSteps
<1> HIDE DEF n, m, z, i, at, by, pos
<1>14. CASE j <= f
  <2>1. j \in 1 .. f /\ j \in 1 .. (l + 1) /\ i \in 0 .. (f - 1) /\ i < l /\ i = j - 1
    BY <1>1, <1>14 DEF i
  <2>2. new[j] = i /\ start[j] = i
    BY <1>3, <1>4, <2>1
  <2>3. WidthTo(t2, new[j]) = WidthTo(t, start[j])
    BY <1>5, <2>1, <2>2
  <2>4. pos < at
    <3>1. WidthTo(s, i) + (l - i) <= WidthTo(s, l)
      BY <1>8, <1>12, <2>1
    <3>2. WidthTo(s, i) \in Int /\ WidthTo(s, l) \in Int /\ i \in Int /\ l \in Int
      BY <1>1, <1>8, <1>13
    <3> QED
      BY <1>8, <2>1, <3>1, <3>2 DEF pos
  <2>5. ShiftIn(ds2, pos) = ShiftIn(ds, pos)
    BY <1>8, <1>10, <1>11, <2>4
  <2> QED
    BY <1>9, <2>3, <2>5 DEF FitsWidth, pos, i
<1>15. CASE l < j
  <2>1. j \in (l + 1) .. (n + 1) /\ l <= i /\ i \in Int
    BY <1>1, <1>15 DEF i
  <2>2. new[j] = start[j] + z - (l - f + 1) /\ start[j] >= l
    BY <1>4, <2>1
  <2>3. start[j] \in l .. m
    <3>1. n + 1 \in 1 .. (n + 1) /\ j <= n + 1
      BY <1>1
    <3>2. start[j] <= m /\ start[j] \in Nat
      BY <1>1, <1>2, <3>1
    <3> QED
      BY <1>1, <2>2, <3>2
  <2>4. WidthTo(t2, new[j]) = WidthTo(t, start[j]) + by
    BY <1>5, <2>2, <2>3
  <2>5. pos >= at
    <3>1. WidthTo(s, l) + (i - l) <= WidthTo(s, i)
      BY <1>8, <1>12, <2>1
    <3>2. WidthTo(s, i) \in Int /\ WidthTo(s, l) \in Int /\ l \in Int
      BY <1>1, <1>8, <1>13
    <3> QED
      BY <1>8, <2>1, <3>1, <3>2 DEF pos
  <2>6. ShiftIn(ds2, pos) = ShiftIn(ds, pos) + by
    BY <1>11, <2>5
  <2>7. WidthTo(t2, new[j]) = pos + ShiftIn(ds2, pos)
    BY <1>6, <1>8, <1>9, <1>10, <2>4, <2>6
  <2> QED
    BY <2>7 DEF FitsWidth, pos, i
<1> QED
  BY <1>14, <1>15

\* What makes a marker's replacement fit: the text, its starts and its deltas.
LEMMA FitsMore ==
  ASSUME NEW s, IsIndexed(s), NEW t, IsIndexed(t),
         NEW ms, MarkersFrom(ms, 1, Size(s)), NEW k \in 1 .. Size(ms),
         NEW R, R \subseteq (k + 1) .. Size(ms),
         NEW val, IsIndexed(val[k]),
         NEW ds, AreDeltas(ds), NEW start, TextFits(s, ms, R, val, t, ds, start),
         NEW t2, IsReplaced(t2, t, ms[k].first, ms[k].last, val[k]),
         NEW ds2,
         ShiftsMore(ds2, ds, WidthTo(t, ms[k].last),
                    WidthOf(val[k]) - WidthOf(Cut(t, ms[k].first, ms[k].last)))
  PROVE  \E new : TextFits(s, ms, R \cup {k}, val, t2, ds2, new)
<1> DEFINE n == Size(s)
           f == ms[k].first
           l == ms[k].last
           v == val[k]
           z == Size(v)
           new == Shifted(start, n, f, l, z)
           Q == R \cup {k}
<1>1. n \in Nat /\ Size(t) \in Nat /\ z \in Nat /\ k \in Nat
  BY IndexedSeq DEF Size
<1>2. /\ f \in 1 .. n /\ l \in (f + 1) .. n
      /\ \A q \in R : ms[q].first \in (l + 1) .. n /\ ms[q].last \in (ms[q].first + 1) .. n
  <2>1. \A p \in 1 .. Size(ms) : ms[p].first \in 1 .. n /\ ms[p].last \in (ms[p].first + 1) .. n
    BY DEF MarkersFrom
  <2>2. \A p, q \in 1 .. Size(ms) : p < q => ms[p].last < ms[q].first
    BY DEF MarkersFrom
  <2>3. ASSUME NEW q \in R
        PROVE  ms[q].first \in (l + 1) .. n /\ ms[q].last \in (ms[q].first + 1) .. n
    <3>1. q \in 1 .. Size(ms) /\ k < q
      OBVIOUS
    <3>2. l < ms[q].first
      BY <2>2, <3>1
    <3>3. l \in Nat
      BY <2>1
    <3> QED
      BY <2>1, <3>1, <3>2, <3>3
  <2> QED
    BY <2>1, <2>3
<1>3. /\ Order(start, n, Size(t))
      /\ \A j \in 1 .. (n + 1) : AheadOf(ms, R, j) => start[j] = j - 1
      /\ Keeps(s, ms, R, t, start)
      /\ \A q \in R : IsIndexed(val[q]) /\ FillsOne(ms[q], val[q], t, start)
      /\ FitWidths(s, ms, R, t, ds, start)
  BY DEF TextFits
<1>4. IsReplaced(t2, t, f, l, v) /\ IsIndexed(v)
      /\ ShiftsMore(ds2, ds, WidthTo(t, l), WidthOf(v) - WidthOf(Cut(t, f, l)))
  OBVIOUS
<1> HIDE DEF n, f, l, v, z
<1>5. StaysUpTo(start, l + 1)
  <2>1. ASSUME NEW j \in 1 .. (l + 1) PROVE start[j] = j - 1
    <3>1. j \in 1 .. (n + 1) /\ \A q \in R : j <= ms[q].first
      BY <1>1, <1>2
    <3> QED
      BY <1>3, <3>1 DEF AheadOf
  <2> QED
    BY <2>1 DEF StaysUpTo
<1>6. Order(new, n, Size(t) + z - (l - f + 1)) /\ ShiftedAt(new, start, n, f, l, z)
  BY <1>1, <1>2, <1>3, <1>5, ShiftedIs
<1>7. l <= Size(t)
  <2> DEFINE h == l + 1
  <2>1. h \in 1 .. h /\ h \in 1 .. (n + 1) /\ n + 1 \in 1 .. (n + 1) /\ h <= n + 1 /\ h - 1 = l
    BY <1>1, <1>2
  <2> HIDE DEF h
  <2>2. start[h] = l /\ start[h] <= start[n + 1] /\ start[n + 1] = Size(t)
    BY <1>3, <1>5, <2>1 DEF Order, StaysUpTo, h
  <2> QED
    BY <2>2
<1> HIDE DEF new
<1>8. Replacing(s, t, start, f, l, v, t2, new)
  BY <1>1, <1>2, <1>3, <1>4, <1>5, <1>6, <1>7 DEF Replacing, n, z
<1>9. Order(new, n, Size(t2))
  <2>1. Size(t2) = Size(t) + z - (l - f + 1)
    BY <1>4 DEF IsReplaced, z
  <2> QED
    BY <1>6, <2>1
<1>10. \A j \in 1 .. (n + 1) : AheadOf(ms, Q, j) => new[j] = j - 1
  <2>1. ASSUME NEW j \in 1 .. (n + 1), AheadOf(ms, Q, j) PROVE new[j] = j - 1
    <3>1. j <= f
      BY <2>1 DEF AheadOf, f
    <3>2. j \in 1 .. f
      BY <1>1, <1>2, <3>1
    <3> QED
      BY <1>6, <3>2 DEF ShiftedAt
  <2> QED
    BY <2>1
<1>11. Keeps(s, ms, Q, t2, new)
  <2>1. ASSUME NEW j \in 1 .. Size(s), Spared(ms, Q, j)
        PROVE  new[j + 1] = new[j] + 1 /\ t2[new[j] + 1] = s[j]
    <3>1. j < f \/ l < j
      <4>1. ~(f <= j /\ j <= l)
        BY <2>1 DEF Spared, f, l
      <4>2. j \in Int /\ f \in Int /\ l \in Int
        BY <1>1, <1>2 DEF n
      <4> QED
        BY <4>1, <4>2
    <3>2. start[j + 1] = start[j] + 1 /\ t[start[j] + 1] = s[j]
      BY <1>3, <2>1 DEF Keeps, Spared
    <3> QED
      BY <1>8, <3>1, <3>2, KeptOne
  <2> QED
    BY <2>1 DEF Keeps
<1>12. ASSUME NEW q \in Q
       PROVE  IsIndexed(val[q]) /\ FillsOne(ms[q], val[q], t2, new)
  <2>1. CASE q = k
    <3>1. Replacing(s, t, start, ms[k].first, ms[k].last, val[k], t2, new)
      BY <1>8 DEF f, l, v
    <3> QED
      BY <1>4, <2>1, <3>1, FilledNow DEF v
  <2>2. CASE q # k
    <3>1. q \in R
      BY <2>2
    <3>2. ms[q].first \in (l + 1) .. Size(s) /\ ms[q].last \in (ms[q].first + 1) .. Size(s)
      BY <1>2, <3>1 DEF n
    <3>3. IsIndexed(val[q]) /\ FillsOne(ms[q], val[q], t, start)
      BY <1>3, <3>1
    <3> HIDE DEF Q
    <3> QED
      BY <1>8, <3>2, <3>3, FilledOne
  <2> QED
    BY <2>1, <2>2
<1>13. FitWidths(s, ms, Q, t2, ds2, new)
  <2>1. \A i \in 1 .. l : t[i] = s[i]
    <3>1. ASSUME NEW i \in 1 .. l PROVE t[i] = s[i]
      <4>1. i \in 1 .. Size(s) /\ i \in 1 .. (l + 1)
        BY <1>1, <1>2 DEF n
      <4>2. Spared(ms, R, i)
        <5>1. \A q \in R : ~(ms[q].first <= i)
          BY <1>1, <1>2
        <5> QED
          BY <5>1 DEF Spared
      <4>3. start[i] = i - 1 /\ t[start[i] + 1] = s[i]
        BY <1>3, <1>5, <4>1, <4>2 DEF Keeps, StaysUpTo
      <4>4. i - 1 + 1 = i
        BY <4>1
      <4> QED
        BY <4>3, <4>4
    <3> QED
      BY <3>1
  <2>2. ASSUME NEW j \in 1 .. (Size(s) + 1), Passable(ms, Q, j)
        PROVE  FitsWidth(s, t2, ds2, new[j], j)
    <3>1. j <= f \/ l < j
      <4>1. ~(f < j /\ j <= l)
        BY <2>2 DEF Passable, f, l
      <4>2. j \in Int /\ f \in Int /\ l \in Int
        BY <1>1, <1>2 DEF n
      <4> QED
        BY <4>1, <4>2
    <3>2. FitsWidth(s, t, ds, start[j], j)
      BY <1>3, <2>2 DEF FitWidths, Passable, FitsWidth
    <3> QED
      BY <1>4, <1>8, <2>1, <3>1, <3>2, WidthsKept
  <2> QED
    BY <2>2 DEF FitWidths, FitsWidth
<1>14. TextFits(s, ms, Q, val, t2, ds2, new)
  BY <1>9, <1>10, <1>11, <1>12, <1>13 DEF TextFits, n
<1> QED
  BY <1>14

\* As it is found, a text fits itself.
LEMMA FitsAtFirst ==
  ASSUME NEW s, IsIndexed(s), NEW ms, NEW val
  PROVE  \E start : TextFits(s, ms, {}, val, s, << >>, start)
<1> DEFINE n == Size(s)
           start == [j \in 1 .. (n + 1) |-> j - 1]
<1>1. n \in Nat
  BY IndexedSeq DEF Size
<1> HIDE DEF n
<1>2. start \in [1 .. (n + 1) -> Nat] /\ start[1] = 0 /\ start[n + 1] = n
  BY <1>1
<1>3. \A j \in 1 .. (n + 1) : start[j] = j - 1
  OBVIOUS
<1> HIDE DEF start
<1>4. Order(start, n, n)
  BY <1>1, <1>2, <1>3 DEF Order
<1>5. ASSUME NEW j \in 1 .. n
      PROVE  start[j + 1] = start[j] + 1 /\ s[start[j] + 1] = s[j]
  <2> DEFINE i == j + 1
  <2>1. j \in 1 .. (n + 1) /\ i \in 1 .. (n + 1) /\ i - 1 = j - 1 + 1 /\ j - 1 + 1 = j
    BY <1>1
  <2> HIDE DEF i
  <2>2. start[j] = j - 1 /\ start[i] = i - 1
    BY <1>3, <2>1
  <2> QED
    BY <2>1, <2>2 DEF i
<1>6. ASSUME NEW j \in 1 .. (n + 1)
      PROVE  WidthTo(s, start[j]) = WidthTo(s, j - 1) + ShiftIn(<< >>, WidthTo(s, j - 1))
  <2>1. j - 1 \in 0 .. n /\ start[j] = j - 1
    BY <1>1, <1>3
  <2>2. WidthTo(s, j - 1) \in Int
    BY <2>1, WidthSteps DEF n
  <2>3. ShiftIn(<< >>, WidthTo(s, j - 1)) = 0
    BY <2>2, ShiftNone
  <2> QED
    BY <2>1, <2>2, <2>3
<1>7. TextFits(s, ms, {}, val, s, << >>, start)
  BY <1>3, <1>4, <1>5, <1>6 DEF TextFits, Keeps, FitWidths, n
<1> QED
  BY <1>7

-----------------------------------------------------------------------------
(* What a marker gives way to.                                              *)

ResolveIn(expr, vs, missing) ==
  CASE expr = << >> -> Ok(<< >>)
    [] Len(expr) > 1 \/ expr = <<"{{">> -> Error
    [] OTHER ->
         IF expr[1] \in DOMAIN vs THEN Ok(vs[expr[1]])
         ELSE CASE missing = "error" -> Error
                [] missing = "empty" -> Ok(<< >>)
                [] missing = "keep" -> Ok(<<"{{", expr[1], "}}">>)

LEMMA ResolveSame ==
  ASSUME NEW expr
  PROVE  Resolve(expr) = ResolveIn(expr, values, onMissing)
BY DEF Resolve, ResolveIn

LEMMA ResolvedIndexed ==
  ASSUME NEW expr, NEW vs \in ValueSets, NEW missing \in MissingPolicies,
         ResolveIn(expr, vs, missing).ok
  PROVE  IsIndexed(ResolveIn(expr, vs, missing).value)
<1> DEFINE r == ResolveIn(expr, vs, missing)
           kept == <<"{{", expr[1], "}}">>
<1>1. IsIndexed(<< >>) /\ IsIndexed(kept)
  <2>1. IsIndexed(<< >>)
    BY DEF IsIndexed
  <2>2. \A a, b, c : IsIndexed(<<a, b, c>>)
    BY DEF IsIndexed
  <2> QED
    BY <2>1, <2>2
<1>2. \A key \in DOMAIN vs : IsIndexed(vs[key])
  BY LayoutAssumption
<1>3. missing = "error" \/ missing = "empty" \/ missing = "keep"
  BY LayoutAssumption
<1>4. r = Error \/ (\E v : r = Ok(v) /\ IsIndexed(v))
  <2>1. CASE expr = << >>
    <3>1. r = Ok(<< >>)
      BY <2>1 DEF ResolveIn
    <3> QED
      BY <1>1, <3>1
  <2>2. CASE expr # << >> /\ (Len(expr) > 1 \/ expr = <<"{{">>)
    <3>1. r = Error
      BY <2>2 DEF ResolveIn
    <3> QED
      BY <3>1
  <2>3. CASE expr # << >> /\ ~(Len(expr) > 1 \/ expr = <<"{{">>)
    <3>1. r = IF expr[1] \in DOMAIN vs THEN Ok(vs[expr[1]])
              ELSE CASE missing = "error" -> Error
                     [] missing = "empty" -> Ok(<< >>)
                     [] missing = "keep" -> Ok(kept)
      BY <2>3 DEF ResolveIn
    <3> HIDE DEF r, kept
    <3>2. CASE expr[1] \in DOMAIN vs
      BY <1>2, <3>1, <3>2
    <3>3. CASE expr[1] \notin DOMAIN vs
      <4>1. \/ r = Error
            \/ r = Ok(<< >>)
            \/ r = Ok(kept)
        BY <1>3, <3>1, <3>3
      <4> QED
        BY <1>1, <4>1
    <3> QED
      BY <3>2, <3>3
  <2> QED
    BY <2>1, <2>2, <2>3
<1> HIDE DEF r
<1>5. r # Error
  <2>1. ASSUME r = Error PROVE FALSE
    <3>1. r.ok
      BY DEF r
    <3> QED
      BY <2>1, <3>1 DEF Error
  <2> QED
    BY <2>1
<1>6. PICK v : r = Ok(v) /\ IsIndexed(v)
  BY <1>4, <1>5
<1>7. r.value = v
  BY <1>6 DEF Ok
<1> QED
  BY <1>6, <1>7 DEF r

-----------------------------------------------------------------------------
(* What the parser makes of a layout.                                       *)

LEMMA GlyphsIs ==
  ASSUME NEW l, IsIndexed(l)
  PROVE  /\ IsIndexed(Glyphs(l)) /\ Size(Glyphs(l)) = Size(l) /\ Size(l) \in Nat
         /\ DOMAIN l = 1 .. Size(l)
         /\ \A k \in 1 .. Size(l) : Glyphs(l)[k] = l[k].glyph
<1> DEFINE n == Size(l)
           g == Glyphs(l)
<1>1. n \in Nat /\ DOMAIN l = 1 .. n
  BY IndexedSeq DEF Size
<1> HIDE DEF n
<1>2. g = [k \in 1 .. n |-> l[k].glyph]
  BY <1>1 DEF Glyphs
<1>3. \A k \in 1 .. n : g[k] = l[k].glyph
  BY <1>2
<1>4. g = [k \in 1 .. n |-> g[k]]
  BY <1>2
<1> HIDE DEF g
<1>5. IsIndexed(g) /\ Size(g) = n
  BY <1>1, <1>4, MakeIndexed
<1> QED
  BY <1>1, <1>3, <1>5 DEF n, g

LEMMA PosIs ==
  ASSUME NEW l, IsIndexed(l), NEW k \in 1 .. Size(l)
  PROVE  PosIn(l, k) = WidthTo(Glyphs(l), k - 1) /\ PosIn(l, k) \in Nat
<1> DEFINE n == Size(l)
           i == k - 1
<1>1. IsIndexed(Glyphs(l)) /\ Size(Glyphs(l)) = n /\ n \in Nat
  BY GlyphsIs
<1>2. PosIn(l, k) = WidthTo(Glyphs(l), i)
  BY DEF PosIn, WidthTo, Cut
<1>3. i \in 0 .. n /\ 0 \in 0 .. n /\ 0 <= i /\ i \in Nat
  BY <1>1
<1> HIDE DEF n, i
<1>4. WidthTo(Glyphs(l), 0) + (i - 0) <= WidthTo(Glyphs(l), i)
  BY <1>1, <1>3, WidthGrows
<1>5. WidthTo(Glyphs(l), 0) = 0 /\ WidthTo(Glyphs(l), i) \in Int
  BY <1>1, <1>3, WidthSteps
<1>6. WidthTo(Glyphs(l), i) \in Nat
  BY <1>3, <1>4, <1>5
<1> QED
  BY <1>2, <1>6 DEF i

LEMMA TextIs ==
  ASSUME NEW l, IsIndexed(l)
  PROVE  /\ IsIndexed(TextIndices(l))
         /\ IsIndexed(TextOf(l)) /\ Size(TextOf(l)) = Size(TextIndices(l))
         /\ Size(TextOf(l)) \in Nat
         /\ \A j \in 1 .. Size(TextOf(l)) :
              /\ TextIndices(l)[j] \in 1 .. Size(l)
              /\ TextOf(l)[j] = l[TextIndices(l)[j]].glyph
<1> DEFINE S == {k \in DOMAIN l : ~IsControl(l, k)}
           at == TextIndices(l)
           n == Size(at)
           t == TextOf(l)
<1>1. Size(l) \in Nat /\ DOMAIN l = 1 .. Size(l)
  BY GlyphsIs
<1>2. Places(S) /\ S \subseteq 1 .. Size(l)
  BY <1>1 DEF Places
<1>3. at = Ascending(S)
  BY DEF TextIndices
<1> HIDE DEF S, at
<1>4. IsIndexed(at) /\ n \in Nat /\ \A j \in 1 .. n : at[j] \in S
  BY <1>2, <1>3, AscendingIs
<1>5. DOMAIN at = 1 .. n
  BY <1>4, IndexedSeq DEF Size
<1>6. t = [j \in 1 .. n |-> l[at[j]].glyph]
  BY <1>5 DEF TextOf, at
<1> HIDE DEF n
<1>7. (\A j \in 1 .. n : t[j] = l[at[j]].glyph) /\ t = [j \in 1 .. n |-> t[j]]
  BY <1>6
<1> HIDE DEF t
<1>8. IsIndexed(t) /\ Size(t) = n
  BY <1>4, <1>7, MakeIndexed DEF n
<1> QED
  BY <1>2, <1>4, <1>7, <1>8 DEF at, t, n

LEMMA ShapesIs ==
  ASSUME NEW l \in Layouts
  PROVE  /\ IsIndexed(l)
         /\ IsIndexed(Ascending(Changes(l))) /\ Places(Changes(l))
         /\ IsIndexed(ShapesOf(l)) /\ Size(ShapesOf(l)) = Size(Ascending(Changes(l)))
         /\ DOMAIN ShapesOf(l) = 1 .. Size(ShapesOf(l))
         /\ \A b \in 1 .. Size(ShapesOf(l)) :
              /\ Ascending(Changes(l))[b] \in 1 .. Size(l)
              /\ Ascending(Changes(l))[b] \in Changes(l)
              /\ ShapesOf(l)[b] = [pos |-> PosIn(l, Ascending(Changes(l))[b]),
                                   id |-> l[Ascending(Changes(l))[b]].shape]
              /\ ShapesOf(l)[b].pos \in Nat
<1> DEFINE S == Changes(l)
           at == Ascending(S)
           n == Size(at)
           h == ShapesOf(l)
<1>0. IsIndexed(l)
  BY LayoutAssumption
<1>1. Size(l) \in Nat /\ DOMAIN l = 1 .. Size(l)
  BY <1>0, GlyphsIs
<1>2. Places(S) /\ S \subseteq 1 .. Size(l)
  BY <1>1 DEF Places, Changes
<1> HIDE DEF S
<1>4. IsIndexed(at) /\ n \in Nat /\ \A j \in 1 .. n : at[j] \in S
  BY <1>2, AscendingIs
<1>5. DOMAIN at = 1 .. n
  BY <1>4, IndexedSeq DEF Size
<1>6. h = [b \in 1 .. n |-> [pos |-> PosIn(l, at[b]), id |-> l[at[b]].shape]]
  <2>1. h = [j \in DOMAIN at |-> [pos |-> PosIn(l, at[j]), id |-> l[at[j]].shape]]
    BY DEF ShapesOf, S
  <2> HIDE DEF at, h
  <2> QED
    BY <1>5, <2>1
<1> HIDE DEF n, at
<1>7. \A b \in 1 .. n : h[b] = [pos |-> PosIn(l, at[b]), id |-> l[at[b]].shape]
  BY <1>6
<1>8. h = [b \in 1 .. n |-> h[b]]
  BY <1>6
<1> HIDE DEF h
<1>9. IsIndexed(h) /\ Size(h) = n /\ DOMAIN h = 1 .. n
  BY <1>4, <1>8, MakeIndexed DEF n
<1>10. ASSUME NEW b \in 1 .. n
       PROVE  at[b] \in 1 .. Size(l) /\ h[b].pos \in Nat
  <2>1. at[b] \in 1 .. Size(l)
    BY <1>2, <1>4
  <2>2. PosIn(l, at[b]) \in Nat
    BY <1>0, <2>1, PosIs
  <2>3. h[b].pos = PosIn(l, at[b])
    <3>1. h[b] = [pos |-> PosIn(l, at[b]), id |-> l[at[b]].shape]
      BY <1>7
    <3> QED
      BY <3>1
  <2> QED
    BY <2>1, <2>2, <2>3
<1> QED
  BY <1>0, <1>2, <1>4, <1>7, <1>9, <1>10 DEF S, at, h, n

-----------------------------------------------------------------------------
(* Markers that are still to come.                                          *)

StandsIn(t, s, m) ==
  /\ m.first \in 1 .. Size(s) /\ m.last \in (m.first + 1) .. Size(s)
  /\ m.last <= Size(t)
  /\ \A i \in 1 .. m.last : t[i] = s[i]

LEMMA PrefixStands ==
  ASSUME NEW s, IsIndexed(s), NEW t, IsIndexed(t),
         NEW ms, MarkersFrom(ms, 1, Size(s)), NEW k \in 1 .. Size(ms),
         NEW R, R \subseteq (k + 1) .. Size(ms), NEW val, NEW ds,
         NEW start, TextFits(s, ms, R, val, t, ds, start)
  PROVE  StandsIn(t, s, ms[k])
<1> DEFINE n == Size(s)
           m == Size(t)
           f == ms[k].first
           l == ms[k].last
<1>1. n \in Nat /\ m \in Nat /\ k \in Nat
  BY IndexedSeq DEF Size
<1>2. /\ f \in 1 .. n /\ l \in (f + 1) .. n
      /\ \A q \in R : ms[q].first \in (l + 1) .. n
  <2>1. \A p \in 1 .. Size(ms) : ms[p].first \in 1 .. n /\ ms[p].last \in (ms[p].first + 1) .. n
    BY DEF MarkersFrom
  <2>2. \A p, q \in 1 .. Size(ms) : p < q => ms[p].last < ms[q].first
    BY DEF MarkersFrom
  <2>3. ASSUME NEW q \in R
        PROVE  ms[q].first \in (l + 1) .. n
    <3>1. q \in 1 .. Size(ms) /\ k < q
      OBVIOUS
    <3>2. l < ms[q].first
      BY <2>2, <3>1
    <3>3. l \in Nat
      BY <2>1
    <3> QED
      BY <2>1, <3>1, <3>2, <3>3
  <2> QED
    BY <2>1, <2>3
<1>3. /\ Order(start, n, m)
      /\ \A j \in 1 .. (n + 1) : AheadOf(ms, R, j) => start[j] = j - 1
      /\ Keeps(s, ms, R, t, start)
  BY DEF TextFits
<1> HIDE DEF n, m, f, l
<1>4. ASSUME NEW j \in 1 .. (l + 1)
      PROVE  j \in 1 .. (n + 1) /\ start[j] = j - 1
  <2>1. j \in 1 .. (n + 1) /\ \A q \in R : j <= ms[q].first
    BY <1>1, <1>2
  <2> QED
    BY <1>3, <2>1 DEF AheadOf
<1>5. l <= m
  <2> DEFINE h == l + 1
  <2>1. h \in 1 .. (l + 1) /\ h \in 1 .. (n + 1) /\ n + 1 \in 1 .. (n + 1) /\ h <= n + 1 /\ h - 1 = l
    BY <1>1, <1>2
  <2> HIDE DEF h
  <2>2. start[h] = l
    BY <1>4, <2>1
  <2>3. start[h] <= start[n + 1] /\ start[n + 1] = m
    BY <1>3, <2>1 DEF Order
  <2> QED
    BY <2>2, <2>3
<1>6. ASSUME NEW i \in 1 .. l PROVE t[i] = s[i]
  <2>1. i \in 1 .. Size(s) /\ i \in 1 .. (l + 1)
    BY <1>1, <1>2 DEF n
  <2>2. Spared(ms, R, i)
    <3>1. \A q \in R : ~(ms[q].first <= i)
      BY <1>1, <1>2
    <3> QED
      BY <3>1 DEF Spared
  <2>3. start[i] = i - 1 /\ t[start[i] + 1] = s[i]
    BY <1>3, <1>4, <2>1, <2>2 DEF Keeps
  <2>4. i - 1 + 1 = i
    BY <2>1
  <2> QED
    BY <2>3, <2>4
<1> QED
  BY <1>2, <1>5, <1>6 DEF n, m, f, l, StandsIn

SameTo(t, s, l) == \A i \in 1 .. l : t[i] = s[i]

LEMMA CutSame ==
  ASSUME NEW s, IsIndexed(s), NEW t, IsIndexed(t),
         NEW l \in Nat, l <= Size(s), l <= Size(t), SameTo(t, s, l),
         NEW a \in Nat \ {0}, NEW b \in Nat, b <= l, a <= b + 1
  PROVE  Cut(t, a, b) = Cut(s, a, b)
<1> DEFINE u == Cut(s, a, b)
           v == Cut(t, a, b)
           c == b - a + 1
<1>1. b <= Size(s) /\ b <= Size(t)
  <2>1. Size(s) \in Nat /\ Size(t) \in Nat
    BY IndexedSeq DEF Size
  <2> QED
    BY <2>1
<1>2. IsCut(u, s, a, b) /\ IsCut(v, t, a, b)
  BY <1>1, CutIs
<1> HIDE DEF u, v
<1>3. IsIndexed(u) /\ Size(u) = c /\ IsIndexed(v) /\ Size(v) = c
  BY <1>2 DEF IsCut
<1>4. ASSUME NEW k \in 1 .. c PROVE u[k] = v[k]
  <2> DEFINE i == a + k - 1
  <2>1. i \in 1 .. l
    OBVIOUS
  <2>2. u[k] = s[i] /\ v[k] = t[i]
    BY <1>2 DEF IsCut
  <2> HIDE DEF i
  <2> QED
    BY <2>1, <2>2 DEF SameTo
<1> HIDE DEF c
<1>5. u = v
  BY <1>3, <1>4, SameSeq
<1> QED
  BY <1>5 DEF u, v

\* A marker that still stands reads as it did.
LEMMA MarkerStands ==
  ASSUME NEW s, IsIndexed(s), NEW t, IsIndexed(t), NEW m, StandsIn(t, s, m)
  PROVE  /\ Inner(t, m) = Inner(s, m)
         /\ IsSimple(t, m) <=> IsSimple(s, m)
         /\ SubSeq(t, m.first, m.last) = SubSeq(s, m.first, m.last)
<1> DEFINE f == m.first
           l == m.last
<1>1. Size(s) \in Nat /\ Size(t) \in Nat
  BY IndexedSeq DEF Size
<1>2. /\ f \in Nat \ {0} /\ l \in Nat /\ l <= Size(s) /\ l <= Size(t)
      /\ f + 1 \in Nat \ {0} /\ l - 1 \in Nat /\ l - 1 <= l /\ f + 1 <= l - 1 + 1
      /\ f <= l + 1 /\ f + 1 \in 1 .. l /\ l <= l
  BY <1>1 DEF StandsIn
<1>3. SameTo(t, s, l)
  BY DEF StandsIn, SameTo
<1> HIDE DEF f, l
<1>4. Cut(t, f, l) = Cut(s, f, l)
  <2> DEFINE a == f
             b == l
  <2>1. a \in Nat \ {0} /\ b \in Nat /\ b <= l /\ a <= b + 1
    BY <1>2
  <2> HIDE DEF a, b
  <2>2. Cut(t, a, b) = Cut(s, a, b)
    BY <1>2, <1>3, <2>1, CutSame
  <2> QED
    BY <2>2 DEF a, b
<1>5. Cut(t, f + 1, l - 1) = Cut(s, f + 1, l - 1)
  <2> DEFINE a == f + 1
             b == l - 1
  <2>1. a \in Nat \ {0} /\ b \in Nat /\ b <= l /\ a <= b + 1
    BY <1>2
  <2> HIDE DEF a, b
  <2>2. Cut(t, a, b) = Cut(s, a, b)
    BY <1>2, <1>3, <2>1, CutSame
  <2> QED
    BY <2>2 DEF a, b
<1>6. t[f + 1] = s[f + 1]
  BY <1>2, <1>3 DEF SameTo
<1> QED
  BY <1>4, <1>5, <1>6 DEF Inner, IsSimple, Cut, f, l

-----------------------------------------------------------------------------
(* The inductive invariant.                                                 *)

ValuesIn(s, ms, vs, missing) ==
  [q \in DOMAIN ms |-> ResolveIn(Inner(s, ms[q]), vs, missing).value]
Resolves(s, m, vs, missing) == ResolveIn(Inner(s, m), vs, missing).ok
DoneIn(s, ms, k) == {q \in (k + 1) .. Size(ms) : IsSimple(s, ms[q])}

MovedIn(ds, pos) == IF pos + ShiftIn(ds, pos) < 0 THEN 0 ELSE pos + ShiftIn(ds, pos)
MovedShapes(hs, ds) ==
  [b \in DOMAIN hs |-> [pos |-> MovedIn(ds, hs[b].pos), id |-> hs[b].id]]

WrittenIn(l, t, acc, j) ==
  LET offsets == OffsetsOf(l)
      controls == ControlsOf(l)
      offset == IF j \in DOMAIN offsets THEN offsets[j] ELSE acc.end
      room == Room(offset, acc.end)
      rest == Len(controls) - acc.written
      n == IF room < rest THEN room ELSE rest
  IN [units |-> acc.units \o SubSeq(controls, acc.written + 1, acc.written + n) \o <<t[j]>>,
      written |-> acc.written + n,
      end |-> offset + Width(t[j])]

SerializedIn(l, t) ==
  LET upTo[j \in 0 .. Len(t)] ==
        IF j = 0 THEN [units |-> << >>, written |-> 0, end |-> 0]
        ELSE WrittenIn(l, t, upTo[j - 1], j)
      all == upTo[Len(t)]
      controls == ControlsOf(l)
  IN all.units \o SubSeq(controls, all.written + 1, Len(controls))

LEMMA SerializedSame == Serialized = SerializedIn(layout, text)
BY DEF Serialized, SerializedIn, Written, WrittenIn

\* The markers from the last down to the next have given way to their values.
Filling(s, ms, k, vs, missing, t, ds) ==
  /\ MarkersFrom(ms, 1, Size(s))
  /\ k \in 0 .. Size(ms)
  /\ IsIndexed(t)
  /\ AreDeltas(ds)
  /\ \A q \in DoneIn(s, ms, k) : Resolves(s, ms[q], vs, missing)
  /\ \E start : TextFits(s, ms, DoneIn(s, ms, k), ValuesIn(s, ms, vs, missing), t, ds, start)

FillInv ==
  /\ layout \in Layouts /\ values \in ValueSets /\ onMissing \in MissingPolicies
  /\ stage \in {"given", "filling", "filled", "failed", "saved"}
  /\ lineSegs \in BOOLEAN
  /\ Filling(TextOf(layout), markers, left, values, onMissing, text, deltas)
  /\ stage = "given" => text = TextOf(layout) /\ deltas = << >> /\ lineSegs
  /\ stage \in {"given", "filling", "failed"} => shapes = ShapesOf(layout)
  /\ stage = "failed" => /\ left > 0
                         /\ IsSimple(TextOf(layout), markers[left])
                         /\ ~Resolves(TextOf(layout), markers[left], values, onMissing)
  /\ stage \in {"filled", "saved"} => /\ left = 0
                                      /\ shapes = MovedShapes(ShapesOf(layout), deltas)
                                      /\ lineSegs => Size(markers) = 0
  /\ stage = "saved" => saved = SerializedIn(layout, text)

LEMMA FillingAtFirst ==
  ASSUME NEW s, IsIndexed(s), NEW vs, NEW missing, NEW ms, MarkersFrom(ms, 1, Size(s))
  PROVE  Filling(s, ms, Size(ms), vs, missing, s, << >>)
<1>1. Size(ms) \in Nat /\ Size(ms) \in 0 .. Size(ms)
  BY IndexedSeq DEF Size, MarkersFrom
<1>2. DoneIn(s, ms, Size(ms)) = {}
  BY <1>1 DEF DoneIn
<1>3. \E start : TextFits(s, ms, {}, ValuesIn(s, ms, vs, missing), s, << >>, start)
  BY FitsAtFirst
<1>4. AreDeltas(<< >>)
  <2>1. 0 \in Int
    OBVIOUS
  <2> QED
    BY <2>1, ShiftNone
<1> QED
  BY <1>1, <1>2, <1>3, <1>4 DEF Filling

LEMMA MovedNowhere ==
  ASSUME NEW l \in Layouts
  PROVE  ShapesOf(l) = MovedShapes(ShapesOf(l), << >>)
<1> DEFINE hs == ShapesOf(l)
           n == Size(hs)
           at == Ascending(Changes(l))
           ms == MovedShapes(hs, << >>)
<1>1. IsIndexed(hs) /\ DOMAIN hs = 1 .. n
      /\ \A b \in 1 .. n : hs[b] = [pos |-> PosIn(l, at[b]), id |-> l[at[b]].shape] /\ hs[b].pos \in Nat
  BY ShapesIs
<1> HIDE DEF hs, at
<1>2. ASSUME NEW b \in DOMAIN hs
      PROVE  ms[b] = hs[b]
  <2>1. hs[b].pos \in Nat
    BY <1>1
  <2>2. ShiftIn(<< >>, hs[b].pos) = 0
    BY <2>1, ShiftNone
  <2>3. MovedIn(<< >>, hs[b].pos) = hs[b].pos
    BY <2>1, <2>2 DEF MovedIn
  <2>4. ms[b] = [pos |-> hs[b].pos, id |-> hs[b].id]
    BY <2>3 DEF MovedShapes
  <2>5. hs[b] = [pos |-> hs[b].pos, id |-> hs[b].id]
    <3>1. hs[b] = [pos |-> PosIn(l, at[b]), id |-> l[at[b]].shape]
      BY <1>1
    <3> QED
      BY <3>1
  <2> QED
    BY <2>4, <2>5
<1>3. hs = [b \in DOMAIN hs |-> hs[b]]
  BY <1>1 DEF IsIndexed, Size
<1>4. ms = [b \in DOMAIN hs |-> ms[b]]
  BY DEF MovedShapes
<1> HIDE DEF ms
<1>5. hs = ms
  BY <1>2, <1>3, <1>4
<1> QED
  BY <1>5 DEF hs, ms

LEMMA InitFills == TextInit => FillInv
<1> SUFFICES ASSUME TextInit PROVE FillInv
  OBVIOUS
<1> USE DEF TextInit
<1>1. layout \in Layouts
  OBVIOUS
<1>2. IsIndexed(layout)
  BY <1>1, LayoutAssumption
<1>3. IsIndexed(TextOf(layout)) /\ Size(TextOf(layout)) \in Nat
  BY <1>2, TextIs
<1>4. MarkersFrom(<< >>, 1, Size(TextOf(layout))) /\ Size(<< >>) = 0
  BY DEF MarkersFrom, IsIndexed, Size
<1>5. Filling(TextOf(layout), markers, left, values, onMissing, text, deltas)
  <2> DEFINE s == TextOf(layout)
             ms == << >>
  <2>1. IsIndexed(s) /\ MarkersFrom(ms, 1, Size(s)) /\ Size(ms) = 0
    BY <1>3, <1>4
  <2>2. markers = ms /\ left = 0 /\ text = s /\ deltas = << >>
    OBVIOUS
  <2> HIDE DEF s, ms
  <2>3. Filling(s, ms, Size(ms), values, onMissing, s, << >>)
    BY <2>1, FillingAtFirst
  <2> QED
    BY <2>1, <2>2, <2>3 DEF s
<1> QED
  BY <1>5 DEF FillInv

LEMMA FillingStands ==
  ASSUME NEW s, IsIndexed(s), NEW ms, NEW k, NEW vs, NEW missing, NEW t, NEW ds,
         Filling(s, ms, k, vs, missing, t, ds), NEW p \in 1 .. k
  PROVE  /\ p \in 1 .. Size(ms)
         /\ ms[p].first \in 1 .. Size(s) /\ ms[p].last \in (ms[p].first + 1) .. Size(s)
         /\ ms[p].last <= Size(t)
         /\ Inner(t, ms[p]) = Inner(s, ms[p])
         /\ IsSimple(t, ms[p]) <=> IsSimple(s, ms[p])
         /\ SubSeq(t, ms[p].first, ms[p].last) = SubSeq(s, ms[p].first, ms[p].last)
<1> DEFINE R == DoneIn(s, ms, k)
           val == ValuesIn(s, ms, vs, missing)
<1>1. MarkersFrom(ms, 1, Size(s)) /\ k \in 0 .. Size(ms) /\ IsIndexed(t)
  BY DEF Filling
<1>2. PICK start : TextFits(s, ms, R, val, t, ds, start)
  BY DEF Filling
<1>3. Size(ms) \in Nat
  BY <1>1, IndexedSeq DEF Size, MarkersFrom
<1>4. p \in 1 .. Size(ms) /\ R \subseteq (p + 1) .. Size(ms)
  BY <1>1, <1>3 DEF DoneIn
<1> HIDE DEF R, val
<1>5. StandsIn(t, s, ms[p])
  BY <1>1, <1>2, <1>4, PrefixStands
<1>6. /\ Inner(t, ms[p]) = Inner(s, ms[p])
      /\ IsSimple(t, ms[p]) <=> IsSimple(s, ms[p])
      /\ SubSeq(t, ms[p].first, ms[p].last) = SubSeq(s, ms[p].first, ms[p].last)
  <2> DEFINE m == ms[p]
  <2>1. StandsIn(t, s, m)
    BY <1>5
  <2> HIDE DEF m
  <2>2. /\ Inner(t, m) = Inner(s, m)
        /\ IsSimple(t, m) <=> IsSimple(s, m)
        /\ SubSeq(t, m.first, m.last) = SubSeq(s, m.first, m.last)
    BY <1>1, <2>1, MarkerStands
  <2> QED
    BY <2>2 DEF m
<1> QED
  BY <1>4, <1>5, <1>6 DEF StandsIn

LEMMA FillingSkips ==
  ASSUME NEW s, NEW ms, NEW k, NEW vs, NEW missing, NEW t, NEW ds,
         Filling(s, ms, k, vs, missing, t, ds), k > 0, ~IsSimple(s, ms[k])
  PROVE  Filling(s, ms, k - 1, vs, missing, t, ds)
<1>1. k \in 0 .. Size(ms) /\ IsIndexed(ms)
  BY DEF Filling, MarkersFrom
<1>2. Size(ms) \in Nat
  BY <1>1, IndexedSeq DEF Size
<1>3. k - 1 \in 0 .. Size(ms)
  BY <1>1, <1>2
<1>4. DoneIn(s, ms, k - 1) = DoneIn(s, ms, k)
  <2>1. ASSUME NEW q \in (k - 1 + 1) .. Size(ms), IsSimple(s, ms[q])
        PROVE  q \in (k + 1) .. Size(ms)
    <3>1. q # k
      BY <2>1
    <3> QED
      BY <1>1, <1>2, <3>1
  <2>2. \A q \in (k + 1) .. Size(ms) : q \in (k - 1 + 1) .. Size(ms)
    BY <1>1, <1>2
  <2> QED
    BY <2>1, <2>2 DEF DoneIn
<1> QED
  BY <1>3, <1>4 DEF Filling

\* Replacing the next marker keeps Filling.
LEMMA FillingReplaces ==
  ASSUME NEW s, IsIndexed(s), NEW ms, NEW k, NEW vs \in ValueSets, NEW missing \in MissingPolicies,
         NEW t, NEW ds,
         Filling(s, ms, k, vs, missing, t, ds), k > 0, IsSimple(s, ms[k]),
         Resolves(s, ms[k], vs, missing),
         NEW v, v = ResolveIn(Inner(s, ms[k]), vs, missing).value,
         NEW t2, IsReplaced(t2, t, ms[k].first, ms[k].last, v),
         NEW ds2, AreDeltas(ds2),
         ShiftsMore(ds2, ds, WidthTo(t, ms[k].last),
                    WidthOf(v) - WidthOf(Cut(t, ms[k].first, ms[k].last)))
  PROVE  Filling(s, ms, k - 1, vs, missing, t2, ds2)
<1> DEFINE R == DoneIn(s, ms, k)
           val == ValuesIn(s, ms, vs, missing)
<1>1. /\ MarkersFrom(ms, 1, Size(s)) /\ k \in 0 .. Size(ms) /\ IsIndexed(t) /\ AreDeltas(ds)
      /\ \A q \in R : Resolves(s, ms[q], vs, missing)
  BY DEF Filling
<1>2. PICK start : TextFits(s, ms, R, val, t, ds, start)
  BY DEF Filling
<1>3. Size(ms) \in Nat /\ DOMAIN ms = 1 .. Size(ms)
  BY <1>1, IndexedSeq DEF Size, MarkersFrom
<1>4. k \in 1 .. Size(ms) /\ k - 1 \in 0 .. Size(ms) /\ R \subseteq (k + 1) .. Size(ms)
  BY <1>1, <1>3 DEF DoneIn
<1>5. val[k] = v
  BY <1>3, <1>4 DEF ValuesIn
<1>6. IsIndexed(val[k])
  <2>1. IsIndexed(v)
    BY ResolvedIndexed DEF Resolves
  <2> QED
    BY <1>5, <2>1
<1>7. /\ IsReplaced(t2, t, ms[k].first, ms[k].last, val[k])
      /\ ShiftsMore(ds2, ds, WidthTo(t, ms[k].last),
                    WidthOf(val[k]) - WidthOf(Cut(t, ms[k].first, ms[k].last)))
  BY <1>5
<1> HIDE DEF R, val
<1>8. PICK new : TextFits(s, ms, R \cup {k}, val, t2, ds2, new)
  BY <1>1, <1>2, <1>4, <1>6, <1>7, FitsMore
<1>9. DoneIn(s, ms, k - 1) = R \cup {k}
  <2>1. ASSUME NEW q \in (k - 1 + 1) .. Size(ms), q # k
        PROVE  q \in (k + 1) .. Size(ms)
    BY <1>3, <1>4, <2>1
  <2>2. \A q \in (k + 1) .. Size(ms) : q \in (k - 1 + 1) .. Size(ms)
    BY <1>3, <1>4
  <2>3. k \in (k - 1 + 1) .. Size(ms)
    BY <1>3, <1>4
  <2> QED
    BY <2>1, <2>2, <2>3 DEF DoneIn, R
<1>10. \A q \in R \cup {k} : Resolves(s, ms[q], vs, missing)
  BY <1>1
<1>11. IsIndexed(t2)
  BY DEF IsReplaced
<1> QED
  BY <1>1, <1>4, <1>8, <1>9, <1>10, <1>11 DEF Filling, val

-----------------------------------------------------------------------------
(* Every action keeps it.                                                   *)

LEMMA TextGiven ==
  ASSUME FillInv
  PROVE  /\ IsIndexed(layout) /\ IsIndexed(TextOf(layout))
         /\ Filling(TextOf(layout), markers, left, values, onMissing, text, deltas)
         /\ IsIndexed(text) /\ IsIndexed(markers) /\ Size(markers) \in Nat
         /\ left \in 0 .. Size(markers)
<1>1. layout \in Layouts /\ Filling(TextOf(layout), markers, left, values, onMissing, text, deltas)
  BY DEF FillInv
<1>2. IsIndexed(layout)
  BY <1>1, LayoutAssumption
<1>3. IsIndexed(TextOf(layout))
  BY <1>2, TextIs
<1>4. IsIndexed(text) /\ IsIndexed(markers) /\ left \in 0 .. Size(markers)
  BY <1>1 DEF Filling, MarkersFrom
<1>5. Size(markers) \in Nat
  BY <1>4, IndexedSeq DEF Size
<1> QED
  BY <1>1, <1>2, <1>3, <1>4, <1>5

\* The next marker to be replaced reads as it was found.
LEMMA NextReads ==
  ASSUME FillInv, left > 0
  PROVE  /\ left \in 1 .. Size(markers)
         /\ markers[left].first \in 1 .. Size(text)
         /\ markers[left].last \in (markers[left].first + 1) .. Size(text)
         /\ IsSimple(text, NextMarker) <=> IsSimple(TextOf(layout), markers[left])
         /\ Resolve(Inner(text, NextMarker))
              = ResolveIn(Inner(TextOf(layout), markers[left]), values, onMissing)
<1> DEFINE s == TextOf(layout)
           m == markers[left]
<1>1. /\ IsIndexed(s) /\ Filling(s, markers, left, values, onMissing, text, deltas)
      /\ left \in 0 .. Size(markers) /\ Size(markers) \in Nat /\ IsIndexed(text)
  BY TextGiven
<1>2. left \in 1 .. left
  BY <1>1
<1> HIDE DEF s
<1>3. /\ left \in 1 .. Size(markers)
      /\ m.first \in 1 .. Size(s) /\ m.last \in (m.first + 1) .. Size(s) /\ m.last <= Size(text)
      /\ Inner(text, m) = Inner(s, m)
      /\ IsSimple(text, m) <=> IsSimple(s, m)
  BY <1>1, <1>2, FillingStands
<1>4. Size(s) \in Nat /\ Size(text) \in Nat
  BY <1>1, IndexedSeq DEF Size
<1>5. m.first \in 1 .. Size(text) /\ m.last \in (m.first + 1) .. Size(text)
  <2> HIDE DEF m
  <2> QED
    BY <1>3, <1>4
<1>6. Resolve(Inner(text, m)) = ResolveIn(Inner(s, m), values, onMissing)
  <2>1. PICK expr : expr = Inner(s, m)
    OBVIOUS
  <2>2. Inner(text, m) = expr
    BY <1>3, <2>1
  <2>3. Resolve(expr) = ResolveIn(expr, values, onMissing)
    BY ResolveSame
  <2> QED
    BY <2>1, <2>2, <2>3
<1>7. IsSimple(text, m) <=> IsSimple(s, m)
  BY <1>3
<1> QED
  BY <1>3, <1>5, <1>6, <1>7 DEF NextMarker, s, m

LEMMA FindMarkersFills ==
  ASSUME FillInv, FindMarkers
  PROVE  FillInv'
<1> DEFINE s == TextOf(layout)
<1>1. /\ layout' = layout /\ values' = values /\ onMissing' = onMissing /\ text' = text
      /\ shapes' = shapes /\ lineSegs' = lineSegs /\ deltas' = deltas
      /\ markers' = MarkersOf(text) /\ left' = Len(markers')
      /\ stage' = IF markers' = << >> THEN "filled" ELSE "filling"
      /\ stage = "given"
  BY DEF FindMarkers
<1>2. text = s /\ deltas = << >> /\ shapes = ShapesOf(layout) /\ layout \in Layouts
  BY <1>1 DEF FillInv
<1>3. IsIndexed(s)
  BY TextGiven
<1> HIDE DEF s
<1>4. PICK ms : ms = MarkersOf(s) /\ MarkersFrom(ms, 1, Size(s))
  BY <1>3, MarkersOfIs
<1>5. markers' = ms /\ left' = Size(ms)
  BY <1>1, <1>2, <1>4 DEF Size
<1>6. Filling(s, ms, Size(ms), values, onMissing, s, << >>)
  BY <1>3, <1>4, FillingAtFirst
<1>7. Filling(s, markers, left, values, onMissing, text, deltas)'
  BY <1>1, <1>2, <1>5, <1>6 DEF s
<1>8. shapes = MovedShapes(ShapesOf(layout), << >>)
  BY <1>2, MovedNowhere
<1>9. ms = << >> => Size(ms) = 0
  BY DEF Size
<1>10. CASE ms = << >>
  BY <1>1, <1>2, <1>5, <1>7, <1>8, <1>9, <1>10 DEF FillInv, s
<1>11. CASE ms # << >>
  <2>1. stage' = "filling"
    BY <1>1, <1>5, <1>11
  <2> QED
    BY <1>1, <1>2, <1>7, <2>1 DEF FillInv, s
<1> QED
  BY <1>10, <1>11

LEMMA SkipMarkerFills ==
  ASSUME FillInv, SkipMarker
  PROVE  FillInv'
<1> DEFINE s == TextOf(layout)
<1>1. /\ layout' = layout /\ values' = values /\ onMissing' = onMissing /\ text' = text
      /\ shapes' = shapes /\ lineSegs' = lineSegs /\ deltas' = deltas /\ markers' = markers
      /\ stage' = stage /\ left' = left - 1 /\ stage = "filling" /\ left > 0
      /\ ~IsSimple(text, NextMarker)
  BY DEF SkipMarker
<1>2. ~IsSimple(s, markers[left])
  BY <1>1, NextReads
<1>3. Filling(s, markers, left, values, onMissing, text, deltas)
  BY TextGiven
<1> HIDE DEF s
<1>4. Filling(s, markers, left - 1, values, onMissing, text, deltas)
  BY <1>1, <1>2, <1>3, FillingSkips
<1>5. Filling(s, markers, left, values, onMissing, text, deltas)'
  BY <1>1, <1>4 DEF s
<1> QED
  BY <1>1, <1>5 DEF FillInv, s

LEMMA ReplaceMarkerFills ==
  ASSUME FillInv, ReplaceMarker
  PROVE  FillInv'
<1> DEFINE s == TextOf(layout)
           m == markers[left]
           v == Resolve(Inner(text, m)).value
           by == WidthOf(v) - WidthOf(Cut(text, m.first, m.last))
           shift == [at |-> WidthTo(text, m.last), by |-> by]
<1>1. /\ layout' = layout /\ values' = values /\ onMissing' = onMissing
      /\ shapes' = shapes /\ lineSegs' = lineSegs /\ markers' = markers
      /\ stage' = stage /\ left' = left - 1 /\ stage = "filling" /\ left > 0
      /\ IsSimple(text, m) /\ Resolve(Inner(text, m)).ok
  BY DEF ReplaceMarker, NextMarker
<1>2. text' = Joined(Joined(Cut(text, 1, m.first - 1), v), Cut(text, m.last + 1, Size(text)))
  BY DEF ReplaceMarker, NextMarker, Joined, Cut, Size
<1>3. deltas' = IF by = 0 THEN deltas ELSE Append(deltas, shift)
  BY DEF ReplaceMarker, NextMarker, Shift, Cut, WidthTo
<1>4. /\ left \in 1 .. Size(markers)
      /\ m.first \in 1 .. Size(text) /\ m.last \in (m.first + 1) .. Size(text)
      /\ IsSimple(s, m)
      /\ Resolve(Inner(text, m)) = ResolveIn(Inner(s, m), values, onMissing)
  BY <1>1, NextReads DEF NextMarker
<1>5. /\ IsIndexed(s) /\ IsIndexed(text) /\ values \in ValueSets /\ onMissing \in MissingPolicies
      /\ Filling(s, markers, left, values, onMissing, text, deltas)
  BY TextGiven DEF FillInv
<1>6. v = ResolveIn(Inner(s, m), values, onMissing).value /\ Resolves(s, m, values, onMissing)
  BY <1>1, <1>4 DEF Resolves
<1>7. IsIndexed(v)
  <2> HIDE DEF s, m, v
  <2> QED
    BY <1>5, <1>6, ResolvedIndexed DEF Resolves
<1>8. AreDeltas(deltas) /\ Size(text) \in Nat
  BY <1>5, IndexedSeq DEF Filling, Size
<1> HIDE DEF s, m, v
<1>9. m.last \in m.first .. Size(text) /\ m.last \in 0 .. Size(text)
  BY <1>4, <1>8
<1>10. IsReplaced(text', text, m.first, m.last, v)
  BY <1>2, <1>4, <1>5, <1>7, <1>9, ReplacedIs
<1>11. by \in Int /\ WidthTo(text, m.last) \in Nat
  <2>1. WidthOf(v) \in Int
    BY <1>7, WidthWhole
  <2>2. WidthOf(Cut(text, m.first, m.last)) \in Int
    BY <1>4, <1>5, <1>9, WidthBetween
  <2>3. 0 \in 0 .. Size(text) /\ 0 <= m.last
    BY <1>8, <1>9
  <2>4. WidthTo(text, 0) + (m.last - 0) <= WidthTo(text, m.last)
    BY <1>5, <1>9, <2>3, WidthGrows
  <2>5. WidthTo(text, 0) = 0 /\ WidthTo(text, m.last) \in Int
    BY <1>5, <1>9, WidthSteps
  <2>6. WidthTo(text, m.last) \in Nat
    BY <1>9, <2>4, <2>5
  <2> QED
    BY <2>1, <2>2, <2>6
<1>12. AreDeltas(deltas') /\ ShiftsMore(deltas', deltas, WidthTo(text, m.last), by)
  <2>1. CASE by = 0
    <3>1. deltas' = deltas
      BY <1>3, <2>1
    <3>2. ASSUME NEW pos \in Int
          PROVE  ShiftIn(deltas, pos) = ShiftIn(deltas, pos) + (IF pos >= WidthTo(text, m.last) THEN by ELSE 0)
      <4>1. ShiftIn(deltas, pos) \in Int
        BY <1>8, ShiftType
      <4> QED
        BY <2>1, <4>1
    <3>3. ShiftsMore(deltas, deltas, WidthTo(text, m.last), by)
      BY <3>2 DEF ShiftsMore
    <3> QED
      BY <1>8, <3>1, <3>3
  <2>2. CASE by # 0
    <3>1. deltas' = Append(deltas, shift)
      BY <1>3, <2>2
    <3>2. shift.at \in Nat /\ shift.by \in Int /\ shift.at = WidthTo(text, m.last) /\ shift.by = by
      BY <1>11
    <3> HIDE DEF shift, by
    <3>3. IsAppended(Append(deltas, shift), deltas, shift)
      BY <1>8, AppendIs DEF AreDeltas
    <3>4. PICK more : more = Append(deltas, shift) /\ IsAppended(more, deltas, shift)
      BY <3>3
    <3>5. AreDeltas(more) /\ \A pos \in Int : ShiftIn(more, pos) = ShiftIn(deltas, pos) + ShiftOf(shift, pos)
      BY <1>8, <3>2, <3>4, ShiftMore
    <3>6. ShiftsMore(more, deltas, WidthTo(text, m.last), by)
      BY <3>2, <3>5 DEF ShiftsMore, ShiftOf
    <3> QED
      BY <3>1, <3>4, <3>5, <3>6
  <2> QED
    BY <2>1, <2>2
<1>13. PICK t2 : t2 = text' /\ IsReplaced(t2, text, m.first, m.last, v)
  BY <1>10
<1>14. PICK ds2 : ds2 = deltas' /\ AreDeltas(ds2) /\ ShiftsMore(ds2, deltas, WidthTo(text, m.last), by)
  BY <1>12
<1>15. Filling(s, markers, left - 1, values, onMissing, t2, ds2)
  BY <1>1, <1>4, <1>5, <1>6, <1>13, <1>14, FillingReplaces DEF m
<1>16. Filling(s, markers, left, values, onMissing, text, deltas)'
  BY <1>1, <1>13, <1>14, <1>15 DEF s
<1> QED
  BY <1>1, <1>16 DEF FillInv, s

LEMMA ReplaceFailsFills ==
  ASSUME FillInv, ReplaceFails
  PROVE  FillInv'
<1> DEFINE s == TextOf(layout)
           m == markers[left]
<1>1. /\ layout' = layout /\ values' = values /\ onMissing' = onMissing /\ text' = text
      /\ shapes' = shapes /\ lineSegs' = lineSegs /\ deltas' = deltas /\ markers' = markers
      /\ left' = left /\ stage' = "failed" /\ stage = "filling" /\ left > 0
      /\ IsSimple(text, NextMarker) /\ ~Resolve(Inner(text, NextMarker)).ok
  BY DEF ReplaceFails
<1>2. IsSimple(s, m) /\ ~Resolves(s, m, values, onMissing)
  BY <1>1, NextReads DEF Resolves
<1>3. Filling(s, markers, left, values, onMissing, text, deltas)
  BY TextGiven
<1>4. Filling(s, markers, left, values, onMissing, text, deltas)'
  BY <1>1, <1>3
<1>5. (IsSimple(s, m) /\ ~Resolves(s, m, values, onMissing))'
  BY <1>1, <1>2
<1> QED
  BY <1>1, <1>4, <1>5 DEF FillInv

LEMMA MovedSame ==
  ASSUME NEW pos
  PROVE  Moved(pos) = MovedIn(deltas, pos)
BY DEF Moved, MovedIn, ShiftIn, ShiftOf

LEMMA AdjustShapesFills ==
  ASSUME FillInv, AdjustShapes
  PROVE  FillInv'
<1> DEFINE s == TextOf(layout)
<1>1. /\ layout' = layout /\ values' = values /\ onMissing' = onMissing /\ text' = text
      /\ lineSegs' = FALSE /\ deltas' = deltas /\ markers' = markers
      /\ left' = left /\ stage' = "filled" /\ stage = "filling" /\ left = 0
      /\ shapes' = [k \in DOMAIN shapes |-> [shapes[k] EXCEPT !.pos = Moved(shapes[k].pos)]]
  BY DEF AdjustShapes, LinesAfter
<1>2. shapes = ShapesOf(layout) /\ layout \in Layouts
  BY <1>1 DEF FillInv
<1>3. shapes' = MovedShapes(ShapesOf(layout), deltas)
  <2> DEFINE hs == ShapesOf(layout)
             at == Ascending(Changes(layout))
  <2>1. /\ DOMAIN hs = 1 .. Size(hs)
        /\ \A b \in 1 .. Size(hs) :
             hs[b] = [pos |-> PosIn(layout, at[b]), id |-> layout[at[b]].shape]
    BY <1>2, ShapesIs
  <2>2. shapes = hs
    BY <1>2
  <2> HIDE DEF hs, at
  <2>3. ASSUME NEW b \in DOMAIN hs
        PROVE  [hs[b] EXCEPT !.pos = Moved(hs[b].pos)]
                 = [pos |-> MovedIn(deltas, hs[b].pos), id |-> hs[b].id]
    <3>1. hs[b] = [pos |-> PosIn(layout, at[b]), id |-> layout[at[b]].shape]
      BY <2>1
    <3>2. Moved(hs[b].pos) = MovedIn(deltas, hs[b].pos)
      BY MovedSame
    <3> QED
      BY <3>1, <3>2
  <2>4. shapes' = [b \in DOMAIN hs |-> [hs[b] EXCEPT !.pos = Moved(hs[b].pos)]]
    BY <1>1, <2>2
  <2> QED
    BY <2>3, <2>4 DEF MovedShapes, hs
<1>4. Filling(s, markers, left, values, onMissing, text, deltas)
  BY TextGiven
<1>5. Filling(s, markers, left, values, onMissing, text, deltas)'
  BY <1>1, <1>4
<1>6. (shapes = MovedShapes(ShapesOf(layout), deltas))'
  BY <1>1, <1>3
<1> QED
  BY <1>1, <1>5, <1>6 DEF FillInv

LEMMA SaveTextFills ==
  ASSUME FillInv, SaveText
  PROVE  FillInv'
<1> DEFINE s == TextOf(layout)
<1>1. /\ layout' = layout /\ values' = values /\ onMissing' = onMissing /\ text' = text
      /\ shapes' = shapes /\ lineSegs' = lineSegs /\ deltas' = deltas /\ markers' = markers
      /\ left' = left /\ stage' = "saved" /\ stage = "filled" /\ saved' = Serialized
  BY DEF SaveText
<1>2. (saved = SerializedIn(layout, text))'
  BY <1>1, SerializedSame
<1>3. Filling(s, markers, left, values, onMissing, text, deltas)
  BY TextGiven
<1>4. Filling(s, markers, left, values, onMissing, text, deltas)'
  BY <1>1, <1>3
<1> QED
  BY <1>1, <1>2, <1>4 DEF FillInv

LEMMA StaysFilled ==
  ASSUME FillInv, UNCHANGED textVars
  PROVE  FillInv'
<1>1. /\ layout' = layout /\ values' = values /\ onMissing' = onMissing /\ text' = text
      /\ shapes' = shapes /\ lineSegs' = lineSegs /\ deltas' = deltas /\ markers' = markers
      /\ left' = left /\ stage' = stage /\ saved' = saved
  BY DEF textVars
<1> QED
  BY <1>1 DEF FillInv

\* FillInv is inductive.
LEMMA TextStep ==
  ASSUME FillInv, [TextNext]_textVars
  PROVE  FillInv'
<1>1. CASE FindMarkers BY <1>1, FindMarkersFills
<1>2. CASE SkipMarker BY <1>2, SkipMarkerFills
<1>3. CASE ReplaceMarker BY <1>3, ReplaceMarkerFills
<1>4. CASE ReplaceFails BY <1>4, ReplaceFailsFills
<1>5. CASE AdjustShapes BY <1>5, AdjustShapesFills
<1>6. CASE SaveText BY <1>6, SaveTextFills
<1>7. CASE TextDone BY <1>7, StaysFilled DEF TextDone
<1>8. CASE UNCHANGED textVars BY <1>8, StaysFilled
<1> QED
  BY <1>1, <1>2, <1>3, <1>4, <1>5, <1>6, <1>7, <1>8 DEF TextNext


-----------------------------------------------------------------------------
(* Types, the markers still to come, and failures.                          *)

\* Without replacements the text is what it was.
LEMMA FitsNothing ==
  ASSUME NEW s, IsIndexed(s), NEW t, IsIndexed(t), NEW ms, NEW val, NEW ds, NEW start,
         TextFits(s, ms, {}, val, t, ds, start)
  PROVE  t = s
<1> DEFINE n == Size(s)
<1>1. n \in Nat
  BY GlyphsIs DEF n
<1>2. \A j \in 1 .. (n + 1) : start[j] = j - 1
  BY DEF TextFits, AheadOf, n
<1>3. start[n + 1] = Size(t)
  BY DEF TextFits, Order, n
<1>4. Size(t) = n
  <2>1. n + 1 \in 1 .. (n + 1)
    BY <1>1
  <2> HIDE DEF n
  <2> QED
    BY <1>1, <1>2, <1>3, <2>1
<1>5. \A j \in 1 .. n : t[start[j] + 1] = s[j]
  BY DEF TextFits, Keeps, Spared, n
<1>6. \A j \in 1 .. n : t[j] = s[j]
  <2>1. \A j \in 1 .. n : j \in 1 .. (n + 1) /\ (j - 1) + 1 = j
    BY <1>1
  <2> HIDE DEF n
  <2> QED
    BY <1>2, <1>5, <2>1
<1> QED
  BY <1>4, <1>6, SameSeq DEF n

LEMMA ShapesPlaced ==
  ASSUME NEW l \in Layouts, NEW ds, AreDeltas(ds)
  PROVE  /\ \A b \in DOMAIN ShapesOf(l) : ShapesOf(l)[b].pos \in Nat
         /\ \A b \in DOMAIN MovedShapes(ShapesOf(l), ds) :
              MovedShapes(ShapesOf(l), ds)[b].pos \in Nat
<1>1. \A b \in DOMAIN ShapesOf(l) : ShapesOf(l)[b].pos \in Nat
  BY ShapesIs
<1>2. \A pos \in Nat : MovedIn(ds, pos) \in Nat
  <2>1. ASSUME NEW pos \in Nat PROVE MovedIn(ds, pos) \in Nat
    <3>1. ShiftIn(ds, pos) \in Int
      BY ShiftType
    <3> QED
      BY <3>1 DEF MovedIn
  <2> QED
    BY <2>1
<1> QED
  BY <1>1, <1>2 DEF MovedShapes

LEMMA TypesFollow ==
  ASSUME FillInv
  PROVE  TextTypeOK
<1>1. left \in 0 .. Len(markers)
  BY TextGiven DEF Size
<1>2. AreDeltas(deltas)
  BY TextGiven DEF Filling
<1>3. \A k \in DOMAIN deltas : deltas[k].at \in Nat /\ deltas[k].by \in Int
  BY <1>2, IndexedSeq DEF AreDeltas, Size
<1>4. \A k \in DOMAIN shapes : shapes[k].pos \in Nat
  <2>1. layout \in Layouts
    BY DEF FillInv
  <2>2. shapes = ShapesOf(layout) \/ shapes = MovedShapes(ShapesOf(layout), deltas)
    BY DEF FillInv
  <2> QED
    BY <1>2, <2>1, <2>2, ShapesPlaced
<1>5. ASSUME stage \in {"filled", "saved"}, lineSegs
      PROVE  text = TextOf(layout)
  <2>1. left = 0 /\ Size(markers) = 0
    BY <1>5 DEF FillInv
  <2>2. DoneIn(TextOf(layout), markers, left) = {}
    BY <2>1 DEF DoneIn
  <2>3. PICK start : TextFits(TextOf(layout), markers, DoneIn(TextOf(layout), markers, left),
                          ValuesIn(TextOf(layout), markers, values, onMissing), text, deltas, start)
    BY TextGiven DEF Filling
  <2>4. IsIndexed(text) /\ IsIndexed(TextOf(layout))
    BY TextGiven
  <2> QED
    BY <2>2, <2>3, <2>4, FitsNothing
<1> QED
  BY <1>1, <1>3, <1>4, <1>5 DEF TextTypeOK, FillInv

ReadsAs(t, s, m) == SubSeq(t, m.first, m.last) = SubSeq(s, m.first, m.last)

LEMMA FillingReads ==
  ASSUME NEW s, IsIndexed(s), NEW ms, NEW k, NEW vs, NEW missing, NEW t, NEW ds,
         Filling(s, ms, k, vs, missing, t, ds), NEW p \in 1 .. k
  PROVE  ReadsAs(t, s, ms[p])
BY FillingStands DEF ReadsAs

LEMMA StayFollows ==
  ASSUME FillInv
  PROVE  MarkersStayPut
<1>1. /\ IsIndexed(TextOf(layout))
      /\ Filling(TextOf(layout), markers, left, values, onMissing, text, deltas)
  BY TextGiven
<1>2. ASSUME NEW p \in 1 .. left
      PROVE  ReadsAs(text, TextOf(layout), markers[p])
  BY <1>1, FillingReads
<1> QED
  BY <1>2 DEF MarkersStayPut, ReadsAs

LEMMA FailsFollow ==
  ASSUME FillInv
  PROVE  FailsRightly
<1> DEFINE s == TextOf(layout)
<1>1. /\ Filling(s, markers, left, values, onMissing, text, deltas)
      /\ DOMAIN markers = 1 .. Size(markers) /\ Size(markers) \in Nat
      /\ left \in 0 .. Size(markers)
  BY TextGiven, IndexedSeq DEF Size
<1>2. \A n \in DOMAIN markers :
        Resolve(Inner(s, markers[n])).ok <=> Resolves(s, markers[n], values, onMissing)
  BY ResolveSame DEF Resolves
<1>3. ASSUME stage = "failed"
      PROVE  \E n \in DOMAIN markers :
               IsSimple(s, markers[n]) /\ ~Resolve(Inner(s, markers[n])).ok
  <2>1. left > 0 /\ IsSimple(s, markers[left]) /\ ~Resolves(s, markers[left], values, onMissing)
    BY <1>3 DEF FillInv
  <2>2. left \in DOMAIN markers
    BY <1>1, <2>1
  <2> QED
    BY <1>2, <2>1, <2>2
<1>4. ASSUME stage \in {"filled", "saved"}, NEW n \in DOMAIN markers, IsSimple(s, markers[n])
      PROVE  Resolve(Inner(s, markers[n])).ok
  <2>1. left = 0
    BY <1>4 DEF FillInv
  <2>2. n \in DoneIn(s, markers, left)
    BY <1>1, <1>4, <2>1 DEF DoneIn
  <2>3. Resolves(s, markers[n], values, onMissing)
    BY <1>1, <2>2 DEF Filling
  <2> QED
    BY <1>2, <2>3
<1> HIDE DEF s
<1> QED
  BY <1>3, <1>4 DEF FailsRightly, s

-----------------------------------------------------------------------------
(* Sequences end to end.                                                    *)

\* S[k] is where the k-th piece ends.
Pieces(P, S, n) ==
  /\ n \in Nat
  /\ S \in [0 .. n -> Nat]
  /\ S[0] = 0
  /\ \A k \in 1 .. n : IsIndexed(P[k]) /\ Size(P[k]) \in Nat /\ S[k] = S[k - 1] + Size(P[k])

Within(S, k, y) == S[k - 1] < y /\ y <= S[k]

IsFlat(F, P, S, n) ==
  /\ IsIndexed(F)
  /\ Size(F) = S[n]
  /\ \A k \in 1 .. n : \A i \in 1 .. Size(P[k]) : F[S[k - 1] + i] = P[k][i]

LEMMA PiecesGrow ==
  ASSUME NEW P, NEW S, NEW n, Pieces(P, S, n), NEW i \in 0 .. n, NEW j \in 0 .. n, i <= j
  PROVE  S[i] <= S[j]
<1> DEFINE Bad == {k \in 0 .. n : i <= k /\ ~(S[i] <= S[k])}
<1>0. n \in Nat /\ i \in Nat /\ \A k \in 0 .. n : S[k] \in Nat
  BY DEF Pieces
<1>1. ASSUME Bad # {} PROVE FALSE
  <2>1. Bad \subseteq Nat
    BY <1>0
  <2>2. PICK k \in Bad : \A h \in Bad : k <= h
    <3> HIDE DEF Bad
    <3> QED
      BY <1>1, <2>1, LeastOf
  <2>3. k # i
    BY <1>0, <2>2
  <2>4. k \in 1 .. n /\ k - 1 \in 0 .. n /\ i <= k - 1 /\ k - 1 \notin Bad
    BY <1>0, <2>2, <2>3
  <2>5. S[k] = S[k - 1] + Size(P[k]) /\ Size(P[k]) \in Nat
    BY <2>4 DEF Pieces
  <2>6. S[i] <= S[k - 1] /\ S[k - 1] \in Nat /\ S[i] \in Nat
    BY <1>0, <2>4
  <2>7. S[i] <= S[k]
    BY <2>5, <2>6
  <2> QED
    BY <2>2, <2>7
<1> QED
  BY <1>1

\* Every place lies in a piece, and in no other.
LEMMA Located ==
  ASSUME NEW P, NEW S, NEW n, Pieces(P, S, n), NEW y \in 1 .. S[n]
  PROVE  \E k \in 1 .. n : Within(S, k, y)
<1> DEFINE Reached == {k \in 0 .. n : y <= S[k]}
<1>0. n \in Nat /\ S[0] = 0 /\ \A k \in 0 .. n : S[k] \in Nat
  BY DEF Pieces
<1>1. n \in Reached /\ Reached \subseteq Nat
  BY <1>0
<1>2. PICK k \in Reached : \A h \in Reached : k <= h
  <2> HIDE DEF Reached
  <2> QED
    BY <1>1, LeastOf
<1>3. k # 0
  BY <1>0, <1>2
<1>4. k \in 1 .. n /\ k - 1 \in 0 .. n /\ k - 1 \notin Reached
  BY <1>0, <1>2, <1>3
<1>5. S[k - 1] < y /\ y <= S[k]
  BY <1>0, <1>2, <1>4
<1> QED
  BY <1>4, <1>5 DEF Within

LEMMA LocatedOnce ==
  ASSUME NEW P, NEW S, NEW n, Pieces(P, S, n), NEW y \in Nat,
         NEW k \in 1 .. n, NEW h \in 1 .. n, Within(S, k, y), Within(S, h, y)
  PROVE  k = h
<1>0. n \in Nat /\ \A i \in 0 .. n : S[i] \in Nat
  BY DEF Pieces
<1>1. ASSUME NEW a \in 1 .. n, NEW b \in 1 .. n, Within(S, a, y), Within(S, b, y), a < b
      PROVE  FALSE
  <2>1. a \in 0 .. n /\ b - 1 \in 0 .. n /\ a <= b - 1
    BY <1>0, <1>1
  <2>2. S[a] <= S[b - 1]
    BY <2>1, PiecesGrow
  <2>3. S[b - 1] < y /\ y <= S[a] /\ S[a] \in Nat /\ S[b - 1] \in Nat
    BY <1>0, <1>1, <2>1 DEF Within
  <2> QED
    BY <2>2, <2>3
<1>2. ~(k < h) /\ ~(h < k)
  BY <1>1
<1> QED
  BY <1>0, <1>2

LEMMA FlatExists ==
  ASSUME NEW P, NEW S, NEW n, Pieces(P, S, n)
  PROVE  \E F : IsFlat(F, P, S, n)
<1> DEFINE At(y) == CHOOSE k \in 1 .. n : Within(S, k, y)
           F == [y \in 1 .. S[n] |-> P[At(y)][y - S[At(y) - 1]]]
           m == S[n]
<1>0. n \in Nat /\ m \in Nat /\ \A i \in 0 .. n : S[i] \in Nat
  BY DEF Pieces
<1>1. IsIndexed(F) /\ Size(F) = m
  <2>1. F = [y \in 1 .. m |-> F[y]]
    OBVIOUS
  <2> HIDE DEF F, m
  <2> QED
    BY <1>0, <2>1, MakeIndexed
<1>2. ASSUME NEW k \in 1 .. n, NEW i \in 1 .. Size(P[k])
      PROVE  F[S[k - 1] + i] = P[k][i]
  <2> DEFINE y == S[k - 1] + i
  <2>1. k - 1 \in 0 .. n /\ k \in 0 .. n /\ n \in 0 .. n /\ k <= n
    BY <1>0
  <2>2. S[k] = S[k - 1] + Size(P[k]) /\ Size(P[k]) \in Nat
    BY DEF Pieces
  <2>3. S[k] <= S[n]
    BY <2>1, PiecesGrow
  <2>4. y \in Nat /\ y \in 1 .. m /\ y - S[k - 1] = i
    BY <1>0, <2>1, <2>2, <2>3
  <2>5. Within(S, k, y)
    BY <1>0, <2>1, <2>2 DEF Within
  <2> HIDE DEF y
  <2>6. At(y) \in 1 .. n /\ Within(S, At(y), y)
    BY <2>5
  <2> HIDE DEF At
  <2>7. At(y) = k
    BY <2>4, <2>5, <2>6, LocatedOnce
  <2>8. F[y] = P[At(y)][y - S[At(y) - 1]]
    BY <2>4
  <2> QED
    BY <2>4, <2>7, <2>8 DEF y
<1> HIDE DEF F, At
<1>3. IsFlat(F, P, S, n)
  BY <1>1, <1>2 DEF IsFlat
<1> QED
  BY <1>3

\* Up to the end of a piece, all pieces before it and the piece itself.
LEMMA FlatGrows ==
  ASSUME NEW P, NEW S, NEW n, Pieces(P, S, n), NEW F, IsFlat(F, P, S, n), NEW k \in 1 .. n
  PROVE  Joined(Cut(F, 1, S[k - 1]), P[k]) = Cut(F, 1, S[k])
<1> DEFINE a == S[k - 1]
           b == S[k]
           z == Size(P[k])
<1>0. a \in Nat /\ b \in Nat /\ z \in Nat /\ b = a + z /\ IsIndexed(P[k])
  BY DEF Pieces
<1>1. b <= Size(F) /\ IsIndexed(F) /\ \A i \in 1 .. z : F[a + i] = P[k][i]
  <2>1. k \in 0 .. n /\ n \in 0 .. n /\ k <= n
    BY DEF Pieces
  <2>2. S[k] <= S[n]
    BY <2>1, PiecesGrow
  <2> QED
    BY <2>2 DEF IsFlat
<1> HIDE DEF a, b, z
<1>2. 1 \in Nat \ {0} /\ a <= Size(F) /\ 1 <= a + 1 /\ 1 <= b + 1
  <2>1. Size(F) \in Nat
    BY <1>1, IndexedSeq DEF Size
  <2> QED
    BY <1>0, <1>1, <2>1
<1>3. IsCut(Cut(F, 1, a), F, 1, a) /\ IsCut(Cut(F, 1, b), F, 1, b)
  BY <1>0, <1>1, <1>2, CutIs
<1>4. /\ IsIndexed(Cut(F, 1, a)) /\ Size(Cut(F, 1, a)) = a
      /\ IsIndexed(Cut(F, 1, b)) /\ Size(Cut(F, 1, b)) = b
      /\ \A i \in 1 .. a : Cut(F, 1, a)[i] = F[i]
      /\ \A i \in 1 .. b : Cut(F, 1, b)[i] = F[i]
  BY <1>0, <1>3 DEF IsCut
<1>5. IsJoin(Joined(Cut(F, 1, a), P[k]), Cut(F, 1, a), P[k])
  BY <1>0, <1>4, JoinIs
<1> DEFINE w == Joined(Cut(F, 1, a), P[k])
<1>6. /\ IsIndexed(w) /\ Size(w) = b
      /\ \A i \in 1 .. a : w[i] = F[i]
      /\ \A i \in 1 .. z : w[a + i] = F[a + i]
  BY <1>0, <1>1, <1>4, <1>5 DEF IsJoin, z
<1> HIDE DEF w
<1>7. ASSUME NEW i \in 1 .. b
      PROVE  w[i] = Cut(F, 1, b)[i]
  <2>1. CASE i <= a
    <3>1. i \in 1 .. a
      BY <1>0, <2>1
    <3> QED
      BY <1>4, <1>6, <3>1
  <2>2. CASE ~(i <= a)
    <3>1. i - a \in 1 .. z /\ a + (i - a) = i
      BY <1>0, <2>2
    <3> QED
      BY <1>4, <1>6, <3>1
  <2> QED
    BY <2>1, <2>2
<1>8. w = Cut(F, 1, b)
  BY <1>4, <1>6, <1>7, SameSeq
<1> QED
  BY <1>8 DEF w, a, b

LEMMA CutWhole ==
  ASSUME NEW s, IsIndexed(s)
  PROVE  Cut(s, 1, Size(s)) = s
<1>1. Size(s) \in Nat
  BY IndexedSeq DEF Size
<1>2. IsCut(Cut(s, 1, Size(s)), s, 1, Size(s))
  <2>1. 1 \in Nat \ {0} /\ 1 <= Size(s) + 1 /\ Size(s) <= Size(s)
    BY <1>1
  <2> QED
    BY <1>1, <2>1, CutIs
<1>3. /\ IsIndexed(Cut(s, 1, Size(s))) /\ Size(Cut(s, 1, Size(s))) = Size(s)
      /\ \A i \in 1 .. Size(s) : Cut(s, 1, Size(s))[i] = s[i]
  BY <1>1, <1>2 DEF IsCut
<1> QED
  BY <1>3, SameSeq

\* FlattenSeq puts the pieces end to end.
LEMMA FlattenIs ==
  ASSUME NEW P, IsIndexed(P), NEW S, Pieces(P, S, Size(P)),
         NEW F, IsFlat(F, P, S, Size(P))
  PROVE  FlattenSeq(P) = F
<1> DEFINE n == Len(P)
           Equation(f) == f = [i \in 1 .. n |-> IF i = 1 THEN P[i] ELSE Joined(f[i - 1], P[i])]
           up == CHOOSE f : Equation(f)
           g == [i \in 1 .. n |-> Cut(F, 1, S[i])]
<1>0. n \in Nat /\ S[0] = 0 /\ \A i \in 0 .. n : S[i] \in Nat
  BY DEF Pieces, Size
<1>1. IsIndexed(F) /\ Size(F) = S[n]
  BY DEF IsFlat, Size
<1>2. CASE n = 0
  <2>1. FlattenSeq(P) = P
    BY <1>2 DEF FlattenSeq
  <2>2. Size(F) = 0 /\ Size(P) = 0
    BY <1>0, <1>1, <1>2 DEF Size
  <2>3. \A i \in 1 .. Size(P) : P[i] = F[i]
    BY <2>2
  <2>4. P = F
    BY <1>1, <2>2, <2>3, SameSeq
  <2> QED
    BY <2>1, <2>4
<1>3. CASE n # 0
  <2>1. FlattenSeq(P) = up[n]
    BY <1>3 DEF FlattenSeq, Joined
  <2>2. \A i \in 1 .. n : Joined(Cut(F, 1, S[i - 1]), P[i]) = Cut(F, 1, S[i])
    BY FlatGrows DEF Size
  <2>3. P[1] = Cut(F, 1, S[1])
    <3>1. 1 \in 1 .. n
      BY <1>0, <1>3
    <3>2. Pieces(P, S, n) /\ IsFlat(F, P, S, n)
      BY DEF Size
    <3>3. S[1] = S[0] + Size(P[1]) /\ Size(P[1]) \in Nat /\ IsIndexed(P[1]) /\ S[1] \in Nat
      <4>1. 1 - 1 = 0 /\ 1 \in 0 .. n
        BY <1>0, <1>3
      <4> QED
        BY <1>0, <3>1, <3>2, <4>1 DEF Pieces
    <3>4. S[1] <= Size(F) /\ \A i \in 1 .. Size(P[1]) : F[i] = P[1][i]
      <4>1. 1 \in 0 .. n /\ n \in 0 .. n /\ 1 <= n /\ 1 - 1 = 0
        BY <1>0, <1>3
      <4>2. S[1] <= S[n]
        BY <3>2, <4>1, PiecesGrow
      <4>3. \A i \in 1 .. Size(P[1]) : F[S[0] + i] = P[1][i]
        BY <3>1, <3>2, <4>1 DEF IsFlat
      <4>4. \A i \in 1 .. Size(P[1]) : S[0] + i = i
        BY <1>0
      <4> QED
        BY <1>1, <4>2, <4>3, <4>4
    <3>5. S[1] = Size(P[1])
      BY <1>0, <3>3
    <3>6. IsCut(Cut(F, 1, S[1]), F, 1, S[1])
      <4>1. 1 \in Nat \ {0} /\ 1 <= S[1] + 1
        BY <3>3
      <4> QED
        BY <1>1, <3>3, <3>4, <4>1, CutIs
    <3>7. /\ IsIndexed(Cut(F, 1, S[1])) /\ Size(Cut(F, 1, S[1])) = S[1]
          /\ \A i \in 1 .. S[1] : Cut(F, 1, S[1])[i] = F[i]
      BY <3>3, <3>6 DEF IsCut
    <3> QED
      BY <3>3, <3>4, <3>5, <3>7, SameSeq
  <2>4. Equation(g)
    <3>1. ASSUME NEW i \in 1 .. n
          PROVE  g[i] = IF i = 1 THEN P[i] ELSE Joined(g[i - 1], P[i])
      <4>1. CASE i = 1
        BY <2>3, <4>1
      <4>2. CASE i # 1
        <5>1. i - 1 \in 1 .. n
          BY <1>0, <4>2
        <5> QED
          BY <2>2, <4>2, <5>1
      <4> QED
        BY <4>1, <4>2
    <3> QED
      BY <3>1
  <2>5. Equation(up)
    BY <2>4
  <2> HIDE DEF up
  <2>6. \A i \in 1 .. n : up[i] = IF i = 1 THEN P[i] ELSE Joined(up[i - 1], P[i])
    BY <2>5
  <2>7. \A i \in 1 .. n : g[i] = IF i = 1 THEN P[i] ELSE Joined(g[i - 1], P[i])
    BY <2>4
  <2> DEFINE Bad == {i \in 1 .. n : up[i] # g[i]}
  <2> HIDE DEF g
  <2>8. ASSUME Bad # {} PROVE FALSE
    <3>1. Bad \subseteq Nat
      BY <1>0
    <3>2. PICK i \in Bad : \A h \in Bad : i <= h
      <4> HIDE DEF Bad
      <4> QED
        BY <2>8, <3>1, LeastOf
    <3>3. CASE i = 1
      BY <2>6, <2>7, <3>2, <3>3
    <3>4. CASE i # 1
      <4>1. i \in 1 .. n /\ i - 1 \in 1 .. n /\ i - 1 \notin Bad
        BY <1>0, <3>2, <3>4
      <4>2. up[i - 1] = g[i - 1]
        BY <4>1
      <4>3. up[i] = Joined(up[i - 1], P[i]) /\ g[i] = Joined(g[i - 1], P[i])
        BY <2>6, <2>7, <3>4, <4>1
      <4> QED
        BY <3>2, <4>2, <4>3
    <3> QED
      BY <3>3, <3>4
  <2>9. up[n] = g[n]
    <3>1. n \in 1 .. n
      BY <1>0, <1>3
    <3> QED
      BY <2>8, <3>1
  <2>10. g[n] = F
    <3>1. n \in 1 .. n
      BY <1>0, <1>3
    <3>2. g[n] = Cut(F, 1, S[n])
      BY <3>1 DEF g
    <3> QED
      BY <1>1, <3>2, CutWhole
  <2> QED
    BY <2>1, <2>9, <2>10
<1> QED
  BY <1>2, <1>3

-----------------------------------------------------------------------------
(* Layouts whose controls, if any, come before their text.                  *)

Leading(l, c) ==
  /\ IsIndexed(l)
  /\ c \in 0 .. Size(l)
  /\ \A k \in 1 .. Size(l) : IsControl(l, k) <=> k <= c

LEMMA LeadsBy ==
  ASSUME NEW l, IsIndexed(l),
         \A k \in DOMAIN l : IsControl(l, k) => \A j \in 1 .. k : IsControl(l, j)
  PROVE  \E c : Leading(l, c)
<1> DEFINE n == Size(l)
           C == {k \in 1 .. n : IsControl(l, k)}
<1>1. n \in Nat /\ DOMAIN l = 1 .. n
  BY GlyphsIs
<1> HIDE DEF n
<1>2. CASE C = {}
  <2>1. Leading(l, 0)
    BY <1>1, <1>2 DEF Leading, n
  <2> QED
    BY <2>1
<1>3. CASE C # {}
  <2>1. C \subseteq 1 .. n
    OBVIOUS
  <2>2. PICK c \in C : \A k \in C : k <= c
    <3> HIDE DEF C
    <3> QED
      BY <1>1, <1>3, <2>1, GreatestOf
  <2>3. c \in 1 .. n /\ IsControl(l, c) /\ \A j \in 1 .. c : IsControl(l, j)
    BY <1>1, <2>2
  <2>4. ASSUME NEW k \in 1 .. n
        PROVE  IsControl(l, k) <=> k <= c
    <3>1. k <= c => k \in 1 .. c
      BY <2>3
    <3>2. IsControl(l, k) => k \in C
      OBVIOUS
    <3> QED
      BY <2>2, <2>3, <3>1, <3>2
  <2>5. c \in 0 .. n
    BY <2>3
  <2>6. Leading(l, c)
    BY <2>4, <2>5 DEF Leading, n
  <2> QED
    BY <2>6
<1> QED
  BY <1>2, <1>3

LEMMA NoneLeads ==
  ASSUME NEW l, IsIndexed(l), ControlsOf(l) = << >>
  PROVE  Leading(l, 0)
<1> DEFINE n == Size(l)
           C == {k \in DOMAIN l : IsControl(l, k)}
           A == Ascending(C)
<1>1. n \in Nat /\ DOMAIN l = 1 .. n
  BY GlyphsIs
<1>2. Places(C)
  BY <1>1 DEF Places
<1> HIDE DEF C
<1>3. IsIndexed(A) /\ \A k \in C : \E b \in 1 .. Size(A) : A[b] = k
  BY <1>2, AscendingIs
<1>4. DOMAIN A = 1 .. Size(A)
  BY <1>3, IndexedSeq DEF Size
<1>5. DOMAIN ControlsOf(l) = DOMAIN A
  BY DEF ControlsOf, C
<1>6. C = {}
  BY <1>3, <1>4, <1>5
<1>7. \A k \in 1 .. n : ~IsControl(l, k)
  BY <1>1, <1>6 DEF C
<1> HIDE DEF n
<1>8. 0 \in 0 .. n /\ \A k \in 1 .. n : ~(k <= 0)
  BY <1>1
<1> QED
  BY <1>7, <1>8 DEF Leading, n

\* A control is eight units wide.
LEMMA WidthLeads ==
  ASSUME NEW l, NEW c, Leading(l, c)
  PROVE  \A i \in 0 .. c : WidthTo(Glyphs(l), i) = 8 * i
<1> DEFINE s == Glyphs(l)
           n == Size(l)
           Bad == {i \in 0 .. c : WidthTo(s, i) # 8 * i}
<1>1. n \in Nat /\ c \in 0 .. n /\ IsIndexed(s) /\ Size(s) = n
  BY GlyphsIs DEF Leading
<1>2. /\ WidthTo(s, 0) = 0
      /\ \A i \in 1 .. n : WidthTo(s, i) = WidthTo(s, i - 1) + Width(s[i])
  BY <1>1, WidthSteps
<1>3. \A i \in 1 .. c : Width(s[i]) = 8
  <2>1. ASSUME NEW i \in 1 .. c PROVE Width(s[i]) = 8
    <3>1. i \in 1 .. n /\ i <= c
      BY <1>1
    <3>2. IsControl(l, i) /\ s[i] = l[i].glyph
      BY <3>1, GlyphsIs DEF Leading
    <3> QED
      BY <3>2 DEF IsControl, Width
  <2> QED
    BY <2>1
<1> HIDE DEF s, n
<1>4. ASSUME Bad # {} PROVE FALSE
  <2>1. Bad \subseteq Nat
    BY <1>1
  <2>2. PICK i \in Bad : \A h \in Bad : i <= h
    <3> HIDE DEF Bad
    <3> QED
      BY <1>4, <2>1, LeastOf
  <2>3. i # 0
    BY <1>2, <2>2
  <2>4. i \in 1 .. c /\ i \in 1 .. n /\ i - 1 \in 0 .. c /\ i - 1 \notin Bad /\ i \in Nat
    BY <1>1, <2>2, <2>3
  <2>5. WidthTo(s, i - 1) = 8 * (i - 1)
    BY <2>4
  <2>6. WidthTo(s, i) = 8 * (i - 1) + 8
    BY <1>2, <1>3, <2>4, <2>5
  <2>7. WidthTo(s, i) = 8 * i
    BY <2>4, <2>6
  <2> QED
    BY <2>2, <2>7
<1> QED
  BY <1>4 DEF s

LedText(l, c) ==
  /\ IsIndexed(TextOf(l))
  /\ Size(TextOf(l)) = Size(l) - c
  /\ \A j \in 1 .. (Size(l) - c) : TextOf(l)[j] = l[c + j].glyph

LedControls(l, c) ==
  /\ IsIndexed(ControlsOf(l))
  /\ Size(ControlsOf(l)) = c
  /\ \A j \in 1 .. c : ControlsOf(l)[j] = l[j].glyph

LedOffsets(l, c) ==
  /\ DOMAIN OffsetsOf(l) = 1 .. (Size(l) - c)
  /\ \A j \in 1 .. (Size(l) - c) : OffsetsOf(l)[j] \in Nat
  /\ Size(l) > c => OffsetsOf(l)[1] = 8 * c

\* What the parser makes of leading controls and the text after them.
LEMMA LeadingIs ==
  ASSUME NEW l, NEW c, Leading(l, c)
  PROVE  LedText(l, c) /\ LedControls(l, c) /\ LedOffsets(l, c)
<1> DEFINE n == Size(l)
           X == {k \in DOMAIN l : ~IsControl(l, k)}
           C == {k \in DOMAIN l : IsControl(l, k)}
<1>1. n \in Nat /\ c \in 0 .. n /\ c \in Nat /\ c <= n /\ DOMAIN l = 1 .. n /\ IsIndexed(l)
  BY GlyphsIs DEF Leading
<1>2. X = (c + 1) .. n /\ C = (0 + 1) .. c
  BY <1>1 DEF Leading
<1>3. Places(X) /\ Places(C)
  BY <1>1 DEF Places
<1> HIDE DEF X, C, n
<1>4. /\ IsIndexed(Ascending(X)) /\ Size(Ascending(X)) = n - c
      /\ \A j \in 1 .. (n - c) : Ascending(X)[j] = c + j
  BY <1>1, <1>2, <1>3, AscendingIs, AscendingInterval
<1>5. /\ IsIndexed(Ascending(C)) /\ Size(Ascending(C)) = c - 0
      /\ \A j \in 1 .. (c - 0) : Ascending(C)[j] = 0 + j
  <2>1. 0 \in Nat /\ 0 <= c
    BY <1>1
  <2> QED
    BY <1>1, <1>2, <1>3, <2>1, AscendingIs, AscendingInterval
<1>6. /\ DOMAIN Ascending(X) = 1 .. (n - c)
      /\ DOMAIN Ascending(C) = 1 .. c
  <2>1. c - 0 = c
    BY <1>1
  <2> QED
    BY <1>4, <1>5, <2>1, IndexedSeq DEF Size
<1>7. /\ TextIndices(l) = Ascending(X)
      /\ ControlsOf(l) = [j \in DOMAIN Ascending(C) |-> l[Ascending(C)[j]].glyph]
  BY DEF TextIndices, ControlsOf, X, C
<1>8. LedText(l, c)
  <2>1. TextOf(l) = [j \in 1 .. (n - c) |-> l[Ascending(X)[j]].glyph]
    BY <1>6, <1>7 DEF TextOf
  <2>2. n - c \in Nat
    BY <1>1
  <2>3. TextOf(l) = [j \in 1 .. (n - c) |-> TextOf(l)[j]]
    BY <2>1
  <2>4. IsIndexed(TextOf(l)) /\ Size(TextOf(l)) = n - c
    BY <2>2, <2>3, MakeIndexed
  <2>5. \A j \in 1 .. (n - c) : TextOf(l)[j] = l[c + j].glyph
    BY <1>4, <2>1
  <2> QED
    BY <2>4, <2>5 DEF LedText, n
<1>9. LedControls(l, c)
  <2>1. ControlsOf(l) = [j \in 1 .. c |-> l[Ascending(C)[j]].glyph]
    BY <1>6, <1>7
  <2>2. ControlsOf(l) = [j \in 1 .. c |-> ControlsOf(l)[j]]
    BY <2>1
  <2>3. IsIndexed(ControlsOf(l)) /\ Size(ControlsOf(l)) = c
    BY <1>1, <2>2, MakeIndexed
  <2>4. \A j \in 1 .. c : Ascending(C)[j] = j
    <3>1. \A j \in 1 .. c : j \in 1 .. (c - 0) /\ 0 + j = j
      BY <1>1
    <3> QED
      BY <1>5, <3>1
  <2>5. \A j \in 1 .. c : ControlsOf(l)[j] = l[j].glyph
    BY <2>1, <2>4
  <2> QED
    BY <2>3, <2>5 DEF LedControls
<1>10. LedOffsets(l, c)
  <2>1. OffsetsOf(l) = [j \in 1 .. (n - c) |-> PosIn(l, Ascending(X)[j])]
    BY <1>6, <1>7 DEF OffsetsOf
  <2>2. ASSUME NEW j \in 1 .. (n - c)
        PROVE  /\ OffsetsOf(l)[j] = PosIn(l, c + j)
               /\ c + j \in 1 .. n
    BY <1>1, <1>4, <2>1
  <2>3. \A k \in 1 .. n : PosIn(l, k) = WidthTo(Glyphs(l), k - 1) /\ PosIn(l, k) \in Nat
    BY <1>1, PosIs DEF n
  <2>4. \A j \in 1 .. (n - c) : OffsetsOf(l)[j] \in Nat
    BY <2>2, <2>3
  <2>5. ASSUME n > c
        PROVE  OffsetsOf(l)[1] = 8 * c
    <3>1. 1 \in 1 .. (n - c) /\ (c + 1) - 1 = c /\ c + 1 \in 1 .. n /\ c \in 0 .. c
      BY <1>1, <2>5
    <3>2. WidthTo(Glyphs(l), c) = 8 * c
      BY <3>1, WidthLeads
    <3>3. OffsetsOf(l)[1] = PosIn(l, c + 1)
      BY <2>2, <3>1
    <3>4. PosIn(l, c + 1) = WidthTo(Glyphs(l), (c + 1) - 1)
      BY <2>3, <3>1
    <3> QED
      BY <3>1, <3>2, <3>3, <3>4
  <2>6. DOMAIN OffsetsOf(l) = 1 .. (n - c)
    BY <2>1
  <2> QED
    BY <2>4, <2>5, <2>6 DEF LedOffsets, n
<1> QED
  BY <1>8, <1>9, <1>10

-----------------------------------------------------------------------------
(* Saving a paragraph with leading controls.                                *)

LEMMA JoinNone ==
  ASSUME NEW s, IsIndexed(s), NEW e, IsIndexed(e), Size(e) = 0
  PROVE  Joined(s, e) = s /\ Joined(e, s) = s
<1>1. Size(s) \in Nat
  BY IndexedSeq DEF Size
<1>2. IsJoin(Joined(s, e), s, e) /\ IsJoin(Joined(e, s), e, s)
  BY JoinIs
<1>3. /\ IsIndexed(Joined(s, e)) /\ Size(Joined(s, e)) = Size(s)
      /\ \A k \in 1 .. Size(s) : Joined(s, e)[k] = s[k]
  BY <1>1, <1>2 DEF IsJoin
<1>4. /\ IsIndexed(Joined(e, s)) /\ Size(Joined(e, s)) = Size(s)
      /\ \A k \in 1 .. Size(s) : Joined(e, s)[0 + k] = s[k]
  BY <1>1, <1>2 DEF IsJoin
<1>5. \A k \in 1 .. Size(s) : 0 + k = k
  BY <1>1
<1>6. \A k \in 1 .. Size(s) : Joined(e, s)[k] = s[k]
  BY <1>4, <1>5
<1> QED
  BY <1>3, <1>4, <1>6, SameSeq

LEMMA JoinAssoc ==
  ASSUME NEW s, IsIndexed(s), NEW u, IsIndexed(u), NEW w, IsIndexed(w)
  PROVE  Joined(Joined(s, u), w) = Joined(s, Joined(u, w))
<1> DEFINE A == {s[n] : n \in 1 .. Len(s)}
           B == {u[n] : n \in 1 .. Len(u)}
           C == {w[n] : n \in 1 .. Len(w)}
           S == A \cup B \cup C
<1>1. s \in Seq(A) /\ u \in Seq(B) /\ w \in Seq(C)
  BY IndexedSeq
<1>2. A \subseteq S /\ B \subseteq S /\ C \subseteq S
  OBVIOUS
<1> HIDE DEF A, B, C, S
<1>3. s \in Seq(S) /\ u \in Seq(S) /\ w \in Seq(S)
  BY <1>1, <1>2, SeqMonotonic
<1>4. (s \o u) \o w = s \o (u \o w)
  BY <1>3, ConcatAssociative
<1> QED
  BY <1>4 DEF Joined

LEMMA OneIs ==
  ASSUME NEW x
  PROVE  IsIndexed(<<x>>) /\ Size(<<x>>) = 1 /\ <<x>>[1] = x
<1>1. <<x>> \in Seq({x}) /\ Len(<<x>>) = 1 /\ <<x>>[1] = x
  OBVIOUS
<1> QED
  BY <1>1, InSeq DEF Size

LEMMA CutOneMore ==
  ASSUME NEW s, IsIndexed(s), NEW j \in 1 .. Size(s)
  PROVE  Joined(Cut(s, 1, j - 1), <<s[j]>>) = Cut(s, 1, j)
<1> DEFINE S == [i \in 0 .. Size(s) |-> i]
           P == [i \in 1 .. Size(s) |-> <<s[i]>>]
<1>1. Size(s) \in Nat
  BY IndexedSeq DEF Size
<1>2. \A i \in 1 .. Size(s) : IsIndexed(P[i]) /\ Size(P[i]) = 1 /\ P[i][1] = s[i]
  BY OneIs
<1>3. Pieces(P, S, Size(s))
  <2>1. ASSUME NEW i \in 1 .. Size(s)
        PROVE  S[i] = S[i - 1] + Size(P[i]) /\ Size(P[i]) \in Nat
    <3>1. i \in 0 .. Size(s) /\ i - 1 \in 0 .. Size(s) /\ (i - 1) + 1 = i
      BY <1>1
    <3> HIDE DEF P
    <3> QED
      BY <1>2, <3>1
  <2>2. S \in [0 .. Size(s) -> Nat] /\ S[0] = 0
    BY <1>1
  <2> HIDE DEF P, S
  <2> QED
    BY <1>1, <1>2, <2>1, <2>2 DEF Pieces
<1>4. IsFlat(s, P, S, Size(s))
  <2>1. ASSUME NEW k \in 1 .. Size(s), NEW i \in 1 .. Size(P[k])
        PROVE  s[S[k - 1] + i] = P[k][i]
    <3>1. i = 1
      BY <1>2
    <3>2. S[k - 1] = k - 1 /\ (k - 1) + 1 = k
      BY <1>1
    <3> HIDE DEF P, S
    <3> QED
      BY <1>2, <3>1, <3>2
  <2>2. S[Size(s)] = Size(s)
    BY <1>1
  <2> HIDE DEF P, S
  <2> QED
    BY <2>1, <2>2 DEF IsFlat
<1>5. S[j - 1] = j - 1 /\ S[j] = j /\ P[j] = <<s[j]>>
  BY <1>1
<1> HIDE DEF S, P
<1>6. Joined(Cut(s, 1, S[j - 1]), P[j]) = Cut(s, 1, S[j])
  BY <1>3, <1>4, FlatGrows
<1> QED
  BY <1>5, <1>6

\* Where the text written so far ends.
OffsetOr(offsets, j, before) == IF j \in DOMAIN offsets THEN offsets[j] ELSE before
Ends(e, offsets, t, n) ==
  /\ e \in [0 .. n -> Nat]
  /\ e[0] = 0
  /\ \A j \in 1 .. n : e[j] = OffsetOr(offsets, j, e[j - 1]) + Width(t[j])

LEMMA EndsExist ==
  ASSUME NEW n \in Nat, NEW t, NEW offsets, \A j \in DOMAIN offsets : offsets[j] \in Nat
  PROVE  \E e : Ends(e, offsets, t, n)
<1> DEFINE Bad == {m \in 0 .. n : ~\E e : Ends(e, offsets, t, m)}
<1>1. ASSUME Bad # {} PROVE FALSE
  <2>1. Bad \subseteq Nat
    OBVIOUS
  <2>2. PICK m \in Bad : \A l \in Bad : m <= l
    <3> HIDE DEF Bad
    <3> QED
      BY <1>1, <2>1, LeastOf
  <2>3. CASE m = 0
    <3>1. Ends([j \in 0 .. 0 |-> 0], offsets, t, 0)
      BY DEF Ends
    <3> QED
      BY <2>2, <2>3, <3>1
  <2>4. CASE m # 0
    <3>1. m \in 1 .. n /\ m - 1 \in 0 .. n /\ m - 1 \notin Bad
      BY <2>2, <2>4
    <3>2. PICK e : Ends(e, offsets, t, m - 1)
      BY <3>1
    <3> DEFINE end == OffsetOr(offsets, m, e[m - 1]) + Width(t[m])
               g == [j \in 0 .. m |-> IF j = m THEN end ELSE e[j]]
    <3>3. \A j \in 0 .. (m - 1) : e[j] \in Nat
      BY <3>1, <3>2 DEF Ends
    <3>4. end \in Nat
      <4>1. m - 1 \in 0 .. (m - 1)
        BY <3>1
      <4>2. e[m - 1] \in Nat
        BY <3>3, <4>1
      <4>3. Width(t[m]) \in Nat
        BY WidthIs
      <4>4. OffsetOr(offsets, m, e[m - 1]) \in Nat
        BY <4>2 DEF OffsetOr
      <4> QED
        BY <4>3, <4>4
    <3> HIDE DEF end
    <3>5. g \in [0 .. m -> Nat]
      <4>1. \A j \in 0 .. m : j # m => j \in 0 .. (m - 1)
        BY <3>1
      <4> QED
        BY <3>3, <3>4, <4>1
    <3>6. g[0] = 0
      BY <3>1, <3>2 DEF Ends
    <3>7. ASSUME NEW j \in 1 .. m
          PROVE  g[j] = OffsetOr(offsets, j, g[j - 1]) + Width(t[j])
      <4>1. CASE j = m
        <5>1. g[m - 1] = e[m - 1] /\ g[m] = end
          BY <3>1
        <5> QED
          BY <4>1, <5>1 DEF end
      <4>2. CASE j # m
        <5>1. j \in 1 .. (m - 1) /\ j - 1 \in 0 .. m /\ j - 1 # m /\ j \in 0 .. m
          BY <3>1, <4>2
        <5>2. e[j] = OffsetOr(offsets, j, e[j - 1]) + Width(t[j])
          BY <3>2, <5>1 DEF Ends
        <5>3. g[j] = e[j] /\ g[j - 1] = e[j - 1]
          BY <4>2, <5>1
        <5> QED
          BY <5>2, <5>3
      <4> QED
        BY <4>1, <4>2
    <3> HIDE DEF g
    <3>8. Ends(g, offsets, t, m)
      BY <3>5, <3>6, <3>7 DEF Ends
    <3> QED
      BY <2>2, <3>8
  <2> QED
    BY <2>3, <2>4
<1> QED
  BY <1>1

\* What is written of a text after its first j characters.
SoFar(K, c, t, e, j) ==
  [units |-> IF j = 0 THEN << >> ELSE Joined(K, Cut(t, 1, j)),
   written |-> IF j = 0 THEN 0 ELSE c,
   end |-> e[j]]

\* The first character: the gap before it takes all the controls.
LEMMA LedFirst ==
  ASSUME NEW l, NEW c, Leading(l, c), c = 0 \/ Size(l) > c,
         NEW t, IsIndexed(t), Size(t) # 0, NEW e, Ends(e, OffsetsOf(l), t, Size(t))
  PROVE  WrittenIn(l, t, SoFar(ControlsOf(l), c, t, e, 0), 1) = SoFar(ControlsOf(l), c, t, e, 1)
<1> DEFINE K == ControlsOf(l)
           offsets == OffsetsOf(l)
           acc == SoFar(K, c, t, e, 0)
           offset == OffsetOr(offsets, 1, acc.end)
           rest == Len(K) - acc.written
           n == IF Room(offset, acc.end) < rest THEN Room(offset, acc.end) ELSE rest
<1>1. /\ acc.units = << >> /\ acc.written = 0 /\ acc.end = e[0]
      /\ Size(t) \in Nat /\ 1 \in 1 .. Size(t)
  <2>1. Size(t) \in Nat
    BY IndexedSeq DEF Size
  <2> QED
    BY <2>1 DEF SoFar
<1>2. IsIndexed(K) /\ Len(K) = c /\ c \in Nat
  <2>1. LedControls(l, c)
    BY LeadingIs
  <2>2. Size(l) \in Nat /\ c \in 0 .. Size(l)
    BY GlyphsIs DEF Leading
  <2> QED
    BY <2>1, <2>2 DEF LedControls, Size
<1>3. e[0] = 0 /\ e[1] = OffsetOr(offsets, 1, e[1 - 1]) + Width(t[1])
  BY <1>1 DEF Ends
<1>4. offset = 8 * c
  <2>1. LedOffsets(l, c) /\ Size(l) \in Nat /\ c \in 0 .. Size(l)
    BY LeadingIs, GlyphsIs DEF Leading
  <2>2. CASE Size(l) > c
    <3>1. 1 \in 1 .. (Size(l) - c)
      BY <2>1, <2>2
    <3> QED
      BY <2>1, <2>2, <3>1 DEF LedOffsets, OffsetOr
  <2>3. CASE ~(Size(l) > c)
    <3>1. c = 0 /\ Size(l) = 0
      BY <2>1, <2>3
    <3>2. 1 \notin 1 .. (Size(l) - c)
      BY <3>1
    <3>3. offset = acc.end
      BY <2>1, <3>2 DEF LedOffsets, OffsetOr
    <3> QED
      BY <1>1, <1>3, <3>1, <3>3
  <2> QED
    BY <2>2, <2>3
<1>5. acc.written + n = c /\ n = c /\ acc.written + 1 = 1
  <2>1. Room(8 * c, 0) = c
    BY <1>2 DEF Room
  <2> HIDE DEF acc
  <2> QED
    BY <1>1, <1>2, <1>3, <1>4, <2>1
<1>6. WrittenIn(l, t, acc, 1)
        = [units |-> Joined(Joined(acc.units, Cut(K, acc.written + 1, acc.written + n)), <<t[1]>>),
           written |-> acc.written + n,
           end |-> offset + Width(t[1])]
  BY DEF WrittenIn, Joined, Cut, OffsetOr
<1>7. offset + Width(t[1]) = e[1]
  <2>1. 1 - 1 = 0
    OBVIOUS
  <2> HIDE DEF acc
  <2> QED
    BY <1>1, <1>3, <2>1
<1> HIDE DEF acc, offset, n, K
<1>8. Cut(K, 1, c) = K
  BY <1>2, CutWhole DEF Size
<1>9. Joined(<< >>, K) = K
  <2>1. IsIndexed(<< >>) /\ Size(<< >>) = 0
    BY DEF IsIndexed, Size
  <2> QED
    BY <1>2, <2>1, JoinNone
<1>10. Cut(t, 1, 1) = <<t[1]>>
  <2>1. Joined(Cut(t, 1, 1 - 1), <<t[1]>>) = Cut(t, 1, 1)
    BY <1>1, CutOneMore
  <2>2. IsIndexed(Cut(t, 1, 0)) /\ Size(Cut(t, 1, 0)) = 0
    <3>1. IsCut(Cut(t, 1, 0), t, 1, 0)
      <4>1. 1 \in Nat \ {0} /\ 0 \in Nat /\ 0 <= Size(t) /\ 1 <= 0 + 1
        BY <1>1
      <4> QED
        BY <4>1, CutIs
    <3> QED
      BY <3>1 DEF IsCut
  <2>3. IsIndexed(<<t[1]>>) /\ 1 - 1 = 0
    BY OneIs
  <2>4. Joined(Cut(t, 1, 0), <<t[1]>>) = <<t[1]>>
    BY <2>2, <2>3, JoinNone
  <2> QED
    BY <2>1, <2>3, <2>4
<1>11. WrittenIn(l, t, acc, 1) = [units |-> Joined(K, <<t[1]>>), written |-> c, end |-> e[1]]
  BY <1>1, <1>5, <1>6, <1>7, <1>8, <1>9
<1>12. SoFar(K, c, t, e, 1) = [units |-> Joined(K, Cut(t, 1, 1)), written |-> c, end |-> e[1]]
  BY DEF SoFar
<1> QED
  BY <1>10, <1>11, <1>12 DEF acc, K

\* The others: no control is left.
LEMMA LedNext ==
  ASSUME NEW l, NEW c, Leading(l, c),
         NEW t, IsIndexed(t), NEW e, Ends(e, OffsetsOf(l), t, Size(t)),
         NEW j \in 1 .. Size(t), j # 1
  PROVE  WrittenIn(l, t, SoFar(ControlsOf(l), c, t, e, j - 1), j) = SoFar(ControlsOf(l), c, t, e, j)
<1> DEFINE K == ControlsOf(l)
           offsets == OffsetsOf(l)
           acc == SoFar(K, c, t, e, j - 1)
           offset == OffsetOr(offsets, j, acc.end)
           rest == Len(K) - acc.written
           n == IF Room(offset, acc.end) < rest THEN Room(offset, acc.end) ELSE rest
           head == Cut(t, 1, j - 1)
<1>1. Size(t) \in Nat /\ j - 1 \in 1 .. Size(t) /\ j - 1 \in 0 .. Size(t) /\ j - 1 # 0 /\ j # 0
  <2>1. Size(t) \in Nat
    BY IndexedSeq DEF Size
  <2> QED
    BY <2>1
<1>2. acc.units = Joined(K, head) /\ acc.written = c /\ acc.end = e[j - 1]
  BY <1>1 DEF SoFar
<1>3. IsIndexed(K) /\ Len(K) = c /\ c \in Nat
  <2>1. LedControls(l, c)
    BY LeadingIs
  <2>2. Size(l) \in Nat /\ c \in 0 .. Size(l)
    BY GlyphsIs DEF Leading
  <2> QED
    BY <2>1, <2>2 DEF LedControls, Size
<1>4. e[j - 1] \in Nat /\ e[j] = OffsetOr(offsets, j, e[j - 1]) + Width(t[j])
  BY <1>1 DEF Ends
<1>5. offset \in Nat
  <2>1. \A i \in DOMAIN offsets : offsets[i] \in Nat
    BY LeadingIs DEF LedOffsets
  <2> HIDE DEF acc
  <2> QED
    BY <1>2, <1>4, <2>1 DEF OffsetOr
<1>6. n = 0
  <2>1. \A a, b \in Nat : Room(a, b) \in Nat
    BY DEF Room
  <2> HIDE DEF acc, offset
  <2>2. Room(offset, acc.end) \in Nat
    BY <1>2, <1>4, <1>5, <2>1
  <2>3. rest = 0
    BY <1>2, <1>3
  <2> QED
    BY <2>2, <2>3
<1>7. WrittenIn(l, t, acc, j)
        = [units |-> Joined(Joined(acc.units, Cut(K, acc.written + 1, acc.written + n)), <<t[j]>>),
           written |-> acc.written + n,
           end |-> offset + Width(t[j])]
  BY DEF WrittenIn, Joined, Cut, OffsetOr
<1>8. offset + Width(t[j]) = e[j]
  <2> HIDE DEF acc
  <2> QED
    BY <1>2, <1>4
<1>9. IsIndexed(head) /\ IsIndexed(<<t[j]>>)
  <2>1. IsCut(head, t, 1, j - 1)
    <3>1. 1 \in Nat \ {0} /\ j - 1 \in Nat /\ j - 1 <= Size(t) /\ 1 <= (j - 1) + 1
      BY <1>1
    <3> QED
      BY <3>1, CutIs
  <2> QED
    BY <2>1, OneIs DEF IsCut
<1>10. IsIndexed(Cut(K, c + 1, c + 0)) /\ Size(Cut(K, c + 1, c + 0)) = 0
  <2>1. c + 1 \in Nat \ {0} /\ c + 0 \in Nat /\ c + 0 <= Size(K) /\ c + 1 <= (c + 0) + 1
    BY <1>3 DEF Size
  <2>2. IsCut(Cut(K, c + 1, c + 0), K, c + 1, c + 0)
    BY <1>3, <2>1, CutIs
  <2>3. (c + 0) - (c + 1) + 1 = 0
    BY <1>3
  <2> QED
    BY <2>2, <2>3 DEF IsCut
<1>11. Joined(head, <<t[j]>>) = Cut(t, 1, j)
  BY CutOneMore
<1> HIDE DEF acc, offset, n, K, head
<1>12. IsIndexed(Joined(K, head))
  BY <1>3, <1>9, JoinIs DEF IsJoin
<1>13. Joined(Joined(K, head), Cut(K, c + 1, c + 0)) = Joined(K, head)
  BY <1>10, <1>12, JoinNone
<1>14. Joined(Joined(K, head), <<t[j]>>) = Joined(K, Cut(t, 1, j))
  BY <1>3, <1>9, <1>11, JoinAssoc
<1>15. WrittenIn(l, t, acc, j) = [units |-> Joined(K, Cut(t, 1, j)), written |-> c, end |-> e[j]]
  <2>1. acc.written + n = c /\ c + 0 = c
    BY <1>2, <1>3, <1>6
  <2> QED
    BY <1>2, <1>6, <1>7, <1>8, <1>13, <1>14, <2>1
<1>16. SoFar(K, c, t, e, j) = [units |-> Joined(K, Cut(t, 1, j)), written |-> c, end |-> e[j]]
  BY <1>1 DEF SoFar
<1> QED
  BY <1>15, <1>16 DEF acc, K

\* Leading controls are written first, all of them at the first character.
LEMMA LedSerialized ==
  ASSUME NEW l, NEW c, Leading(l, c), c = 0 \/ Size(l) > c, NEW t, IsIndexed(t)
  PROVE  SerializedIn(l, t) = Joined(ControlsOf(l), t)
<1> DEFINE K == ControlsOf(l)
           m == Len(t)
           none == [units |-> << >>, written |-> 0, end |-> 0]
           Equation(f) ==
             f = [j \in 0 .. Len(t) |-> IF j = 0 THEN none ELSE WrittenIn(l, t, f[j - 1], j)]
           up == CHOOSE f : Equation(f)
<1>1. m \in Nat /\ IsIndexed(K) /\ Len(K) = c /\ c \in Nat
  <2>1. LedControls(l, c)
    BY LeadingIs
  <2>2. Size(l) \in Nat /\ c \in 0 .. Size(l)
    BY GlyphsIs DEF Leading
  <2> QED
    BY <2>1, <2>2, IndexedSeq DEF LedControls, Size
<1>2. SerializedIn(l, t) = Joined(up[m].units, Cut(K, up[m].written + 1, Len(K)))
  BY DEF SerializedIn, Joined, Cut
<1>3. PICK e : Ends(e, OffsetsOf(l), t, m)
  <2>1. \A j \in DOMAIN OffsetsOf(l) : OffsetsOf(l)[j] \in Nat
    BY LeadingIs DEF LedOffsets
  <2> QED
    BY <1>1, <2>1, EndsExist
<1> DEFINE g == [j \in 0 .. Len(t) |-> SoFar(K, c, t, e, j)]
<1>4. SoFar(K, c, t, e, 0) = none
  BY <1>3 DEF SoFar, Ends
<1>5. ASSUME NEW j \in 1 .. m
      PROVE  WrittenIn(l, t, SoFar(K, c, t, e, j - 1), j) = SoFar(K, c, t, e, j)
  <2>1. Ends(e, OffsetsOf(l), t, Size(t)) /\ j \in 1 .. Size(t)
    BY <1>3 DEF Size
  <2>2. CASE j = 1
    <3>1. 1 - 1 = 0 /\ Size(t) # 0
      BY <1>1 DEF Size
    <3>2. WrittenIn(l, t, SoFar(K, c, t, e, 0), 1) = SoFar(K, c, t, e, 1)
      BY <2>1, <3>1, LedFirst
    <3> QED
      BY <2>2, <3>1, <3>2
  <2>3. CASE j # 1
    BY <2>1, <2>3, LedNext
  <2> QED
    BY <2>2, <2>3
<1>6. \A j \in 0 .. m : g[j] = SoFar(K, c, t, e, j)
  OBVIOUS
<1>7. \A j \in 0 .. m : g[j] = IF j = 0 THEN none ELSE WrittenIn(l, t, g[j - 1], j)
  <2>1. ASSUME NEW j \in 0 .. m, j # 0
        PROVE  g[j] = WrittenIn(l, t, g[j - 1], j)
    <3>1. j \in 1 .. m /\ j - 1 \in 0 .. m
      BY <1>1, <2>1
    <3> HIDE DEF g
    <3> QED
      BY <1>5, <1>6, <3>1
  <2>2. g[0] = none
    BY <1>1, <1>4
  <2> HIDE DEF g, none
  <2> QED
    BY <2>1, <2>2
<1>8. Equation(g)
  <2> DEFINE h == [j \in 0 .. Len(t) |-> IF j = 0 THEN none ELSE WrittenIn(l, t, g[j - 1], j)]
  <2>1. DOMAIN g = 0 .. Len(t) /\ g = [j \in 0 .. Len(t) |-> g[j]]
    OBVIOUS
  <2> HIDE DEF g, none
  <2>2. \A j \in 0 .. Len(t) : g[j] = h[j]
    BY <1>7
  <2>3. g = h
    BY <2>1, <2>2
  <2> QED
    BY <2>3
<1>9. Equation(up)
  <2> HIDE DEF g
  <2> QED
    BY <1>8
<1> HIDE DEF up, none
<1>10. \A j \in 0 .. m : up[j] = IF j = 0 THEN none ELSE WrittenIn(l, t, up[j - 1], j)
  BY <1>9
<1> HIDE DEF g
<1> DEFINE Bad == {j \in 0 .. m : up[j] # g[j]}
<1> HIDE DEF m
<1>11. ASSUME Bad # {} PROVE FALSE
  <2>1. Bad \subseteq Nat
    BY <1>1
  <2>2. PICK j \in Bad : \A h \in Bad : j <= h
    <3> HIDE DEF Bad
    <3> QED
      BY <1>11, <2>1, LeastOf
  <2>3. CASE j = 0
    BY <1>7, <1>10, <2>2, <2>3
  <2>4. CASE j # 0
    <3>1. j \in 0 .. m /\ j - 1 \in 0 .. m /\ j - 1 \notin Bad
      BY <1>1, <2>2, <2>4
    <3>2. up[j - 1] = g[j - 1]
      BY <3>1
    <3>3. up[j] = WrittenIn(l, t, up[j - 1], j) /\ g[j] = WrittenIn(l, t, g[j - 1], j)
      BY <1>7, <1>10, <2>4, <3>1
    <3> QED
      BY <2>2, <3>2, <3>3
  <2> QED
    BY <2>3, <2>4
<1>12. up[m] = SoFar(K, c, t, e, m)
  <2>1. m \in 0 .. m
    BY <1>1
  <2> QED
    BY <1>6, <1>11, <2>1
<1> HIDE DEF K
<1>13. CASE m = 0
  <2>1. up[m].units = << >> /\ up[m].written = 0
    BY <1>12, <1>13 DEF SoFar
  <2>2. IsIndexed(<< >>) /\ Size(<< >>) = 0 /\ 0 + 1 = 1
    BY DEF IsIndexed, Size
  <2>3. Cut(K, 1, Len(K)) = K
    BY <1>1, CutWhole DEF Size
  <2>4. Joined(<< >>, K) = K
    BY <1>1, <2>2, JoinNone
  <2>5. Size(t) = 0
    BY <1>13 DEF m, Size
  <2>6. Joined(K, t) = K
    BY <1>1, <2>5, JoinNone
  <2> QED
    BY <1>2, <2>1, <2>2, <2>3, <2>4, <2>6 DEF K
<1>14. CASE m # 0
  <2>1. up[m].units = Joined(K, Cut(t, 1, m)) /\ up[m].written = c
    BY <1>12, <1>14 DEF SoFar
  <2>2. Cut(t, 1, m) = t
    BY CutWhole DEF m, Size
  <2>3. IsIndexed(Cut(K, c + 1, c)) /\ Size(Cut(K, c + 1, c)) = 0
    <3>1. c + 1 \in Nat \ {0} /\ c <= Size(K) /\ c + 1 <= c + 1
      BY <1>1 DEF Size
    <3>2. IsCut(Cut(K, c + 1, c), K, c + 1, c)
      BY <1>1, <3>1, CutIs
    <3>3. c - (c + 1) + 1 = 0
      BY <1>1
    <3> QED
      BY <3>2, <3>3 DEF IsCut
  <2>4. IsIndexed(Joined(K, t))
    BY <1>1, JoinIs DEF IsJoin
  <2>5. Joined(Joined(K, t), Cut(K, c + 1, c)) = Joined(K, t)
    BY <2>3, <2>4, JoinNone
  <2> QED
    BY <1>1, <1>2, <2>1, <2>2, <2>5 DEF K
<1> QED
  BY <1>13, <1>14

-----------------------------------------------------------------------------
(* What should stand in place of each unit of a layout.                     *)

\* All markers have been replaced in a layout with leading controls.
Opened(c, start) ==
  /\ FillInv
  /\ left = 0
  /\ Leading(layout, c)
  /\ TextFits(TextOf(layout), markers, DoneIn(TextOf(layout), markers, 0),
          ValuesIn(TextOf(layout), markers, values, onMissing), text, deltas, start)

LEMMA OpenedIs ==
  ASSUME NEW c, NEW start, Opened(c, start)
  PROVE  /\ c \in Nat /\ Size(layout) \in Nat /\ c <= Size(layout)
         /\ Size(TextOf(layout)) = Size(layout) - c
         /\ Size(TextOf(layout)) \in Nat
         /\ IsIndexed(layout) /\ DOMAIN layout = 1 .. Size(layout)
         /\ IsIndexed(TextOf(layout)) /\ IsIndexed(text) /\ Size(text) \in Nat
         /\ \A j \in 1 .. Size(TextOf(layout)) :
              TextOf(layout)[j] = layout[c + j].glyph /\ c + j \in 1 .. Size(layout)
         /\ \A k \in 1 .. Size(layout) :
              /\ layout[k] = [glyph |-> layout[k].glyph, shape |-> layout[k].shape]
              /\ layout[k].shape \in Nat
         /\ Order(start, Size(TextOf(layout)), Size(text))
<1>1. FillInv /\ Leading(layout, c)
  BY DEF Opened
<1>2. /\ Size(layout) \in Nat /\ c \in 0 .. Size(layout)
      /\ IsIndexed(layout) /\ DOMAIN layout = 1 .. Size(layout)
  BY <1>1, GlyphsIs DEF Leading
<1>3. LedText(layout, c)
  BY <1>1, LeadingIs
<1>4. IsIndexed(TextOf(layout)) /\ IsIndexed(text)
  BY <1>1, TextGiven
<1>5. Size(text) \in Nat
  BY <1>4, IndexedSeq DEF Size
<1>6. layout \in Layouts
  BY <1>1 DEF FillInv
<1>7. \A k \in 1 .. Size(layout) :
        /\ layout[k] = [glyph |-> layout[k].glyph, shape |-> layout[k].shape]
        /\ layout[k].shape \in Nat
  BY <1>2, <1>6, LayoutAssumption
<1>8. Order(start, Size(TextOf(layout)), Size(text))
  BY DEF Opened, TextFits
<1>9. /\ Size(TextOf(layout)) = Size(layout) - c
      /\ \A j \in 1 .. (Size(layout) - c) : TextOf(layout)[j] = layout[c + j].glyph
  BY <1>3 DEF LedText
<1> DEFINE n == Size(layout)
           s == TextOf(layout)
           z == Size(s)
<1>10. n \in Nat /\ c \in 0 .. n /\ z = n - c
  BY <1>2, <1>9
<1> HIDE DEF n, z
<1>11. c \in Nat /\ c <= n /\ z \in Nat /\ \A j \in 1 .. z : c + j \in 1 .. n
  BY <1>10
<1> QED
  BY <1>2, <1>4, <1>5, <1>7, <1>8, <1>9, <1>11 DEF n, z

LEMMA ControlPiece ==
  ASSUME NEW c, NEW start, Opened(c, start), NEW k \in 1 .. c
  PROVE  InPlaceOf(k) = <<layout[k]>>
<1>1. IsControl(layout, k)
  <2>1. k \in 1 .. Size(layout) /\ k <= c
    BY OpenedIs
  <2> QED
    BY <2>1 DEF Opened, Leading
<1>2. MarkerAt(k) = {}
  BY <1>1 DEF MarkerAt
<1> QED
  BY <1>2 DEF InPlaceOf

LEMMA TextIndexIs ==
  ASSUME NEW c, NEW start, Opened(c, start), NEW j \in 1 .. Size(TextOf(layout))
  PROVE  TextIndex(c + j) = j /\ ~IsControl(layout, c + j)
<1> DEFINE k == c + j
<1>1. /\ c \in Nat /\ j \in Nat /\ k \in 1 .. Size(layout) /\ k \in Nat /\ Size(layout) \in Nat
      /\ \A i \in 1 .. Size(layout) : IsControl(layout, i) <=> i <= c
  <2>1. \A i \in 1 .. Size(layout) : IsControl(layout, i) <=> i <= c
    BY DEF Opened, Leading
  <2> QED
    BY <2>1, OpenedIs
<1>2. {i \in 1 .. k : ~IsControl(layout, i)} = (c + 1) .. (c + j)
  <2>1. \A i \in 1 .. k : i \in 1 .. Size(layout)
    BY <1>1
  <2>2. \A i \in 1 .. k : IsControl(layout, i) <=> i <= c
    BY <1>1, <2>1
  <2> QED
    BY <1>1, <2>2
<1>3. Cardinality((c + 1) .. (c + j)) = j
  <2>1. c + 1 \in Int /\ c + j \in Int /\ c + 1 <= c + j + 1 /\ j \in 1 .. j
    BY <1>1
  <2>2. Cardinality((c + 1) .. (c + j)) = IF c + 1 > c + j THEN 0 ELSE (c + j) - (c + 1) + 1
    BY <2>1, FS_Interval
  <2> QED
    BY <1>1, <2>2
<1>4. ~IsControl(layout, k)
  <2>1. ~(k <= c)
    BY <1>1
  <2> QED
    BY <1>1, <2>1
<1> QED
  BY <1>2, <1>3, <1>4 DEF TextIndex

\* The j-th character has become these units.
IsPiece(p, c, start, j) ==
  /\ IsIndexed(p)
  /\ Size(p) = start[j + 1] - start[j]
  /\ \A i \in 1 .. Size(p) : p[i] = [glyph |-> text[start[j] + i], shape |-> layout[c + j].shape]

\* A character outside of the simple markers is kept.
LEMMA KeptPiece ==
  ASSUME NEW c, NEW start, Opened(c, start), NEW j \in 1 .. Size(TextOf(layout)),
         MarkerAt(c + j) = {}
  PROVE  IsPiece(InPlaceOf(c + j), c, start, j)
<1> DEFINE s == TextOf(layout)
           R == DoneIn(s, markers, 0)
           n == Size(s)
<1>1. TextIndex(c + j) = j /\ ~IsControl(layout, c + j)
  BY TextIndexIs
<1>2. DOMAIN markers = 1 .. Size(markers) /\ Size(markers) \in Nat
  BY TextGiven, IndexedSeq DEF Opened, Size
<1>3. Spared(markers, R, j)
  <2>1. ASSUME NEW q \in R, markers[q].first <= j, j <= markers[q].last
        PROVE  FALSE
    <3>1. q \in 1 .. Size(markers) /\ IsSimple(s, markers[q])
      BY <1>2 DEF DoneIn
    <3>2. MarkersFrom(markers, 1, Size(s))
      BY TextGiven DEF Opened, Filling
    <3>3. markers[q].first \in 1 .. n /\ markers[q].last \in (markers[q].first + 1) .. n
      BY <3>1, <3>2 DEF MarkersFrom
    <3>4. n \in Nat /\ j \in 1 .. n
      BY OpenedIs
    <3> HIDE DEF n
    <3>5. j \in markers[q].first .. markers[q].last
      BY <2>1, <3>3, <3>4
    <3>6. q \in MarkerAt(c + j)
      BY <1>1, <1>2, <3>1, <3>5 DEF MarkerAt
    <3> QED
      BY <3>6
  <2> QED
    BY <2>1 DEF Spared
<1>4. start[j + 1] = start[j] + 1 /\ text[start[j] + 1] = s[j]
  BY <1>3 DEF Opened, TextFits, Keeps
<1>5. s[j] = layout[c + j].glyph
  BY OpenedIs
<1>6. layout[c + j] = [glyph |-> layout[c + j].glyph, shape |-> layout[c + j].shape]
  <2>1. c + j \in 1 .. Size(layout)
    BY OpenedIs
  <2> QED
    BY <2>1, OpenedIs
<1>7. InPlaceOf(c + j) = <<layout[c + j]>>
  BY DEF InPlaceOf
<1>8. IsIndexed(InPlaceOf(c + j)) /\ Size(InPlaceOf(c + j)) = 1 /\ InPlaceOf(c + j)[1] = layout[c + j]
  BY <1>7, OneIs
<1>9. start[j] \in Nat
  <2>1. n \in Nat /\ j \in 1 .. n /\ start \in [1 .. (n + 1) -> Nat]
    BY OpenedIs DEF Order
  <2> HIDE DEF n
  <2>2. j \in 1 .. (n + 1)
    BY <2>1
  <2> QED
    BY <2>1, <2>2
<1> HIDE DEF s
<1>10. start[j + 1] - start[j] = 1
  BY <1>4, <1>9
<1>11. layout[c + j] = [glyph |-> text[start[j] + 1], shape |-> layout[c + j].shape]
  BY <1>4, <1>5, <1>6
<1>12. \A i \in 1 .. Size(InPlaceOf(c + j)) :
         InPlaceOf(c + j)[i] = [glyph |-> text[start[j] + i], shape |-> layout[c + j].shape]
  <2>1. ASSUME NEW i \in 1 .. Size(InPlaceOf(c + j)) PROVE i = 1
    BY <1>8
  <2> QED
    BY <1>8, <1>11, <2>1
<1> QED
  BY <1>8, <1>10, <1>12 DEF IsPiece

\* An opening gives way to its value, and the rest of its marker to nothing.
LEMMA FilledPiece ==
  ASSUME NEW c, NEW start, Opened(c, start), NEW j \in 1 .. Size(TextOf(layout)),
         MarkerAt(c + j) # {}
  PROVE  IsPiece(InPlaceOf(c + j), c, start, j)
<1> DEFINE s == TextOf(layout)
           R == DoneIn(s, markers, 0)
           n == Size(s)
           val == ValuesIn(s, markers, values, onMissing)
           q == CHOOSE i \in MarkerAt(c + j) : TRUE
           m == markers[q]
           v == Resolve(Inner(s, m)).value
           p == InPlaceOf(c + j)
<1>1. TextIndex(c + j) = j
  BY TextIndexIs
<1>2. DOMAIN markers = 1 .. Size(markers) /\ Size(markers) \in Nat
  BY TextGiven, IndexedSeq DEF Opened, Size
<1>3. q \in MarkerAt(c + j)
  OBVIOUS
<1>4. p = IF j # m.first THEN << >>
          ELSE [i \in DOMAIN v |-> [glyph |-> v[i], shape |-> layout[c + j].shape]]
  BY <1>1 DEF InPlaceOf
<1> HIDE DEF q
<1>5. q \in 1 .. Size(markers) /\ j \in m.first .. m.last /\ IsSimple(s, m)
  BY <1>1, <1>2, <1>3 DEF MarkerAt
<1>6. q \in R
  <2>1. q \in (0 + 1) .. Size(markers)
    BY <1>2, <1>5
  <2> QED
    BY <1>5, <2>1 DEF DoneIn
<1>7. val[q] = v
  <2>1. Resolve(Inner(s, m)) = ResolveIn(Inner(s, m), values, onMissing)
    BY ResolveSame
  <2> QED
    BY <1>2, <1>5, <2>1 DEF ValuesIn
<1>8. IsIndexed(val[q]) /\ FillsOne(markers[q], val[q], text, start)
  BY <1>6 DEF Opened, TextFits
<1>9. IsIndexed(v) /\ FillsOne(m, v, text, start)
  BY <1>7, <1>8
<1>10. m.first \in 1 .. n /\ m.last \in (m.first + 1) .. n /\ n \in Nat /\ j \in 1 .. n
  <2>1. MarkersFrom(markers, 1, Size(s))
    BY TextGiven DEF Opened, Filling
  <2>2. n \in Nat /\ j \in 1 .. n
    BY OpenedIs
  <2> QED
    BY <1>5, <2>1, <2>2 DEF MarkersFrom
<1>11. start[j] \in Nat
  <2>1. start \in [1 .. (n + 1) -> Nat]
    BY OpenedIs DEF Order
  <2> HIDE DEF n
  <2>2. j \in 1 .. (n + 1)
    BY <1>10
  <2> QED
    BY <2>1, <2>2
<1>12. DOMAIN v = 1 .. Size(v) /\ Size(v) \in Nat
  BY <1>9, IndexedSeq DEF Size
<1> HIDE DEF s, m, v, val, R, p, n
<1>13. CASE j = m.first
  <2>1. p = [i \in 1 .. Size(v) |-> [glyph |-> v[i], shape |-> layout[c + j].shape]]
    BY <1>4, <1>12, <1>13
  <2>2. p = [i \in 1 .. Size(v) |-> p[i]]
    BY <2>1
  <2>3. IsIndexed(p) /\ Size(p) = Size(v)
    BY <1>12, <2>2, MakeIndexed
  <2>4. start[j + 1] = start[j] + Size(v) /\ \A i \in 1 .. Size(v) : text[start[j] + i] = v[i]
    BY <1>9, <1>13 DEF FillsOne
  <2>5. Size(p) = start[j + 1] - start[j]
    BY <1>11, <1>12, <2>3, <2>4
  <2>6. \A i \in 1 .. Size(p) : p[i] = [glyph |-> text[start[j] + i], shape |-> layout[c + j].shape]
    BY <2>1, <2>3, <2>4
  <2> QED
    BY <2>3, <2>5, <2>6 DEF IsPiece, p
<1>14. CASE j # m.first
  <2>1. j \in (m.first + 1) .. m.last
    BY <1>5, <1>10, <1>14
  <2>2. start[j + 1] = start[j]
    BY <1>9, <2>1 DEF FillsOne
  <2>3. p = << >>
    BY <1>4, <1>14
  <2>4. IsIndexed(p) /\ Size(p) = 0
    BY <2>3 DEF IsIndexed, Size
  <2>5. Size(p) = start[j + 1] - start[j]
    BY <1>11, <2>2, <2>4
  <2>6. \A i \in 1 .. Size(p) : p[i] = [glyph |-> text[start[j] + i], shape |-> layout[c + j].shape]
    BY <2>4
  <2> QED
    BY <2>4, <2>5, <2>6 DEF IsPiece, p
<1> QED
  BY <1>13, <1>14

\* Where the units of a layout end.
EndsOf(c, start, n) == [k \in 0 .. n |-> IF k <= c THEN k ELSE c + start[k - c + 1]]
InPlace == [k \in DOMAIN layout |-> InPlaceOf(k)]

LEMMA OpenedPieces ==
  ASSUME NEW c, NEW start, Opened(c, start)
  PROVE  /\ IsIndexed(InPlace) /\ Size(InPlace) = Size(layout)
         /\ Pieces(InPlace, EndsOf(c, start, Size(layout)), Size(layout))
<1> DEFINE n == Size(layout)
           z == Size(TextOf(layout))
           S == EndsOf(c, start, n)
           P == InPlace
<1>1. /\ n \in Nat /\ c \in Nat /\ c <= n /\ z = n - c /\ DOMAIN layout = 1 .. n
      /\ start \in [1 .. (z + 1) -> Nat] /\ start[1] = 0
  BY OpenedIs DEF Order
<1> HIDE DEF z
<1>2. IsIndexed(P) /\ Size(P) = n
  <2>1. P = [k \in 1 .. n |-> P[k]]
    BY <1>1 DEF InPlace
  <2> HIDE DEF P, n
  <2> QED
    BY <1>1, <2>1, MakeIndexed
<1>3. \A k \in 0 .. n : S[k] = IF k <= c THEN k ELSE c + start[k - c + 1]
  BY DEF EndsOf
<1>4. \A k \in 1 .. n : P[k] = InPlaceOf(k)
  BY <1>1 DEF InPlace
<1>5. DOMAIN S = 0 .. n /\ S = [k \in 0 .. n |-> S[k]]
  BY DEF EndsOf
<1> HIDE DEF S, P
<1>6. ASSUME NEW k \in 1 .. c
      PROVE  IsIndexed(P[k]) /\ Size(P[k]) \in Nat /\ S[k] = S[k - 1] + Size(P[k])
  <2>1. k \in 1 .. n /\ k \in 0 .. n /\ k - 1 \in 0 .. n /\ k <= c /\ k - 1 <= c /\ k \in Nat
    BY <1>1
  <2>2. InPlaceOf(k) = <<layout[k]>>
    BY ControlPiece
  <2>3. IsIndexed(P[k]) /\ Size(P[k]) = 1
    BY <1>4, <2>1, <2>2, OneIs
  <2>4. S[k] = k /\ S[k - 1] = k - 1
    BY <1>3, <2>1
  <2> HIDE DEF n
  <2> QED
    BY <2>1, <2>3, <2>4
<1>7. ASSUME NEW j \in 1 .. z
      PROVE  /\ IsIndexed(P[c + j]) /\ Size(P[c + j]) \in Nat
             /\ S[c + j] = S[(c + j) - 1] + Size(P[c + j])
  <2>1. IsPiece(InPlaceOf(c + j), c, start, j)
    <3>1. j \in 1 .. Size(TextOf(layout))
      BY DEF z
    <3> QED
      BY <3>1, KeptPiece, FilledPiece
  <2>2. /\ c + j \in 1 .. n /\ c + j \in 0 .. n /\ (c + j) - 1 \in 0 .. n /\ ~(c + j <= c)
        /\ (c + j) - c + 1 = j + 1 /\ ((c + j) - 1) - c + 1 = j /\ j \in 1 .. (z + 1)
        /\ j + 1 \in 1 .. (z + 1) /\ ((c + j) - 1 <= c <=> j = 1)
    BY <1>1
  <2>3. IsIndexed(P[c + j]) /\ Size(P[c + j]) = start[j + 1] - start[j]
    BY <1>4, <2>1, <2>2 DEF IsPiece
  <2>4. start[j] \in Nat /\ start[j + 1] \in Nat
    BY <1>1, <2>2
  <2>5. S[c + j] = c + start[j + 1]
    BY <1>3, <2>2
  <2>6. S[(c + j) - 1] = c + start[j]
    <3>1. CASE j = 1
      <4>1. (c + j) - 1 <= c /\ (c + j) - 1 = c
        BY <1>1, <3>1
      <4>2. S[(c + j) - 1] = c
        BY <1>3, <2>2, <4>1
      <4> QED
        BY <1>1, <3>1, <4>2
    <3>2. CASE j # 1
      BY <1>3, <2>2, <3>2
    <3> QED
      BY <3>1, <3>2
  <2>7. Size(P[c + j]) \in Nat
    BY <2>3, IndexedSeq DEF Size
  <2> QED
    BY SMTT(60), <1>1, <2>3, <2>4, <2>5, <2>6, <2>7
<1>8. ASSUME NEW k \in 1 .. n
      PROVE  IsIndexed(P[k]) /\ Size(P[k]) \in Nat /\ S[k] = S[k - 1] + Size(P[k])
  <2>1. CASE k <= c
    <3>1. k \in 1 .. c
      BY <1>1, <2>1
    <3> QED
      BY <1>6, <3>1
  <2>2. CASE ~(k <= c)
    <3> DEFINE h == k - c
    <3>1. h \in 1 .. z /\ c + h = k
      BY <1>1, <2>2
    <3> HIDE DEF h
    <3>2. /\ IsIndexed(P[c + h]) /\ Size(P[c + h]) \in Nat
          /\ S[c + h] = S[(c + h) - 1] + Size(P[c + h])
      BY <1>7, <3>1
    <3> QED
      BY <3>1, <3>2
  <2> QED
    BY <2>1, <2>2
<1>9. S \in [0 .. n -> Nat] /\ S[0] = 0
  <2>1. ASSUME NEW k \in 0 .. n
        PROVE  S[k] \in Nat
    <3>1. CASE k <= c
      BY <1>1, <1>3, <3>1
    <3>2. CASE ~(k <= c)
      <4>1. k - c + 1 \in 1 .. (z + 1)
        BY <1>1, <3>2
      <4>2. start[k - c + 1] \in Nat
        BY <1>1, <4>1
      <4> QED
        BY <1>1, <1>3, <3>2, <4>2
    <3> QED
      BY <3>1, <3>2
  <2>2. 0 \in 0 .. n /\ 0 <= c
    BY <1>1
  <2> QED
    BY <1>3, <1>5, <2>1, <2>2
<1> HIDE DEF n
<1>10. Pieces(P, S, n)
  BY <1>1, <1>8, <1>9 DEF Pieces
<1> QED
  BY <1>2, <1>10 DEF n, P, S

IsExpected(F, c, start) ==
  /\ IsIndexed(F)
  /\ Size(F) = c + Size(text)
  /\ \A k \in 1 .. c : F[k] = layout[k]
  /\ \A j \in 1 .. Size(TextOf(layout)) : \A y \in (start[j] + 1) .. start[j + 1] :
       F[c + y] = [glyph |-> text[y], shape |-> layout[c + j].shape]

\* What is expected, unit by unit of the filled text.
LEMMA ExpectedUnitsIs ==
  ASSUME NEW c, NEW start, Opened(c, start)
  PROVE  IsExpected(ExpectedUnits, c, start)
<1> DEFINE n == Size(layout)
           z == Size(TextOf(layout))
           S == EndsOf(c, start, n)
           P == InPlace
<1>1. IsIndexed(P) /\ Size(P) = n /\ Pieces(P, S, n)
  BY OpenedPieces
<1>2. PICK F : IsFlat(F, P, S, n)
  <2> HIDE DEF S, P, n
  <2> QED
    BY <1>1, FlatExists
<1>3. ExpectedUnits = F
  <2>1. FlattenSeq(P) = F
    <3>1. Pieces(P, S, Size(P)) /\ IsFlat(F, P, S, Size(P))
      BY <1>1, <1>2
    <3> HIDE DEF S, P, n
    <3> QED
      BY <1>1, <3>1, FlattenIs
  <2> QED
    BY <2>1 DEF ExpectedUnits, InPlace
<1>4. /\ n \in Nat /\ c \in Nat /\ c <= n /\ z = n - c /\ DOMAIN layout = 1 .. n
      /\ start \in [1 .. (z + 1) -> Nat] /\ start[1] = 0 /\ start[z + 1] = Size(text)
  BY OpenedIs DEF Order
<1>5. \A k \in 0 .. n : S[k] = IF k <= c THEN k ELSE c + start[k - c + 1]
  BY DEF EndsOf
<1>6. \A k \in 1 .. n : P[k] = InPlaceOf(k)
  BY <1>4 DEF InPlace
<1> HIDE DEF S, P
<1>7. /\ IsIndexed(F) /\ Size(F) = S[n]
      /\ \A k \in 1 .. n : \A i \in 1 .. Size(P[k]) : F[S[k - 1] + i] = P[k][i]
  BY <1>2 DEF IsFlat
<1>8. S[n] = c + Size(text)
  <2>1. n \in 0 .. n /\ n - c + 1 = z + 1
    BY <1>4
  <2>2. CASE n <= c
    <3>1. z + 1 = 1 /\ n = c
      BY <1>4, <2>2
    <3>2. Size(text) = 0
      BY <1>4, <3>1
    <3>3. S[n] = n
      BY <1>5, <2>1, <2>2
    <3> HIDE DEF n, z
    <3> QED
      BY <1>4, <3>1, <3>2, <3>3
  <2>3. CASE ~(n <= c)
    BY <1>4, <1>5, <2>1, <2>3
  <2> QED
    BY <2>2, <2>3
<1>9. ASSUME NEW k \in 1 .. c
      PROVE  F[k] = layout[k]
  <2>1. k \in 1 .. n /\ k - 1 \in 0 .. n /\ k - 1 <= c /\ (k - 1) + 1 = k
    BY <1>4
  <2>2. P[k] = <<layout[k]>>
    BY <1>6, <2>1, ControlPiece
  <2>3. Size(P[k]) = 1 /\ P[k][1] = layout[k]
    BY <2>2, OneIs
  <2>4. 1 \in 1 .. Size(P[k])
    BY <2>3
  <2>5. F[S[k - 1] + 1] = P[k][1]
    BY <1>7, <2>1, <2>4
  <2>6. S[k - 1] = k - 1
    BY <1>5, <2>1
  <2> QED
    BY <2>1, <2>3, <2>5, <2>6
<1>10. ASSUME NEW j \in 1 .. z, NEW y \in (start[j] + 1) .. start[j + 1]
       PROVE  F[c + y] = [glyph |-> text[y], shape |-> layout[c + j].shape]
  <2>1. IsPiece(InPlaceOf(c + j), c, start, j)
    BY KeptPiece, FilledPiece
  <2> HIDE DEF z
  <2>2. /\ c + j \in 1 .. n /\ (c + j) - 1 \in 0 .. n /\ j \in 1 .. (z + 1) /\ j + 1 \in 1 .. (z + 1)
        /\ ((c + j) - 1) - c + 1 = j /\ ((c + j) - 1 <= c <=> j = 1) /\ (j = 1 => (c + j) - 1 = c)
    BY <1>4
  <2>3. start[j] \in Nat /\ start[j + 1] \in Nat
    BY <1>4, <2>2
  <2>4. P[c + j] = InPlaceOf(c + j)
    BY <1>6, <2>2
  <2>5. S[(c + j) - 1] = c + start[j]
    <3>1. CASE j = 1
      <4>1. S[(c + j) - 1] = (c + j) - 1
        BY <1>5, <2>2, <3>1
      <4> QED
        BY <1>4, <2>2, <3>1, <4>1
    <3>2. CASE j # 1
      BY <1>5, <2>2, <3>2
    <3> QED
      BY <3>1, <3>2
  <2> DEFINE a == start[j]
             b == start[j + 1]
             i == y - a
             k == c + j
  <2>6. i \in 1 .. (start[j + 1] - start[j]) /\ start[j] + i = y /\ (c + start[j]) + i = c + y
    <3>1. a \in Nat /\ b \in Nat /\ y \in (a + 1) .. b /\ c \in Nat
      BY <1>4, <2>3
    <3> HIDE DEF a, b
    <3>2. i \in 1 .. (b - a) /\ a + i = y /\ (c + a) + i = c + y
      BY <3>1
    <3> QED
      BY <3>2 DEF a, b
  <2> HIDE DEF i
  <2>7. i \in 1 .. Size(P[c + j])
    BY <2>1, <2>4, <2>6 DEF IsPiece
  <2>8. F[S[(c + j) - 1] + i] = P[c + j][i]
    <3>1. k \in 1 .. n /\ i \in 1 .. Size(P[k])
      BY <2>2, <2>7
    <3> HIDE DEF k
    <3>2. F[S[k - 1] + i] = P[k][i]
      BY <1>7, <3>1
    <3> QED
      BY <3>2 DEF k
  <2>9. P[c + j][i] = [glyph |-> text[start[j] + i], shape |-> layout[c + j].shape]
    BY <2>1, <2>4, <2>7 DEF IsPiece
  <2> QED
    BY <2>5, <2>6, <2>8, <2>9
<1> QED
  BY <1>3, <1>7, <1>8, <1>9, <1>10 DEF IsExpected

\* Every character of the filled text comes from one of the text as it was.
LEMMA StartLocated ==
  ASSUME NEW n \in Nat, NEW m \in Nat, NEW start, Order(start, n, m), NEW y \in 1 .. m
  PROVE  \E j \in 1 .. n : start[j] < y /\ y <= start[j + 1]
<1> DEFINE Reached == {j \in 1 .. (n + 1) : y <= start[j]}
<1>1. /\ \A j \in 1 .. (n + 1) : start[j] \in Nat
      /\ start[1] = 0 /\ start[n + 1] = m
  BY DEF Order
<1>2. n + 1 \in Reached /\ Reached \subseteq Nat
  BY <1>1
<1>3. PICK k \in Reached : \A h \in Reached : k <= h
  <2> HIDE DEF Reached
  <2> QED
    BY <1>2, LeastOf
<1>4. k # 1
  BY <1>1, <1>3
<1>5. k - 1 \in 1 .. n /\ k - 1 \in 1 .. (n + 1) /\ (k - 1) + 1 = k /\ k - 1 \notin Reached
  BY <1>3, <1>4
<1>6. start[k - 1] < y
  BY <1>1, <1>5
<1>7. y <= start[(k - 1) + 1]
  BY <1>3, <1>5
<1> QED
  BY <1>5, <1>6, <1>7

LEMMA OpenedWhen ==
  ASSUME FillInv, stage \in {"filled", "saved"}, NEW c, Leading(layout, c)
  PROVE  \E start : Opened(c, start)
<1>1. left = 0
  BY DEF FillInv
<1>2. PICK start : TextFits(TextOf(layout), markers, DoneIn(TextOf(layout), markers, left),
                        ValuesIn(TextOf(layout), markers, values, onMissing), text, deltas, start)
  BY TextGiven DEF Filling
<1>3. Opened(c, start)
  BY <1>1, <1>2 DEF Opened
<1> QED
  BY <1>3

\* The saved units are the controls and then the text, and so are the expected.
LEMMA LeadingFollow ==
  ASSUME FillInv
  PROVE  LeadingControlsStay
<1> SUFFICES ASSUME stage = "saved", text # << >>,
                    \A k \in DOMAIN layout :
                      IsControl(layout, k) => \A j \in 1 .. k : IsControl(layout, j)
             PROVE  saved = Glyphs(ExpectedUnits)
  BY DEF LeadingControlsStay
<1>1. PICK c : Leading(layout, c)
  BY TextGiven, LeadsBy
<1>2. PICK start : Opened(c, start)
  BY <1>1, OpenedWhen
<1> DEFINE K == ControlsOf(layout)
           s == TextOf(layout)
           F == ExpectedUnits
           G == Glyphs(F)
           w == Joined(K, text)
<1>3. /\ c \in Nat /\ Size(layout) \in Nat /\ c <= Size(layout)
      /\ IsIndexed(text) /\ Size(text) \in Nat
      /\ Size(s) = Size(layout) - c /\ Size(s) \in Nat
      /\ Order(start, Size(s), Size(text))
  BY <1>2, OpenedIs
<1>4. Size(layout) > c
  <2>1. ASSUME Size(s) = 0 PROVE FALSE
    <3>1. Size(text) = 0
      <4>1. start[1] = 0 /\ start[0 + 1] = Size(text)
        BY <1>3, <2>1 DEF Order
      <4> QED
        BY <4>1
    <3>2. IsIndexed(<< >>) /\ Size(<< >>) = 0
      BY DEF IsIndexed, Size
    <3>3. text = << >>
      BY <1>3, <3>1, <3>2, SameSeq
    <3> QED
      BY <3>3
  <2> HIDE DEF s
  <2> QED
    BY <1>3, <2>1
<1>5. saved = w
  <2>1. saved = SerializedIn(layout, text)
    BY DEF FillInv
  <2> QED
    BY <1>1, <1>3, <1>4, <2>1, LedSerialized
<1>6. LedControls(layout, c)
  BY <1>1, LeadingIs
<1>7. IsJoin(w, K, text)
  BY <1>3, <1>6, JoinIs DEF LedControls
<1>8. IsExpected(F, c, start)
  BY <1>2, ExpectedUnitsIs
<1> HIDE DEF w, K, F
<1>9. /\ IsIndexed(w) /\ Size(w) = c + Size(text)
      /\ \A k \in 1 .. c : w[k] = layout[k].glyph
      /\ \A y \in 1 .. Size(text) : w[c + y] = text[y]
  BY <1>6, <1>7 DEF IsJoin, LedControls, K
<1>10. /\ IsIndexed(G) /\ Size(G) = c + Size(text)
       /\ \A k \in 1 .. (c + Size(text)) : G[k] = F[k].glyph
  <2>1. IsIndexed(F) /\ Size(F) = c + Size(text)
    BY <1>8 DEF IsExpected
  <2> QED
    BY <2>1, GlyphsIs
<1> HIDE DEF G
<1>11. ASSUME NEW k \in 1 .. (c + Size(text))
       PROVE  w[k] = G[k]
  <2>1. CASE k <= c
    <3>1. k \in 1 .. c
      BY <1>3, <2>1
    <3>2. F[k] = layout[k]
      BY <1>8, <3>1 DEF IsExpected
    <3> QED
      BY <1>9, <1>10, <3>1, <3>2
  <2>2. CASE ~(k <= c)
    <3> DEFINE y == k - c
    <3>1. y \in 1 .. Size(text) /\ c + y = k
      BY <1>3, <2>2
    <3> HIDE DEF y
    <3>2. PICK j \in 1 .. Size(s) : start[j] < y /\ y <= start[j + 1]
      BY <1>3, <3>1, StartLocated
    <3>3. start[j] \in Nat /\ start[j + 1] \in Nat
      <4>1. start \in [1 .. (Size(s) + 1) -> Nat]
        BY <1>3 DEF Order
      <4>2. j \in 1 .. (Size(s) + 1) /\ j + 1 \in 1 .. (Size(s) + 1)
        BY <1>3
      <4> QED
        BY <4>1, <4>2
    <3>4. y \in (start[j] + 1) .. start[j + 1]
      BY <3>1, <3>2, <3>3
    <3>5. F[c + y] = [glyph |-> text[y], shape |-> layout[c + j].shape]
      BY <1>8, <3>2, <3>4 DEF IsExpected
    <3>6. F[c + y].glyph = text[y]
      BY <3>5
    <3> QED
      BY <1>9, <1>10, <3>1, <3>6
  <2> QED
    BY <2>1, <2>2
<1>12. w = G
  BY <1>9, <1>10, <1>11, SameSeq
<1> QED
  BY <1>5, <1>12 DEF G, F

-----------------------------------------------------------------------------
(* The shapes of a paragraph without controls.                              *)

\* The shape of a unit is that of the last change up to it.
LEMMA LastChange ==
  ASSUME NEW l \in Layouts, NEW j \in 1 .. Size(l),
         NEW b \in 1 .. Size(Ascending(Changes(l))), Ascending(Changes(l))[b] <= j,
         \A a \in 1 .. Size(Ascending(Changes(l))) : Ascending(Changes(l))[a] <= j => a <= b
  PROVE  l[Ascending(Changes(l))[b]].shape = l[j].shape
<1> DEFINE A == Ascending(Changes(l))
           n == Size(l)
           k == A[b]
           Bad == {i \in k .. j : l[i].shape # l[k].shape}
<1>1. /\ n \in Nat /\ DOMAIN l = 1 .. n /\ k \in 1 .. n /\ Places(Changes(l))
      /\ Size(A) \in Nat
  BY ShapesIs, GlyphsIs, AscendingIs
<1>2. /\ \A i \in Changes(l) : \E a \in 1 .. Size(A) : A[a] = i
      /\ \A a, d \in 1 .. Size(A) : a < d => A[a] < A[d]
  BY <1>1, AscendingIs
<1>3. (\A a \in 1 .. Size(A) : A[a] <= j => a <= b) /\ k <= j /\ j \in 1 .. n
  OBVIOUS
<1> HIDE DEF A, n
<1>4. ASSUME Bad # {} PROVE FALSE
  <2>1. Bad \subseteq Nat
    BY <1>1
  <2>2. PICK i \in Bad : \A h \in Bad : i <= h
    <3> HIDE DEF Bad
    <3> QED
      BY <1>4, <2>1, LeastOf
  <2>3. i # k
    BY <2>2
  <2>4. i \in 1 .. n /\ i - 1 \in k .. j /\ i <= j /\ k < i /\ i - 1 \notin Bad
    BY <1>1, <2>2, <2>3 DEF n
  <2>5. l[i].shape # l[i - 1].shape
    BY <2>2, <2>4
  <2>6. i \in Changes(l)
    BY <1>1, <2>4, <2>5 DEF Changes
  <2>7. PICK a \in 1 .. Size(A) : A[a] = i
    BY <1>2, <2>6
  <2>8. a <= b
    BY <1>3, <2>4, <2>7
  <2>9. a # b
    BY <2>4, <2>7
  <2>10. A[a] < A[b]
    BY <1>1, <1>2, <2>8, <2>9 DEF A
  <2> QED
    BY <1>1, <2>4, <2>7, <2>10
<1>5. j \in k .. j
  BY <1>1, <1>3
<1>6. j \notin Bad
  BY <1>4
<1> HIDE DEF k
<1>7. l[j].shape = l[k].shape
  BY <1>5, <1>6
<1> QED
  BY <1>7 DEF k, A

\* Without a split marker, every shape starts where its start is known.
LEMMA SplitFree ==
  ASSUME NEW start, Opened(0, start), ~SplitMarker, NEW k \in Changes(layout)
  PROVE  Passable(markers, DoneIn(TextOf(layout), markers, 0), k)
<1> DEFINE s == TextOf(layout)
           R == DoneIn(s, markers, 0)
           n == Size(s)
<1>1. /\ n \in Nat /\ Size(layout) = n /\ DOMAIN layout = 1 .. n
      /\ k \in 1 .. n /\ k \in DOMAIN layout
  <2>1. Size(layout) \in Nat /\ n = Size(layout) - 0 /\ DOMAIN layout = 1 .. Size(layout) /\ n \in Nat
    BY OpenedIs
  <2>2. k \in DOMAIN layout
    BY DEF Changes
  <2> HIDE DEF n
  <2> QED
    BY <2>1, <2>2
<1>2. DOMAIN markers = 1 .. Size(markers) /\ Size(markers) \in Nat
  BY TextGiven, IndexedSeq DEF Opened, Size
<1>3. MarkersFrom(markers, 1, Size(s))
  BY TextGiven DEF Opened, Filling
<1> SUFFICES ASSUME NEW q \in R, markers[q].first < k, k <= markers[q].last
             PROVE  FALSE
  BY DEF Passable
<1>4. q \in 1 .. Size(markers) /\ IsSimple(s, markers[q])
  BY <1>2 DEF DoneIn
<1>5. /\ \A p \in 1 .. Size(markers) : /\ markers[p].first \in 1 .. n
                                       /\ markers[p].last \in (markers[p].first + 1) .. n
      /\ \A p, r \in 1 .. Size(markers) : p < r => markers[p].last < markers[r].first
  BY <1>3 DEF MarkersFrom
<1>6. k > 1 /\ k - 1 \in 1 .. n
  BY <1>1, <1>4, <1>5
<1>7. layout[k].shape # layout[k - 1].shape
  BY <1>6 DEF Changes
<1>8. \A j \in 1 .. n : TextIndex(j) = j /\ ~IsControl(layout, j)
  <2>1. ASSUME NEW j \in 1 .. n
        PROVE  TextIndex(j) = j /\ ~IsControl(layout, j)
    <3>1. TextIndex(0 + j) = j /\ ~IsControl(layout, 0 + j)
      BY TextIndexIs
    <3>2. 0 + j = j
      BY <1>1
    <3> QED
      BY <3>1, <3>2
  <2> QED
    BY <2>1
<1> HIDE DEF s, n
<1>9. ASSUME NEW j \in 1 .. n, markers[q].first <= j, j <= markers[q].last
      PROVE  MarkerAt(j) = {q}
  <2>1. MarkerAt(j)
          = {p \in 1 .. Size(markers) : j \in markers[p].first .. markers[p].last
                                        /\ IsSimple(s, markers[p])}
    BY <1>2, <1>8 DEF MarkerAt, s
  <2>2. j \in markers[q].first .. markers[q].last
    BY <1>1, <1>4, <1>5, <1>9
  <2>3. ASSUME NEW p \in 1 .. Size(markers), j \in markers[p].first .. markers[p].last
        PROVE  p = q
    <3>1. ASSUME p < q PROVE FALSE
      <4>1. markers[p].last < markers[q].first
        BY <1>4, <1>5, <3>1
      <4>2. /\ markers[p].last \in Int /\ markers[q].first \in Int /\ j \in Int
            /\ j <= markers[p].last /\ markers[q].first <= j
        BY <1>1, <1>4, <1>5, <1>9, <2>3
      <4> QED
        BY <4>1, <4>2
    <3>2. ASSUME q < p PROVE FALSE
      <4>1. markers[q].last < markers[p].first
        BY <1>4, <1>5, <3>2
      <4>2. /\ markers[q].last \in Int /\ markers[p].first \in Int /\ j \in Int
            /\ j <= markers[q].last /\ markers[p].first <= j
        BY <1>1, <1>4, <1>5, <1>9, <2>3
      <4> QED
        BY <4>1, <4>2
    <3>3. p \in Int /\ q \in Int
      BY <1>4
    <3> QED
      BY <3>1, <3>2, <3>3
  <2> QED
    BY <1>4, <2>1, <2>2, <2>3
<1>10. MarkerAt(k) = {q}
  <2>1. markers[q].first <= k
    BY <1>1, <1>4, <1>5
  <2> QED
    BY <1>1, <1>9, <2>1
<1>11. MarkerAt(k - 1) = {q}
  <2>1. markers[q].first <= k - 1 /\ k - 1 <= markers[q].last
    BY <1>1, <1>4, <1>5
  <2> QED
    BY <1>6, <1>9, <2>1
<1> QED
  BY <1>1, <1>6, <1>7, <1>10, <1>11 DEF SplitMarker

\* Without controls the text is the glyphs.
LEMMA PlainText ==
  ASSUME NEW start, Opened(0, start)
  PROVE  /\ TextOf(layout) = Glyphs(layout)
         /\ Size(layout) = Size(TextOf(layout))
<1>1. /\ IsIndexed(TextOf(layout)) /\ Size(layout) \in Nat
      /\ Size(TextOf(layout)) = Size(layout) - 0
      /\ \A j \in 1 .. Size(TextOf(layout)) : TextOf(layout)[j] = layout[0 + j].glyph
      /\ IsIndexed(layout)
  BY OpenedIs
<1>2. /\ IsIndexed(Glyphs(layout)) /\ Size(Glyphs(layout)) = Size(layout)
      /\ \A k \in 1 .. Size(layout) : Glyphs(layout)[k] = layout[k].glyph
  BY <1>1, GlyphsIs
<1>3. Size(TextOf(layout)) = Size(layout)
  BY <1>1
<1>4. \A j \in 1 .. Size(TextOf(layout)) : TextOf(layout)[j] = Glyphs(layout)[j]
  <2>1. \A j \in 1 .. Size(TextOf(layout)) : 0 + j = j /\ j \in 1 .. Size(layout)
    BY <1>1, <1>3
  <2> QED
    BY <1>1, <1>2, <2>1
<1> QED
  BY <1>1, <1>2, <1>3, <1>4, SameSeq

\* A shape that no marker splits starts where what is left of its unit does.
LEMMA ShapePlaced ==
  ASSUME NEW start, Opened(0, start), ~SplitMarker, stage \in {"filled", "saved"},
         NEW b \in 1 .. Size(Ascending(Changes(layout)))
  PROVE  /\ DOMAIN shapes = 1 .. Size(Ascending(Changes(layout)))
         /\ Ascending(Changes(layout))[b] \in 1 .. Size(layout)
         /\ shapes[b] = [pos |-> WidthTo(text, start[Ascending(Changes(layout))[b]]),
                         id |-> layout[Ascending(Changes(layout))[b]].shape]
<1> DEFINE A == Ascending(Changes(layout))
           H == ShapesOf(layout)
           s == TextOf(layout)
           n == Size(s)
           k == A[b]
           w == WidthTo(s, k - 1)
<1>1. layout \in Layouts /\ shapes = MovedShapes(H, deltas)
  BY DEF Opened, FillInv
<1>2. /\ Size(H) = Size(A) /\ DOMAIN H = 1 .. Size(H)
      /\ k \in 1 .. Size(layout) /\ k \in Changes(layout)
      /\ H[b] = [pos |-> PosIn(layout, k), id |-> layout[k].shape]
  <2>1. Size(H) = Size(A) /\ DOMAIN H = 1 .. Size(H)
    BY <1>1, ShapesIs
  <2>2. b \in 1 .. Size(H)
    BY <2>1
  <2> QED
    BY <1>1, <2>1, <2>2, ShapesIs
<1>3. n \in Nat /\ Size(layout) = n /\ s = Glyphs(layout) /\ IsIndexed(s) /\ IsIndexed(text)
  BY OpenedIs, PlainText
<1>4. PosIn(layout, k) = w
  BY <1>2, <1>3, OpenedIs, PosIs
<1>5. Passable(markers, DoneIn(s, markers, 0), k)
  BY <1>2, SplitFree
<1>6. FitWidths(s, markers, DoneIn(s, markers, 0), text, deltas, start)
  BY DEF Opened, TextFits
<1> HIDE DEF s, n
<1>7. k \in 1 .. (n + 1) /\ n \in Nat
  BY <1>2, <1>3
<1>8. WidthTo(text, start[k]) = w + ShiftIn(deltas, w)
  BY <1>5, <1>6, <1>7 DEF FitWidths, n
<1>9. WidthTo(text, start[k]) \in Nat
  <2>1. Order(start, n, Size(text))
    BY OpenedIs DEF n, s
  <2>2. start[k] \in Nat /\ start[k] <= Size(text) /\ Size(text) \in Nat
    <3>1. n + 1 \in 1 .. (n + 1) /\ k <= n + 1
      BY <1>7
    <3>2. start[k] \in Nat /\ start[k] <= start[n + 1] /\ start[n + 1] = Size(text)
      BY <1>7, <2>1, <3>1 DEF Order
    <3>3. Size(text) \in Nat
      BY OpenedIs
    <3> QED
      BY <3>2, <3>3
  <2> DEFINE i == start[k]
  <2>3. i \in 0 .. Size(text) /\ 0 \in 0 .. Size(text) /\ 0 <= i /\ i \in Nat
    BY <2>2
  <2> HIDE DEF i
  <2>4. WidthTo(text, 0) + (i - 0) <= WidthTo(text, i)
    BY <1>3, <2>3, WidthGrows
  <2>5. WidthTo(text, 0) = 0 /\ WidthTo(text, i) \in Int
    BY <1>3, <2>3, WidthSteps
  <2>6. WidthTo(text, i) \in Nat
    BY <2>3, <2>4, <2>5
  <2> QED
    BY <2>6 DEF i
<1> HIDE DEF w
<1>10. MovedIn(deltas, w) = WidthTo(text, start[k])
  BY <1>8, <1>9 DEF MovedIn
<1> HIDE DEF k
<1>11. MovedShapes(H, deltas)[b] = [pos |-> MovedIn(deltas, H[b].pos), id |-> H[b].id]
  BY <1>2 DEF MovedShapes
<1>12. H[b].pos = w /\ H[b].id = layout[k].shape
  BY <1>2, <1>4
<1>13. shapes[b] = [pos |-> WidthTo(text, start[k]), id |-> layout[k].shape]
  BY <1>1, <1>10, <1>11, <1>12
<1>14. DOMAIN shapes = 1 .. Size(A)
  BY <1>1, <1>2 DEF MovedShapes
<1> QED
  BY <1>2, <1>13, <1>14 DEF k, A

\* What was made of a unit shows in that unit's shape.
LEMMA ShapeShown ==
  ASSUME NEW start, Opened(0, start), ~SplitMarker, stage \in {"filled", "saved"},
         NEW j \in 1 .. Size(TextOf(layout)), NEW y \in 1 .. Size(text),
         start[j] < y, y <= start[j + 1]
  PROVE  ShapeAt(WidthTo(text, y - 1)) = layout[j].shape
<1> DEFINE A == Ascending(Changes(layout))
           n == Size(TextOf(layout))
           z == Size(A)
           pos == WidthTo(text, y - 1)
           T == {k \in DOMAIN shapes : shapes[k].pos <= pos}
           U == {b \in 1 .. z : A[b] <= j}
<1>1. layout \in Layouts
  BY DEF Opened, FillInv
<1>2. /\ n \in Nat /\ Size(layout) = n /\ DOMAIN layout = 1 .. n
      /\ IsIndexed(text) /\ Size(text) \in Nat
      /\ Order(start, n, Size(text))
  BY OpenedIs, PlainText
<1>3. Places(Changes(layout))
  BY <1>1, ShapesIs
<1>4. z \in Nat /\ \A k \in Changes(layout) : \E b \in 1 .. z : A[b] = k
  BY <1>3, AscendingIs
<1>5. /\ \A b \in 1 .. z : A[b] \in 1 .. n
      /\ \A b \in 1 .. z : shapes[b].pos = WidthTo(text, start[A[b]])
      /\ \A b \in 1 .. z : shapes[b].id = layout[A[b]].shape
      /\ \A b \in 1 .. z : DOMAIN shapes = 1 .. z
  <2>1. ASSUME NEW b \in 1 .. z
        PROVE  /\ A[b] \in 1 .. n
               /\ shapes[b].pos = WidthTo(text, start[A[b]])
               /\ shapes[b].id = layout[A[b]].shape
               /\ DOMAIN shapes = 1 .. z
    <3>1. b \in 1 .. Size(Ascending(Changes(layout)))
      OBVIOUS
    <3>2. /\ DOMAIN shapes = 1 .. Size(Ascending(Changes(layout)))
          /\ Ascending(Changes(layout))[b] \in 1 .. Size(layout)
          /\ shapes[b] = [pos |-> WidthTo(text, start[Ascending(Changes(layout))[b]]),
                          id |-> layout[Ascending(Changes(layout))[b]].shape]
      BY <3>1, ShapePlaced
    <3>3. shapes[b] = [pos |-> WidthTo(text, start[A[b]]), id |-> layout[A[b]].shape]
      BY <3>2
    <3> HIDE DEF A
    <3> QED
      BY <1>2, <3>2, <3>3 DEF A
  <2> HIDE DEF A, z, n
  <2> QED
    BY <2>1, Zenon
<1> HIDE DEF A, z, n, pos
<1>6. \A b \in 1 .. z : shapes[b].pos = WidthTo(text, start[A[b]])
  BY <1>5, Zenon
<1>7. \A b \in 1 .. z : shapes[b].id = layout[A[b]].shape
  BY <1>5, Zenon
<1>8. PICK b1 \in 1 .. z : A[b1] = 1
  <2> USE DEF n
  <2>1. 1 \in Changes(layout)
    <3>1. 1 \in 1 .. n
      <4>1. j \in 1 .. n
        OBVIOUS
      <4> HIDE DEF n
      <4> QED
        BY <1>2, <4>1
    <3> QED
      BY <1>2, <3>1 DEF Changes
  <2> QED
    BY <1>4, <2>1
<1>9. DOMAIN shapes = 1 .. z
  BY <1>5, <1>8, Zenon
<1>10. j \in 1 .. n
  BY DEF n
<1>11. /\ start \in [1 .. (n + 1) -> Nat] /\ start[n + 1] = Size(text)
       /\ \A i, k \in 1 .. (n + 1) : i <= k => start[i] <= start[k]
  BY <1>2 DEF Order
<1>12. j \in 1 .. (n + 1) /\ j + 1 \in 1 .. (n + 1) /\ n + 1 \in 1 .. (n + 1) /\ j \in Nat
  BY <1>2, <1>10
<1>13. ASSUME NEW b \in 1 .. z
       PROVE  shapes[b].pos <= pos <=> A[b] <= j
  <2> DEFINE k == A[b]
             i == start[k]
  <2>1. k \in 1 .. n /\ k \in 1 .. (n + 1) /\ k <= n + 1 /\ k \in Nat
    <3>1. k \in 1 .. n
      BY <1>5, Zenon
    <3> HIDE DEF k
    <3> QED
      BY <1>2, <3>1
  <2>2. i \in Nat /\ i <= Size(text)
    BY <1>11, <1>12, <2>1
  <2>3. k <= j => i <= start[j]
    BY <1>11, <1>12, <2>1
  <2>4. ~(k <= j) => start[j + 1] <= i
    <3>1. ~(k <= j) => j + 1 <= k
      BY <1>12, <2>1
    <3> QED
      BY <1>11, <1>12, <2>1, <3>1
  <2>5. start[j] \in Nat /\ start[j + 1] \in Nat
    BY <1>11, <1>12
  <2>6. shapes[b].pos = WidthTo(text, i)
    BY <1>6
  <2> HIDE DEF i
  <2>7. i \in 0 .. Size(text) /\ y - 1 \in 0 .. Size(text) /\ WidthTo(text, i) \in Int /\ pos \in Int
    <3>1. i \in 0 .. Size(text) /\ y - 1 \in 0 .. Size(text)
      BY <1>2, <2>2
    <3> QED
      BY <1>2, <3>1, WidthSteps DEF pos
  <2>8. CASE k <= j
    <3>1. i <= y - 1
      BY <2>2, <2>3, <2>5, <2>8
    <3>2. WidthTo(text, i) + ((y - 1) - i) <= WidthTo(text, y - 1)
      BY <1>2, <2>7, <3>1, WidthGrows
    <3> HIDE DEF k
    <3>3. WidthTo(text, i) <= pos
      BY <2>2, <2>7, <3>1, <3>2 DEF pos
    <3> QED
      BY <2>6, <2>8, <3>3 DEF k
  <2>9. CASE ~(k <= j)
    <3>1. y - 1 < i /\ y - 1 <= i
      BY <2>2, <2>4, <2>5, <2>9
    <3>2. WidthTo(text, y - 1) + (i - (y - 1)) <= WidthTo(text, i)
      BY <1>2, <2>7, <3>1, WidthGrows
    <3> HIDE DEF k
    <3>3. ~(WidthTo(text, i) <= pos)
      BY <2>2, <2>7, <3>1, <3>2 DEF pos
    <3> QED
      BY <2>6, <2>9, <3>3 DEF k
  <2> QED
    BY <2>8, <2>9
<1> HIDE DEF pos
<1>14. T = U
  BY <1>9, <1>13
<1>15. b1 \in U
  BY <1>8, <1>10, <1>2
<1>16. PICK b \in U : \A a \in U : a <= b
  <2>1. U \subseteq 1 .. z /\ U # {}
    BY <1>15
  <2>2. z \in Nat
    BY <1>4
  <2> HIDE DEF U
  <2> QED
    BY <2>1, <2>2, GreatestOf
<1>17. b \in 1 .. z /\ A[b] <= j /\ \A a \in 1 .. z : A[a] <= j => a <= b
  BY <1>16
<1>18. \A a \in T : (\A c \in T : c <= a) => a = b
  <2>1. \A a \in 1 .. z : a \in Nat
    BY <1>4
  <2>2. \A a \in U : (\A c \in U : c <= a) => a = b
    BY <1>16, <2>1
  <2> HIDE DEF T, U
  <2> QED
    BY <1>14, <2>2
<1>19. (CHOOSE a \in T : \A c \in T : c <= a) = b
  <2>1. b \in T /\ \A c \in T : c <= b
    BY <1>14, <1>16
  <2> HIDE DEF T
  <2> QED
    BY <1>18, <2>1
<1>20. T # {}
  BY <1>14, <1>15
<1>21. ShapeAt(pos) = shapes[CHOOSE a \in T : \A c \in T : c <= a].id
  BY <1>20 DEF ShapeAt
<1> HIDE DEF T, U
<1>22. ShapeAt(pos) = layout[A[b]].shape
  BY <1>7, <1>17, <1>19, <1>21
<1>23. layout[A[b]].shape = layout[j].shape
  <2>1. j \in 1 .. Size(layout)
    BY <1>2, <1>10
  <2> QED
    BY <1>1, <1>17, <2>1, LastChange DEF A, z
<1> QED
  BY <1>22, <1>23 DEF pos

\* What is read back is what the layout says, unit by unit.
LEMMA ReopenedFollow ==
  ASSUME FillInv, stage = "saved", ControlsOf(layout) = << >>, ~SplitMarker
  PROVE  Reopened = ExpectedUnits
<1>1. Leading(layout, 0)
  BY TextGiven, NoneLeads
<1>2. PICK start : Opened(0, start)
  BY <1>1, OpenedWhen
<1> DEFINE m == Size(text)
           n == Size(TextOf(layout))
           F == ExpectedUnits
           W == Reopened
<1>3. /\ IsIndexed(text) /\ m \in Nat /\ n \in Nat /\ Order(start, n, m)
      /\ DOMAIN text = 1 .. m
  BY <1>2, OpenedIs, IndexedSeq DEF Size
<1>4. saved = text
  <2>1. saved = SerializedIn(layout, text)
    BY DEF FillInv
  <2>2. saved = Joined(<< >>, text)
    BY <1>1, <1>3, <2>1, LedSerialized
  <2>3. IsIndexed(<< >>) /\ Size(<< >>) = 0
    BY DEF IsIndexed, Size
  <2> QED
    BY <1>3, <2>2, <2>3, JoinNone
<1>5. W = [y \in 1 .. m |-> [glyph |-> text[y], shape |-> ShapeAt(WidthTo(text, y - 1))]]
  BY <1>3, <1>4 DEF Reopened, WidthTo, Cut
<1>6. IsIndexed(W) /\ Size(W) = m
  <2>1. W = [y \in 1 .. m |-> W[y]]
    BY <1>5
  <2> HIDE DEF W, m
  <2> QED
    BY <1>3, <2>1, MakeIndexed
<1>7. \A y \in 1 .. m : W[y] = [glyph |-> text[y], shape |-> ShapeAt(WidthTo(text, y - 1))]
  BY <1>5
<1> HIDE DEF W, F
<1>8. IsExpected(F, 0, start)
  BY <1>2, ExpectedUnitsIs DEF F
<1>9. IsIndexed(F) /\ Size(F) = m
  <2>1. IsIndexed(F) /\ Size(F) = 0 + Size(text)
    BY <1>8 DEF IsExpected
  <2> QED
    BY <1>3, <2>1
<1>10. ASSUME NEW y \in 1 .. m
       PROVE  W[y] = F[y]
  <2>1. PICK j \in 1 .. n : start[j] < y /\ y <= start[j + 1]
    BY <1>3, StartLocated
  <2>2. start[j] \in Nat /\ start[j + 1] \in Nat
    <3>1. start \in [1 .. (n + 1) -> Nat]
      BY <1>3 DEF Order
    <3>2. j \in 1 .. (n + 1) /\ j + 1 \in 1 .. (n + 1)
      BY <1>3
    <3> QED
      BY <3>1, <3>2
  <2>3. y \in (start[j] + 1) .. start[j + 1]
    BY <1>3, <2>1, <2>2
  <2>4. F[0 + y] = [glyph |-> text[y], shape |-> layout[0 + j].shape]
    BY <1>8, <2>1, <2>3 DEF IsExpected
  <2>5. 0 + y = y /\ 0 + j = j
    BY <1>3
  <2>6. ShapeAt(WidthTo(text, y - 1)) = layout[j].shape
    BY <1>2, <2>1, ShapeShown
  <2> QED
    BY <1>7, <2>4, <2>5, <2>6
<1>11. W = F
  BY <1>6, <1>9, <1>10, SameSeq
<1> QED
  BY <1>11 DEF W, F

\* The property follows from the invariant.
LEMMA FilledFollows ==
  ASSUME FillInv
  PROVE  FilledAsExpected
BY TypesFollow, StayFollows, FailsFollow, LeadingFollow, ReopenedFollow DEF FilledAsExpected

\* Whatever the layout, the values and the policy: filling fails only for a marker
\* that cannot be resolved, the markers still to come stay where they were found,
\* leading controls keep their place, and a paragraph without controls whose
\* markers no shape splits is reopened as its layout says (fill_paragraph,
\* adjust_char_shapes, serialize_para_text).
THEOREM FillsAsExpected == TextSpec => []FilledAsExpected
<1>1. TextInit => FillInv
  BY InitFills
<1>2. FillInv /\ [TextNext]_textVars => FillInv'
  BY TextStep
<1>3. FillInv => FilledAsExpected
  BY FilledFollows
<1> QED
  BY <1>1, <1>2, <1>3, PTL DEF TextSpec

-----------------------------------------------------------------------------
(* Tables.                                                                  *)

-----------------------------------------------------------------------------
(* The grid.                                                                *)

LEMMA HoldersFinite ==
  ASSUME NEW cells, IsIndexed(cells), NEW r, NEW k
  PROVE  /\ Holders(cells, r, k) \subseteq 1 .. Len(cells)
         /\ IsFiniteSet(Holders(cells, r, k))
         /\ Cardinality(Holders(cells, r, k)) = 1 <=> \E n : Holders(cells, r, k) = {n}
<1> DEFINE at == Holders(cells, r, k)
<1>1. Len(cells) \in Nat /\ at \subseteq 1 .. Len(cells)
  BY DEF IsIndexed, Holders
<1> HIDE DEF at
<1>2. IsFiniteSet(1 .. Len(cells))
  BY <1>1, FS_Interval
<1>3. IsFiniteSet(at)
  BY <1>1, <1>2, FS_Subset
<1>4. Cardinality(at) = 1 <=> \E n : at = {n}
  BY <1>3, FS_Singleton
<1> QED
  BY <1>1, <1>3, <1>4 DEF at

\* rebuild_grid gives every slot the last of the cells that cover it.
LEMMA GridIs ==
  ASSUME NEW cells, IsIndexed(cells), NEW rows, NEW cols,
         NEW r \in 0 .. (rows - 1), NEW k \in 0 .. (cols - 1)
  PROVE  /\ Grid(rows, cols, cells)[r][k] \in {0} \cup DOMAIN cells
         /\ \A n : Holders(cells, r, k) = {n} => Grid(rows, cols, cells)[r][k] = n
<1> DEFINE at == Holders(cells, r, k)
           slot == IF at = {} THEN 0 ELSE CHOOSE n \in at : \A m \in at : m <= n
<1>1. Grid(rows, cols, cells)[r][k] = slot
  BY DEF Grid, Holders
<1>2. at \subseteq 1 .. Len(cells) /\ Len(cells) \in Nat /\ DOMAIN cells = 1 .. Len(cells)
  BY HoldersFinite DEF IsIndexed
<1>3. CASE at = {}
  BY <1>1, <1>3
<1>4. CASE at # {}
  <2>1. \E x \in at : \A y \in at : y <= x
    <3> HIDE DEF at
    <3> QED
      BY <1>2, <1>4, GreatestOf
  <2>2. slot \in at
    <3> HIDE DEF at
    <3> QED
      BY <2>1, <1>4
  <2> HIDE DEF at
  <2>3. \A n : at = {n} => slot = n
    BY <2>2
  <2>4. slot \in DOMAIN cells
    BY <2>2, <1>2
  <2> HIDE DEF slot
  <2>5. Grid(rows, cols, cells)[r][k] \in {0} \cup DOMAIN cells
    BY <1>1, <2>4
  <2> QED
    BY <1>1, <2>3, <2>5 DEF at
<1> QED
  BY <1>3, <1>4

\* One cell holds the slot, and the grid says which.
HeldBy(t, r, k, n) ==
  /\ IsIndexed(t.cells) /\ Holders(t.cells, r, k) = {n}
  /\ r \in 0 .. (t.rows - 1) /\ k \in 0 .. (t.cols - 1)
GridHas(t, r, k, n) == Grid(t.rows, t.cols, t.cells)[r][k] = n

LEMMA GridOfTable ==
  ASSUME NEW t, NEW r, NEW k, NEW n, HeldBy(t, r, k, n)
  PROVE  GridHas(t, r, k, n)
<1> DEFINE cells == t.cells
           rows == t.rows
           cols == t.cols
<1>1. /\ IsIndexed(cells) /\ r \in 0 .. (rows - 1) /\ k \in 0 .. (cols - 1)
      /\ Holders(cells, r, k) = {n}
  BY DEF HeldBy
<1> HIDE DEF cells, rows, cols
<1>2. Grid(rows, cols, cells)[r][k] = n
  BY <1>1, GridIs
<1> QED
  BY <1>2 DEF GridHas, cells, rows, cols

-----------------------------------------------------------------------------
(* What expand_table pushes.                                                *)

LEMMA NotEmpty ==
  ASSUME NEW s, IsIndexed(s), s # << >>
  PROVE  Len(s) \in Nat \ {0} /\ DOMAIN s = 1 .. Len(s)
<1> DEFINE S == {s[n] : n \in 1 .. Len(s)}
<1>1. Len(s) \in Nat /\ DOMAIN s = 1 .. Len(s) /\ s \in [1 .. Len(s) -> S]
  BY DEF IsIndexed
<1> HIDE DEF S
<1>2. s \in Seq(S)
  BY <1>1
<1>3. Len(s) # 0
  BY <1>2, EmptySeq
<1> QED
  BY <1>1, <1>3

LEMMA SmallWord ==
  ASSUME NEW n \in Nat, n < Word
  PROVE  n % Word = n
BY TableAssumption

CellFields == {"row", "col", "rowSpan", "colSpan", "token"}

\* A row that can be expanded: a cell is in it, there are items, and the rows
\* that come of it can be counted.
IsExpansion(t, row, items) ==
  /\ IsTable(t)
  /\ IsIndexed(items) /\ items # << >>
  /\ \E n \in DOMAIN t.cells : t.cells[n].row = row
  /\ t.rows + Len(items) - 1 < Word

LEMMA ExpansionIs ==
  ASSUME NEW t, NEW row, NEW items, IsExpansion(t, row, items)
  PROVE  /\ t.rows \in Nat \ {0} /\ t.cols \in Nat
         /\ row \in 0 .. (t.rows - 1)
         /\ Len(items) \in Nat \ {0} /\ DOMAIN items = 1 .. Len(items)
         /\ Word \in Nat \ {0}
         /\ t.rows + Len(items) - 1 < Word
         /\ Len(t.cells) \in Nat /\ DOMAIN t.cells = 1 .. Len(t.cells)
         /\ \A n \in DOMAIN t.cells :
              /\ DOMAIN t.cells[n] = CellFields
              /\ t.cells[n].row \in 0 .. (t.rows - 1) /\ t.cells[n].rowSpan \in Nat \ {0}
              /\ t.cells[n].col \in 0 .. (t.cols - 1) /\ t.cells[n].colSpan \in Nat \ {0}
<1>1. Len(items) \in Nat \ {0} /\ DOMAIN items = 1 .. Len(items)
  BY NotEmpty DEF IsExpansion
<1>2. Len(t.cells) \in Nat /\ DOMAIN t.cells = 1 .. Len(t.cells)
  BY DEF IsExpansion, IsTable, IsIndexed
<1>3. Word \in Nat \ {0} /\ t.rows \in 0 .. (Word - 1) /\ t.cols \in 0 .. (Word - 1)
  BY TableAssumption DEF IsExpansion, IsTable
<1>4. /\ \A n \in DOMAIN t.cells :
           /\ DOMAIN t.cells[n] = CellFields
           /\ t.cells[n].row \in 0 .. (t.rows - 1) /\ t.cells[n].rowSpan \in Nat \ {0}
           /\ t.cells[n].col \in 0 .. (t.cols - 1) /\ t.cells[n].colSpan \in Nat \ {0}
  BY DEF IsExpansion, IsTable, CellFields
<1>5. row \in 0 .. (t.rows - 1)
  BY <1>4 DEF IsExpansion
<1>6. t.rows \in Nat \ {0} /\ t.cols \in Nat
  BY <1>3, <1>5
<1>7. t.rows + Len(items) - 1 < Word
  BY DEF IsExpansion
<1> QED
  BY <1>1, <1>2, <1>3, <1>4, <1>5, <1>6, <1>7

\* Where a pushed cell is, and what it shows.
RowIn(from, row, count, i) ==
  IF i # 0 THEN row + i - 1 ELSE IF from > row THEN from + count - 1 ELSE from

LEMMA CellOfIs ==
  ASSUME NEW t, NEW row, NEW items, IsExpansion(t, row, items),
         NEW p \in Pushed(t.cells, row, items)
  PROVE  LET c == t.cells[p[2]]
             d == CellOf(t.cells, row, items, p)
         IN /\ p[1] \in 0 .. Len(items) /\ p[2] \in DOMAIN t.cells
            /\ p = <<p[1], p[2]>>
            /\ p[1] = 0 <=> c.row # row
            /\ DOMAIN d = CellFields
            /\ d.row = RowIn(c.row, row, Len(items), p[1])
            /\ d.row \in 0 .. (t.rows + Len(items) - 2)
            /\ d.col = c.col /\ d.rowSpan = c.rowSpan /\ d.colSpan = c.colSpan
            /\ d.token = IF p[1] = 0 THEN c.token ELSE Filled(c.token, items[p[1]])
<1> DEFINE c == t.cells[p[2]]
           d == CellOf(t.cells, row, items, p)
<1>1. /\ p[1] \in 0 .. Len(items) /\ p[2] \in DOMAIN t.cells
      /\ p = <<p[1], p[2]>>
      /\ p[1] = 0 <=> c.row # row
  BY ExpansionIs DEF Pushed, Others
<1>2. /\ DOMAIN c = CellFields
      /\ c.row \in 0 .. (t.rows - 1)
  BY <1>1, ExpansionIs
<1>3. /\ Len(items) \in Nat \ {0} /\ t.rows \in Nat \ {0} /\ row \in 0 .. (t.rows - 1)
      /\ t.rows + Len(items) - 1 < Word /\ Word \in Nat
  BY ExpansionIs
<1> HIDE DEF c
<1>4. CASE p[1] # 0
  <2>1. (row + p[1] - 1) % Word = row + p[1] - 1
    <3>1. row + p[1] - 1 \in Nat /\ row + p[1] - 1 < Word
      BY <1>1, <1>3, <1>4
    <3> QED
      BY <3>1, SmallWord
  <2>2. d = [c EXCEPT !.row = row + p[1] - 1, !.token = Filled(@, items[p[1]])]
    BY <1>4, <2>1 DEF CellOf, RowOfCopy, c
  <2> HIDE DEF d
  <2>3. /\ DOMAIN d = CellFields /\ d.row = row + p[1] - 1
        /\ d.token = Filled(c.token, items[p[1]])
        /\ d.col = c.col /\ d.rowSpan = c.rowSpan /\ d.colSpan = c.colSpan
    BY <1>2, <2>2 DEF CellFields
  <2> QED
    BY SMTT(60), <1>1, <1>3, <1>4, <2>3 DEF RowIn, c, d
<1>5. CASE p[1] = 0 /\ c.row > row
  <2>1. (c.row + Len(items) - 1) % Word = c.row + Len(items) - 1
    <3>1. c.row + Len(items) - 1 \in Nat /\ c.row + Len(items) - 1 < Word
      BY <1>2, <1>3
    <3> QED
      BY <3>1, SmallWord
  <2>2. d = [c EXCEPT !.row = c.row + Len(items) - 1]
    <3>1. d = [c EXCEPT !.row = (@ + (Len(items) - 1)) % Word]
      BY <1>5 DEF CellOf, ShiftBy, c
    <3> QED
      BY <3>1, <2>1, <1>2, <1>3
  <2> HIDE DEF d
  <2>3. /\ DOMAIN d = CellFields /\ d.row = c.row + Len(items) - 1
        /\ d.token = c.token
        /\ d.col = c.col /\ d.rowSpan = c.rowSpan /\ d.colSpan = c.colSpan
    BY <1>2, <2>2 DEF CellFields
  <2> QED
    BY <1>1, <1>2, <1>3, <1>5, <2>3 DEF RowIn, c, d
<1>6. CASE p[1] = 0 /\ ~(c.row > row)
  <2>1. d = c
    BY <1>6 DEF CellOf, c
  <2> HIDE DEF d
  <2> QED
    BY SMTT(60), <1>1, <1>2, <1>3, <1>6, <2>1 DEF RowIn, c, d
<1> QED
  BY <1>4, <1>5, <1>6 DEF c

\* A slot of the expanded table shows a row of the template, as it was or as the
\* copy for an item.
SourceRow(row, count, r) == IF r < row THEN r ELSE IF r < row + count THEN row ELSE r - count + 1
CopyAt(row, count, r) == IF r \in row .. (row + count - 1) THEN r - row + 1 ELSE 0

StandsAlone(t, row) ==
  \A n \in DOMAIN t.cells :
    row \in t.cells[n].row .. (t.cells[n].row + t.cells[n].rowSpan - 1)
      => t.cells[n].rowSpan = 1

LEMMA RowMoves ==
  ASSUME NEW rows \in Nat \ {0}, NEW row \in 0 .. (rows - 1),
         NEW from \in 0 .. (rows - 1), NEW span \in Nat \ {0},
         NEW count \in Nat \ {0}, NEW i \in 0 .. count,
         i = 0 <=> from # row,
         row \in from .. (from + span - 1) => span = 1,
         NEW r \in 0 .. (rows + count - 2)
  PROVE  r \in RowIn(from, row, count, i) .. (RowIn(from, row, count, i) + span - 1)
           <=> /\ i = CopyAt(row, count, r)
               /\ SourceRow(row, count, r) \in from .. (from + span - 1)
<1>1. CASE i # 0
  <2>1. from = row /\ span = 1 /\ RowIn(from, row, count, i) = row + i - 1
    BY <1>1 DEF RowIn
  <2>2. CASE r \in row .. (row + count - 1)
    <3>1. CopyAt(row, count, r) = r - row + 1 /\ SourceRow(row, count, r) = row
      BY <2>2 DEF CopyAt, SourceRow
    <3> QED
      BY <2>1, <2>2, <3>1
  <2>3. CASE r \notin row .. (row + count - 1)
    <3>1. CopyAt(row, count, r) = 0
      BY <2>3 DEF CopyAt
    <3> QED
      BY <1>1, <2>1, <2>3, <3>1
  <2> QED
    BY <2>2, <2>3
<1>2. CASE i = 0 /\ from > row
  <2>1. RowIn(from, row, count, i) = from + count - 1
    BY <1>2 DEF RowIn
  <2>2. CASE r < row
    <3>1. SourceRow(row, count, r) = r
      BY <2>2 DEF SourceRow
    <3> QED
      BY <1>2, <2>1, <2>2, <3>1
  <2>3. CASE r \in row .. (row + count - 1)
    <3>1. CopyAt(row, count, r) # 0
      BY <2>3 DEF CopyAt
    <3> QED
      BY <1>2, <2>1, <2>3, <3>1
  <2>4. CASE r >= row + count
    <3>1. CopyAt(row, count, r) = 0 /\ SourceRow(row, count, r) = r - count + 1
      BY <2>4 DEF CopyAt, SourceRow
    <3> QED
      BY <1>2, <2>1, <2>4, <3>1
  <2> QED
    BY <2>2, <2>3, <2>4
<1>3. CASE i = 0 /\ from < row
  <2>1. RowIn(from, row, count, i) = from /\ from + span - 1 < row
    BY <1>3 DEF RowIn
  <2>2. CASE r < row
    <3>1. CopyAt(row, count, r) = 0 /\ SourceRow(row, count, r) = r
      BY <2>2 DEF CopyAt, SourceRow
    <3> QED
      BY <1>3, <2>1, <3>1
  <2>3. CASE r >= row
    <3>1. SourceRow(row, count, r) >= row
      BY <2>3 DEF SourceRow
    <3>2. SourceRow(row, count, r) \in Int
      BY DEF SourceRow
    <3> QED
      BY <1>3, <2>1, <2>3, <3>1, <3>2
  <2> QED
    BY <2>2, <2>3
<1> QED
  BY <1>1, <1>2, <1>3

LEMMA CoversIs ==
  ASSUME NEW t, NEW row, NEW items, IsExpansion(t, row, items), StandsAlone(t, row),
         NEW p \in Pushed(t.cells, row, items),
         NEW r \in 0 .. (t.rows + Len(items) - 2), NEW k
  PROVE  Covers(CellOf(t.cells, row, items, p), r, k)
           <=> /\ p[1] = CopyAt(row, Len(items), r)
               /\ Covers(t.cells[p[2]], SourceRow(row, Len(items), r), k)
<1> DEFINE c == t.cells[p[2]]
           d == CellOf(t.cells, row, items, p)
           L == Len(items)
<1>1. /\ p[1] \in 0 .. L /\ p[2] \in DOMAIN t.cells
      /\ p[1] = 0 <=> c.row # row
      /\ d.row = RowIn(c.row, row, L, p[1])
      /\ d.col = c.col /\ d.rowSpan = c.rowSpan /\ d.colSpan = c.colSpan
  BY CellOfIs
<1>2. /\ c.row \in 0 .. (t.rows - 1) /\ c.rowSpan \in Nat \ {0}
      /\ c.col \in 0 .. (t.cols - 1) /\ c.colSpan \in Nat \ {0}
      /\ L \in Nat \ {0} /\ t.rows \in Nat \ {0} /\ row \in 0 .. (t.rows - 1)
  BY <1>1, ExpansionIs
<1>3. row \in c.row .. (c.row + c.rowSpan - 1) => c.rowSpan = 1
  BY <1>1 DEF StandsAlone
<1>4. r \in d.row .. (d.row + d.rowSpan - 1)
        <=> /\ p[1] = CopyAt(row, L, r)
            /\ SourceRow(row, L, r) \in c.row .. (c.row + c.rowSpan - 1)
  <2>1. r \in 0 .. (t.rows + L - 2)
    OBVIOUS
  <2>2. c.row # row <=> p[1] = 0
    BY <1>1
  <2> HIDE DEF c, d, L
  <2>3. r \in RowIn(c.row, row, L, p[1]) .. (RowIn(c.row, row, L, p[1]) + c.rowSpan - 1)
          <=> /\ p[1] = CopyAt(row, L, r)
              /\ SourceRow(row, L, r) \in c.row .. (c.row + c.rowSpan - 1)
    BY ZenonT(60), <1>1, <1>2, <1>3, <2>1, <2>2, RowMoves
  <2> QED
    BY <1>1, <2>3
<1> QED
  BY <1>1, <1>4 DEF Covers

LEMMA SourcePushed ==
  ASSUME NEW t, NEW row, NEW items, IsExpansion(t, row, items), StandsAlone(t, row),
         NEW r \in 0 .. (t.rows + Len(items) - 2), NEW k,
         NEW n \in Holders(t.cells, SourceRow(row, Len(items), r), k)
  PROVE  <<CopyAt(row, Len(items), r), n>> \in Pushed(t.cells, row, items)
<1> DEFINE c == t.cells[n]
           L == Len(items)
<1>1. n \in DOMAIN t.cells /\ SourceRow(row, L, r) \in c.row .. (c.row + c.rowSpan - 1)
  BY DEF Holders, Covers
<1>2. /\ c.row \in 0 .. (t.rows - 1) /\ c.rowSpan \in Nat \ {0}
      /\ L \in Nat \ {0} /\ t.rows \in Nat \ {0} /\ row \in 0 .. (t.rows - 1)
      /\ DOMAIN items = 1 .. L
  BY <1>1, ExpansionIs
<1>3. row \in c.row .. (c.row + c.rowSpan - 1) => c.rowSpan = 1
  BY <1>1 DEF StandsAlone
<1>4. /\ CopyAt(row, L, r) \in 0 .. L
      /\ CopyAt(row, L, r) = 0 <=> c.row # row
  <2> HIDE DEF c, L
  <2> QED
    BY SMTT(60), <1>1, <1>2, <1>3 DEF CopyAt, SourceRow
<1> QED
  BY <1>1, <1>2, <1>4 DEF Pushed, Others

-----------------------------------------------------------------------------
(* Sorting it.                                                              *)

CellsPushed(cells, row, items) ==
  [p \in Pushed(cells, row, items) |-> CellOf(cells, row, items, p)]
First(cell, p, q) ==
  Before(cell[p], cell[q]) \/ (~Before(cell[q], cell[p]) /\ PushedBefore(p, q))
CellsUpTo(cell) == [p \in DOMAIN cell |-> {q \in DOMAIN cell : p = q \/ First(cell, q, p)}]
CellPlaces(cell) == [p \in DOMAIN cell |-> Cardinality(CellsUpTo(cell)[p])]

LEMMA SortedBy ==
  ASSUME NEW cells, NEW row, NEW items
  PROVE  LET cell == CellsPushed(cells, row, items)
         IN ExpandedCells(cells, row, items) = Ranked(cell, CellPlaces(cell))
BY DEF ExpandedCells, CellsPushed, First, CellsUpTo, CellPlaces

\* Cells with numbers for rows and columns are in order, whatever they cover.
LEMMA StableSort ==
  ASSUME NEW cell, IsFiniteSet(DOMAIN cell),
         \A p \in DOMAIN cell :
           /\ p = <<p[1], p[2]>> /\ p[1] \in Nat /\ p[2] \in Nat
           /\ cell[p].row \in Nat /\ cell[p].col \in Nat
  PROVE  Ranks(DOMAIN cell, CellPlaces(cell))
<1> DEFINE P == DOMAIN cell
           upTo == CellsUpTo(cell)
<1>1. upTo \in [P -> SUBSET P] /\ \A p \in P : p \in upTo[p]
  BY DEF CellsUpTo
<1>2. ASSUME NEW p \in P, NEW q \in P
      PROVE  /\ p # q => First(cell, p, q) \/ First(cell, q, p)
             /\ ~(First(cell, p, q) /\ First(cell, q, p))
  BY DEF First, Before, PushedBefore
<1>3. ASSUME NEW p \in P, NEW q \in P, NEW u \in P, First(cell, u, p), First(cell, p, q)
      PROVE  First(cell, u, q)
  BY <1>3 DEF First, Before, PushedBefore
<1>4. ASSUME NEW p \in P, NEW q \in P, First(cell, p, q)
      PROVE  upTo[p] \subseteq upTo[q] /\ q \notin upTo[p]
  <2>1. p # q
    BY <1>2, <1>4
  <2>2. q \notin upTo[p]
    BY <1>2, <1>4, <2>1 DEF CellsUpTo
  <2>3. \A u \in upTo[p] : u \in upTo[q]
    BY <1>3, <1>4 DEF CellsUpTo
  <2> QED
    BY <2>2, <2>3
<1>5. \A p, q \in P : p # q =>
        \/ upTo[p] \subseteq upTo[q] /\ q \notin upTo[p]
        \/ upTo[q] \subseteq upTo[p] /\ p \notin upTo[q]
  BY <1>2, <1>4
<1>6. Ranks(P, [p \in P |-> Cardinality(upTo[p])])
  <2> HIDE DEF upTo, P
  <2> QED
    BY <1>1, <1>5, OrderRanks DEF P
<1> QED
  BY <1>6 DEF CellPlaces

LEMMA PushedFinite ==
  ASSUME NEW t, NEW row, NEW items, IsExpansion(t, row, items)
  PROVE  IsFiniteSet(Pushed(t.cells, row, items))
<1> DEFINE others == Others(t.cells, row)
           copied == (DOMAIN t.cells) \ others
<1>1. /\ Len(t.cells) \in Nat /\ DOMAIN t.cells = 1 .. Len(t.cells)
      /\ Len(items) \in Nat /\ DOMAIN items = 1 .. Len(items)
  BY ExpansionIs
<1>2. IsFiniteSet(DOMAIN t.cells) /\ IsFiniteSet(DOMAIN items)
  BY SMTT(60), <1>1, FS_Interval
<1>3. others \subseteq DOMAIN t.cells /\ copied \subseteq DOMAIN t.cells
  BY DEF Others
<1> HIDE DEF others, copied
<1>4. IsFiniteSet(others) /\ IsFiniteSet(copied)
  BY <1>2, <1>3, FS_Subset
<1>5. IsFiniteSet({0} \X others) /\ IsFiniteSet((DOMAIN items) \X copied)
  BY <1>2, <1>4, FS_Singleton, FS_Product
<1>6. IsFiniteSet(({0} \X others) \cup ((DOMAIN items) \X copied))
  BY <1>5, FS_Union
<1> QED
  BY <1>6 DEF Pushed, others, copied

LEMMA ExpandedIs ==
  ASSUME NEW t, NEW row, NEW items, IsExpansion(t, row, items)
  PROVE  LET P == Pushed(t.cells, row, items)
             cell == CellsPushed(t.cells, row, items)
             place == CellPlaces(cell)
             sorted == ExpandedCells(t.cells, row, items)
         IN /\ DOMAIN cell = P
            /\ \A p \in P : cell[p] = CellOf(t.cells, row, items, p)
            /\ IsIndexed(sorted)
            /\ \A p \in P : place[p] \in DOMAIN sorted /\ sorted[place[p]] = cell[p]
            /\ \A m \in DOMAIN sorted : \E p \in P : place[p] = m
            /\ \A p, q \in P : place[p] = place[q] => p = q
<1> DEFINE P == Pushed(t.cells, row, items)
           cell == CellsPushed(t.cells, row, items)
           place == CellPlaces(cell)
<1>1. DOMAIN cell = P /\ \A p \in P : cell[p] = CellOf(t.cells, row, items, p)
  BY DEF CellsPushed
<1>2. ASSUME NEW p \in P
      PROVE  /\ p = <<p[1], p[2]>> /\ p[1] \in Nat /\ p[2] \in Nat
             /\ cell[p].row \in Nat /\ cell[p].col \in Nat
  <2>1. /\ p = <<p[1], p[2]>> /\ p[1] \in 0 .. Len(items) /\ p[2] \in DOMAIN t.cells
        /\ cell[p].row \in 0 .. (t.rows + Len(items) - 2)
        /\ cell[p].col = t.cells[p[2]].col
    BY <1>1, CellOfIs
  <2> HIDE DEF cell, P
  <2>2. /\ DOMAIN t.cells = 1 .. Len(t.cells) /\ Len(t.cells) \in Nat /\ Len(items) \in Nat
        /\ t.cells[p[2]].col \in 0 .. (t.cols - 1)
        /\ t.cols \in Nat /\ t.rows \in Nat
    BY <2>1, ExpansionIs
  <2> QED
    BY <2>1, <2>2
<1>3. IsFiniteSet(P)
  BY PushedFinite
<1>4. Ranks(P, place)
  <2> HIDE DEF cell, P
  <2> QED
    BY <1>1, <1>2, <1>3, StableSort
<1>5. ExpandedCells(t.cells, row, items) = Ranked(cell, place)
  BY SortedBy
<1>6. /\ IsIndexed(Ranked(cell, place))
      /\ \A p \in P : /\ place[p] \in DOMAIN Ranked(cell, place)
                      /\ Ranked(cell, place)[place[p]] = cell[p]
      /\ \A n \in DOMAIN Ranked(cell, place) : \E p \in P : place[p] = n
  <2> HIDE DEF cell, P, place
  <2> QED
    BY <1>1, <1>4, RankedIs
<1> HIDE DEF cell, P, place
<1> QED
  BY <1>1, <1>4, <1>5, <1>6 DEF Ranks, cell, P, place

\* Every slot is covered by the one cell that covered the row it comes from.
OneHolder(cells, r, k, token) ==
  \E m \in DOMAIN cells : Holders(cells, r, k) = {m} /\ cells[m].token = token
TokenAt(c, row, items, r) ==
  IF CopyAt(row, Len(items), r) = 0 THEN c.token
  ELSE Filled(c.token, items[CopyAt(row, Len(items), r)])
InRows(t, items, r) == r \in 0 .. (t.rows + Len(items) - 2)

LEMMA ExpandTiles ==
  ASSUME NEW t, NEW row, NEW items, IsExpansion(t, row, items), StandsAlone(t, row),
         NEW r, InRows(t, items, r), NEW k,
         NEW n, Holders(t.cells, SourceRow(row, Len(items), r), k) = {n}
  PROVE  OneHolder(ExpandedCells(t.cells, row, items), r, k,
                   TokenAt(t.cells[n], row, items, r))
<1>0. r \in 0 .. (t.rows + Len(items) - 2)
  BY DEF InRows
<1> DEFINE P == Pushed(t.cells, row, items)
           cell == CellsPushed(t.cells, row, items)
           place == CellPlaces(cell)
           sorted == ExpandedCells(t.cells, row, items)
<1>1. /\ \A p \in P : cell[p] = CellOf(t.cells, row, items, p)
      /\ \A p \in P : place[p] \in DOMAIN sorted /\ sorted[place[p]] = cell[p]
      /\ \A m \in DOMAIN sorted : \E p \in P : place[p] = m
      /\ \A p, q \in P : place[p] = place[q] => p = q
  <2>1. \A p \in P : cell[p] = CellOf(t.cells, row, items, p)
    BY ExpandedIs
  <2>2. \A p \in P : place[p] \in DOMAIN sorted /\ sorted[place[p]] = cell[p]
    BY ExpandedIs
  <2>3. \A m \in DOMAIN sorted : \E p \in P : place[p] = m
    BY ExpandedIs
  <2>4. \A p, q \in P : place[p] = place[q] => p = q
    BY ExpandedIs
  <2> QED
    BY <2>1, <2>2, <2>3, <2>4
<1> DEFINE i == CopyAt(row, Len(items), r)
           u == <<i, n>>
<1>2. u \in P
  BY <1>0, SourcePushed
<1>3. n \in Holders(t.cells, SourceRow(row, Len(items), r), k)
  OBVIOUS
<1>4. ASSUME NEW p \in P
      PROVE  Covers(cell[p], r, k) <=> p = u
  <2>1. Covers(cell[p], r, k)
          <=> p[1] = i /\ Covers(t.cells[p[2]], SourceRow(row, Len(items), r), k)
    BY <1>0, <1>1, CoversIs
  <2>2. p = <<p[1], p[2]>> /\ p[2] \in DOMAIN t.cells
    BY CellOfIs
  <2>3. Covers(t.cells[p[2]], SourceRow(row, Len(items), r), k) <=> p[2] = n
    BY <2>2, <1>3 DEF Holders
  <2> QED
    BY <2>1, <2>2, <2>3
<1>5. Holders(sorted, r, k) = {place[u]}
  <2> HIDE DEF P, cell, place, sorted, u
  <2>1. ASSUME NEW m \in DOMAIN sorted
        PROVE  Covers(sorted[m], r, k) <=> m = place[u]
    <3>1. PICK p \in P : place[p] = m
      BY <1>1
    <3>2. Covers(sorted[m], r, k) <=> p = u
      BY <1>1, <1>4, <3>1
    <3> QED
      BY <1>1, <1>2, <3>1, <3>2
  <2> QED
    BY <1>1, <1>2, <2>1 DEF Holders
<1>6. sorted[place[u]].token = IF i = 0 THEN t.cells[n].token
                               ELSE Filled(t.cells[n].token, items[i])
  <2>1. sorted[place[u]] = CellOf(t.cells, row, items, u)
    BY <1>1, <1>2
  <2>2. u[1] = i /\ u[2] = n
    OBVIOUS
  <2> HIDE DEF u, sorted, place, i, cell
  <2> QED
    BY <2>1, <2>2, <1>2, CellOfIs
<1> QED
  BY <1>1, <1>2, <1>5, <1>6 DEF OneHolder, TokenAt

\* The cells are inside of the longer table.
LEMMA ExpandedInside ==
  ASSUME NEW t, NEW row, NEW items, IsExpansion(t, row, items)
  PROVE  LET sorted == ExpandedCells(t.cells, row, items)
         IN /\ IsIndexed(sorted)
            /\ \A m \in DOMAIN sorted :
                 /\ DOMAIN sorted[m] = CellFields
                 /\ sorted[m].row \in 0 .. (t.rows + Len(items) - 2)
                 /\ sorted[m].col \in 0 .. (t.cols - 1)
<1> DEFINE P == Pushed(t.cells, row, items)
           cell == CellsPushed(t.cells, row, items)
           place == CellPlaces(cell)
           sorted == ExpandedCells(t.cells, row, items)
<1>1. IsIndexed(sorted)
  BY ExpandedIs
<1>2. ASSUME NEW m \in DOMAIN sorted
      PROVE  \E p \in P : sorted[m] = CellOf(t.cells, row, items, p)
  <2>1. PICK p \in P : place[p] = m
    BY ExpandedIs
  <2>2. sorted[place[p]] = cell[p] /\ cell[p] = CellOf(t.cells, row, items, p)
    BY ExpandedIs
  <2> QED
    BY <2>1, <2>2
<1>3. ASSUME NEW m \in DOMAIN sorted
      PROVE  /\ DOMAIN sorted[m] = CellFields
             /\ sorted[m].row \in 0 .. (t.rows + Len(items) - 2)
             /\ sorted[m].col \in 0 .. (t.cols - 1)
  <2>1. PICK p \in P : sorted[m] = CellOf(t.cells, row, items, p)
    BY <1>2
  <2> HIDE DEF sorted, P
  <2>2. /\ p[2] \in DOMAIN t.cells /\ DOMAIN sorted[m] = CellFields
        /\ sorted[m].row \in 0 .. (t.rows + Len(items) - 2)
        /\ sorted[m].col = t.cells[p[2]].col
    BY <2>1, CellOfIs DEF P
  <2> QED
    BY <2>2, ExpansionIs
<1> QED
  BY <1>1, <1>3

\* Without items, what is left are cells that were there.
LEMMA KeptIs ==
  ASSUME NEW cells, IsIndexed(cells), NEW row
  PROVE  /\ IsIndexed(Kept(cells, row))
         /\ \A m \in DOMAIN Kept(cells, row) :
              \E n \in DOMAIN cells : Kept(cells, row)[m] = cells[n]
<1> DEFINE others == Others(cells, row)
           cell == [n \in others |-> cells[n]]
           upTo == [n \in others |-> {m \in others : m <= n}]
           rank == [n \in others |-> Cardinality(upTo[n])]
<1>1. /\ others \subseteq DOMAIN cells
      /\ DOMAIN cells = 1 .. Len(cells) /\ Len(cells) \in Nat
  BY DEF Others, IsIndexed
<1>2. IsFiniteSet(others)
  <2> HIDE DEF others
  <2>1. IsFiniteSet(1 .. Len(cells))
    BY <1>1, FS_Interval
  <2> QED
    BY <1>1, <2>1, FS_Subset
<1>3. Ranks(others, rank)
  <2> HIDE DEF others
  <2>1. /\ upTo \in [others -> SUBSET others]
        /\ \A n \in others : n \in upTo[n]
        /\ \A n, m \in others : n # m =>
             \/ upTo[n] \subseteq upTo[m] /\ m \notin upTo[n]
             \/ upTo[m] \subseteq upTo[n] /\ n \notin upTo[m]
    BY <1>1
  <2> HIDE DEF upTo
  <2> QED
    BY <1>2, <2>1, OrderRanks
<1>4. Kept(cells, row) = Ranked(cell, rank)
  BY DEF Kept
<1>5. DOMAIN cell = others /\ \A n \in others : cell[n] = cells[n]
  OBVIOUS
<1> HIDE DEF others, cell, rank
<1>6. /\ IsIndexed(Ranked(cell, rank))
      /\ \A n \in others : Ranked(cell, rank)[rank[n]] = cell[n]
      /\ \A m \in DOMAIN Ranked(cell, rank) : \E n \in others : rank[n] = m
  BY <1>3, <1>5, RankedIs
<1>7. ASSUME NEW m \in DOMAIN Ranked(cell, rank)
      PROVE  \E n \in DOMAIN cells : Ranked(cell, rank)[m] = cells[n]
  <2>1. PICK n \in others : rank[n] = m
    BY <1>6
  <2> QED
    BY <1>1, <1>5, <1>6, <2>1
<1> QED
  BY <1>4, <1>6, <1>7

-----------------------------------------------------------------------------
(* The table record.                                                        *)

\* A sequence of numbers.
Numbers(s) == s \in Seq(Nat)
LEMMA ConcatAt ==
  ASSUME NEW m \in Nat, NEW n \in Nat,
         NEW s, Numbers(s), Size(s) = m, NEW u, Numbers(u), Size(u) = n
  PROVE  /\ Numbers(Joined(s, u))
         /\ Size(Joined(s, u)) = m + n
         /\ \A k \in 1 .. m : Joined(s, u)[k] = s[k]
         /\ \A k \in 1 .. n : Joined(s, u)[m + k] = u[k]
<1>1. /\ s \o u \in Seq(Nat)
      /\ Len(s \o u) = m + n
      /\ \A k \in 1 .. (m + n) : (s \o u)[k] = IF k <= m THEN s[k] ELSE u[k - m]
  BY ConcatProperties DEF Numbers, Size
<1>2. \A k \in 1 .. m : (s \o u)[k] = s[k]
  <2>1. \A k \in 1 .. m : k \in 1 .. (m + n) /\ k <= m
    OBVIOUS
  <2> QED
    BY <1>1, <2>1
<1>3. ASSUME NEW k \in 1 .. n
      PROVE  (s \o u)[m + k] = u[k]
  <2>1. m + k \in 1 .. (m + n) /\ ~(m + k <= m) /\ m + k - m = k
    OBVIOUS
  <2> QED
    BY <1>1, <2>1
<1> QED
  BY <1>1, <1>2, <1>3 DEF Numbers, Size, Joined

LEMMA CutOut ==
  ASSUME NEW s, Numbers(s), NEW m \in Nat \ {0}, NEW n \in Nat, n <= Size(s), m <= n + 1,
         NEW u, Numbers(u), Size(u) = n - m + 1,
         \A k \in 1 .. (n - m + 1) : u[k] = s[m + k - 1]
  PROVE  Cut(s, m, n) = u
<1>1. s \in Seq(Nat) /\ u \in Seq(Nat) /\ Len(u) = n - m + 1 /\ n <= Len(s)
  BY DEF Numbers, Size
<1>2. \A i \in m .. n : s[i] \in Nat
  <2>1. \A i \in m .. n : i \in 1 .. Len(s)
    BY <1>1
  <2> QED
    BY <1>1, <2>1
<1>3. /\ SubSeq(s, m, n) \in Seq(Nat)
      /\ Len(SubSeq(s, m, n)) = IF m <= n THEN n - m + 1 ELSE 0
      /\ \A k \in 1 .. (n - m + 1) : SubSeq(s, m, n)[k] = s[m + k - 1]
  BY <1>2, SubSeqProperties
<1>4. Len(SubSeq(s, m, n)) = n - m + 1
  BY <1>3
<1> DEFINE cut == SubSeq(s, m, n)
<1> HIDE DEF cut
<1>5. /\ cut \in Seq(Nat) /\ Len(cut) = Len(u)
      /\ \A k \in 1 .. Len(cut) : cut[k] = u[k]
  BY <1>1, <1>3, <1>4 DEF cut
<1> QED
  BY <1>1, <1>5, SeqEqual DEF cut, Cut

ZoneWords(t) ==
  [w \in 1 .. (5 * Len(t.zones)) |-> t.zones[((w - 1) \div 5) + 1][((w - 1) % 5) + 1]]

\* Where every part of a record is.
RecordOf(rec, t, z, x) ==
  /\ t.rows \in Nat /\ z \in Nat /\ x \in Nat
  /\ z = Len(t.zones)
  /\ Numbers(t.sizes) /\ Size(t.sizes) = t.rows
  /\ Numbers(t.extra) /\ Size(t.extra) = x
  /\ Numbers(rec) /\ Size(rec) = t.rows + 4 + 5 * z + x
  /\ rec[1] = t.rows
  /\ \A k \in 1 .. t.rows : rec[2 + k] = t.sizes[k]
  /\ rec[t.rows + 3] = t.border
  /\ rec[t.rows + 4] = z
  /\ \A w \in 1 .. (5 * z) : rec[t.rows + 4 + w] = ZoneWords(t)[w]
  /\ \A k \in 1 .. x : rec[t.rows + 4 + 5 * z + k] = t.extra[k]

LEMMA WordsAre ==
  ASSUME NEW t, IsTable(t)
  PROVE  RecordOf(Words(t), t, Len(t.zones), Len(t.extra))
<1> DEFINE z == Len(t.zones)
           a == <<t.rows, t.cols>>
           b == Joined(a, t.sizes)
           c == <<t.border, z>>
           d == Joined(b, c)
           e == Joined(d, ZoneWords(t))
<1>1. t.rows \in Nat /\ t.cols \in Nat /\ t.border \in Nat /\ z \in Nat
  BY TableAssumption DEF IsTable
<1>2. Numbers(t.sizes) /\ Size(t.sizes) = t.rows /\ Numbers(t.extra)
  <2>1. t.sizes \in [1 .. t.rows -> Nat] /\ t.extra \in Seq(Nat)
    BY DEF IsTable
  <2>2. \A n \in Nat : \A s \in [1 .. n -> Nat] : s \in Seq(Nat) /\ Len(s) = n
    OBVIOUS
  <2>3. t.sizes \in Seq(Nat) /\ Len(t.sizes) = t.rows
    BY <1>1, <2>1, <2>2
  <2> QED
    BY <2>1, <2>3 DEF Numbers, Size
<1>3. Numbers(ZoneWords(t)) /\ Size(ZoneWords(t)) = 5 * z
  <2>1. t.zones \in Seq([1 .. 5 -> Nat])
    BY DEF IsTable
  <2>2. ASSUME NEW w \in 1 .. (5 * z)
        PROVE  t.zones[((w - 1) \div 5) + 1][((w - 1) % 5) + 1] \in Nat
    <3>1. ((w - 1) \div 5) + 1 \in 1 .. z /\ ((w - 1) % 5) + 1 \in 1 .. 5
      BY <1>1
    <3>2. t.zones[((w - 1) \div 5) + 1] \in [1 .. 5 -> Nat]
      BY SMTT(60), <2>1, <3>1
    <3> QED
      BY <3>1, <3>2
  <2>3. ZoneWords(t) \in [1 .. (5 * z) -> Nat]
    BY <2>2 DEF ZoneWords
  <2> QED
    BY <1>1, <2>3 DEF Numbers, Size
<1>4. Numbers(a) /\ Size(a) = 2 /\ a[1] = t.rows /\ Numbers(c) /\ Size(c) = 2
      /\ c[1] = t.border /\ c[2] = z
  BY <1>1 DEF Numbers, Size
<1>5. Words(t) = Joined(e, t.extra)
  BY DEF Words, ZoneWords, Joined
<1> DEFINE y == 5 * z
           x == Len(t.extra)
<1>6. y \in Nat /\ x \in Nat /\ t.rows + 2 \in Nat /\ t.rows + 4 \in Nat /\ t.rows + 4 + y \in Nat
  BY SMTT(60), <1>1, <1>2 DEF Numbers
<1> HIDE DEF a, c, z, y, x
<1>7. /\ Numbers(b) /\ Size(b) = t.rows + 2 /\ b[1] = t.rows
      /\ \A k \in 1 .. t.rows : b[2 + k] = t.sizes[k]
  <2>1. /\ Numbers(b) /\ Size(b) = 2 + t.rows
        /\ \A k \in 1 .. 2 : b[k] = a[k]
        /\ \A k \in 1 .. t.rows : b[2 + k] = t.sizes[k]
    <3>1. 2 \in Nat
      OBVIOUS
    <3> QED
      BY <3>1, <1>1, <1>2, <1>4, ConcatAt
  <2> HIDE DEF b
  <2> QED
    BY <1>1, <1>4, <2>1
<1> HIDE DEF b
<1>8. /\ Numbers(d) /\ Size(d) = t.rows + 4
      /\ \A k \in 1 .. (t.rows + 2) : d[k] = b[k]
      /\ d[t.rows + 3] = t.border /\ d[t.rows + 4] = z
  <2>1. /\ Numbers(d) /\ Size(d) = (t.rows + 2) + 2
        /\ \A k \in 1 .. (t.rows + 2) : d[k] = b[k]
        /\ \A k \in 1 .. 2 : d[(t.rows + 2) + k] = c[k]
    <3>1. 2 \in Nat
      OBVIOUS
    <3> QED
      BY <3>1, <1>4, <1>6, <1>7, ConcatAt
  <2> HIDE DEF d
  <2>2. d[(t.rows + 2) + 1] = c[1] /\ d[(t.rows + 2) + 2] = c[2]
    BY <2>1
  <2>3. (t.rows + 2) + 1 = t.rows + 3 /\ (t.rows + 2) + 2 = t.rows + 4
    BY <1>1
  <2> QED
    BY <1>4, <2>1, <2>2, <2>3
<1> HIDE DEF d
<1>9. /\ Numbers(e) /\ Size(e) = (t.rows + 4) + y
      /\ \A k \in 1 .. (t.rows + 4) : e[k] = d[k]
      /\ \A w \in 1 .. y : e[(t.rows + 4) + w] = ZoneWords(t)[w]
  <2>1. Size(ZoneWords(t)) = y
    BY <1>3 DEF y
  <2> QED
    BY <1>3, <1>6, <1>8, <2>1, ConcatAt
<1> HIDE DEF e
<1> DEFINE f == Joined(e, t.extra)
<1>10. /\ Numbers(f) /\ Size(f) = (t.rows + 4 + y) + x
       /\ \A k \in 1 .. (t.rows + 4 + y) : f[k] = e[k]
       /\ \A k \in 1 .. x : f[(t.rows + 4 + y) + k] = t.extra[k]
  <2>1. Size(t.extra) = x
    BY DEF x, Size
  <2> QED
    BY <1>2, <1>6, <1>9, <2>1, ConcatAt
<1> HIDE DEF f
<1>11. \A k \in 1 .. (t.rows + 4) : f[k] = d[k]
  <2>1. ASSUME NEW k \in 1 .. (t.rows + 4) PROVE f[k] = d[k]
    <3>1. k \in 1 .. (t.rows + 4 + y)
      BY <1>1, <1>6
    <3> QED
      BY <1>9, <1>10, <3>1
  <2> QED
    BY <2>1
<1>12. f[t.rows + 3] = t.border /\ f[t.rows + 4] = z
  <2>1. t.rows + 3 \in 1 .. (t.rows + 4) /\ t.rows + 4 \in 1 .. (t.rows + 4)
    BY <1>1
  <2> QED
    BY <1>8, <1>11, <2>1
<1>13. \A k \in 1 .. (t.rows + 2) : f[k] = b[k]
  <2>1. \A k \in 1 .. (t.rows + 2) : k \in 1 .. (t.rows + 4)
    BY <1>1
  <2> QED
    BY <1>8, <1>11, <2>1
<1>14. f[1] = t.rows /\ \A k \in 1 .. t.rows : f[2 + k] = t.sizes[k]
  <2>1. 1 \in 1 .. (t.rows + 2) /\ \A k \in 1 .. t.rows : 2 + k \in 1 .. (t.rows + 2)
    BY <1>1
  <2> QED
    BY <1>7, <1>13, <2>1
<1>15. \A w \in 1 .. y : f[t.rows + 4 + w] = ZoneWords(t)[w]
  <2>1. ASSUME NEW w \in 1 .. y PROVE f[t.rows + 4 + w] = ZoneWords(t)[w]
    <3>1. t.rows + 4 + w \in 1 .. (t.rows + 4 + y)
      BY <1>1, <1>6
    <3> QED
      BY <1>9, <1>10, <3>1
  <2> QED
    BY <2>1
<1>16. Words(t) = f
  BY <1>5 DEF f
<1> QED
  BY <1>1, <1>2, <1>3, <1>10, <1>12, <1>14, <1>15, <1>16 DEF RecordOf, x, y, z, Size

\* The record of a table is read back as the parts it was written from.
LEMMA ReopenedParts ==
  ASSUME NEW t, IsTable(t), record = Words(t)
  PROVE  LET size == SizesEnd(record[1])
             zones == Least(WordAt(size + 2), (IF Len(record) < size + 2 THEN 0
                                                ELSE Len(record) - size - 2) \div 5)
             start(n) == size + 3 + 5 * (n - 1)
         IN /\ SubSeq(record, 3, size) = t.sizes
            /\ WordAt(size + 1) = t.border
            /\ [n \in 1 .. zones |-> SubSeq(record, start(n), start(n) + 4)] = t.zones
            /\ SubSeq(record, start(zones + 1), Len(record)) = t.extra
<1> DEFINE z == Len(t.zones)
           x == Len(t.extra)
           R == t.rows
           y == 5 * z
           N == R + 4 + y + x
<1>1. RecordOf(record, t, z, x)
  BY WordsAre
<1>2. /\ R \in Nat /\ z \in Nat /\ x \in Nat /\ y \in Nat /\ N \in Nat
      /\ Numbers(t.sizes) /\ Size(t.sizes) = R
      /\ Numbers(t.extra) /\ Size(t.extra) = x
      /\ Numbers(record) /\ Size(record) = N
      /\ record[1] = R
      /\ \A k \in 1 .. R : record[2 + k] = t.sizes[k]
      /\ record[R + 3] = t.border
      /\ record[R + 4] = z
      /\ \A w \in 1 .. y : record[R + 4 + w] = ZoneWords(t)[w]
      /\ \A k \in 1 .. x : record[R + 4 + y + k] = t.extra[k]
  <2>1. R \in Nat /\ z \in Nat /\ x \in Nat
    BY <1>1 DEF RecordOf
  <2>2. y \in Nat /\ N \in Nat
    <3> HIDE DEF R, x, z
    <3> QED
      BY <2>1
  <2> QED
    BY <1>1, <2>1, <2>2 DEF RecordOf
<1>3. Len(record) = N /\ DOMAIN record = 1 .. N
  <2>1. record \in Seq(Nat) /\ Len(record) = N
    BY <1>2 DEF Numbers, Size
  <2> QED
    BY <2>1
<1>4. t.zones \in Seq([1 .. 5 -> Nat])
  BY DEF IsTable
<1> HIDE DEF R, x, z
<1>5. SizesEnd(record[1]) = R + 2
  BY <1>2, <1>3 DEF SizesEnd, Least
<1>6. WordAt(R + 3) = t.border /\ WordAt(R + 4) = z
  <2>1. R + 3 \in 1 .. N /\ R + 4 \in 1 .. N
    BY <1>2
  <2> QED
    BY <1>2, <1>3, <2>1 DEF WordAt
<1>7. Least(z, (IF Len(record) < (R + 2) + 2 THEN 0 ELSE Len(record) - (R + 2) - 2) \div 5) = z
  <2>1. ~(Len(record) < (R + 2) + 2) /\ Len(record) - (R + 2) - 2 = 5 * z + x
    BY <1>2, <1>3
  <2>2. (5 * z + x) \div 5 >= z /\ (5 * z + x) \div 5 \in Nat
    BY <1>2
  <2>3. (IF Len(record) < (R + 2) + 2 THEN 0 ELSE Len(record) - (R + 2) - 2) = 5 * z + x
    BY <2>1
  <2>4. Least(z, (5 * z + x) \div 5) = z
    BY <1>2, <2>2 DEF Least
  <2> QED
    BY <2>3, <2>4
<1>8. /\ (R + 2) + 2 = R + 4 /\ (R + 2) + 1 = R + 3
      /\ (R + 2) + 3 + 5 * ((z + 1) - 1) = R + 5 + y
      /\ \A n \in 1 .. z : (R + 2) + 3 + 5 * (n - 1) = R + 5 + 5 * (n - 1)
  BY <1>2
<1>9. SubSeq(record, 3, R + 2) = t.sizes
  <2> DEFINE from == 3
             to == R + 2
  <2>1. \A k \in 1 .. R : t.sizes[k] = record[from + k - 1]
    <3>1. \A k \in 1 .. R : from + k - 1 = 2 + k
      BY <1>2
    <3> QED
      BY <1>2, <3>1
  <2>2. /\ from \in Nat \ {0} /\ to \in Nat
        /\ to <= N /\ from <= to + 1 /\ to - from + 1 = R
    BY <1>2
  <2> HIDE DEF N, from, to
  <2>3. Cut(record, from, to) = t.sizes
    <3>1. \A k \in 1 .. (to - from + 1) : t.sizes[k] = record[from + k - 1]
      BY <2>1, <2>2
    <3>2. to <= Size(record) /\ Size(t.sizes) = to - from + 1
      BY <1>2, <2>2
    <3>3. Numbers(record) /\ Numbers(t.sizes)
      BY <1>2
    <3> QED
      BY <2>2, <3>1, <3>2, <3>3, CutOut
  <2> QED
    BY <2>3 DEF Cut, from, to
<1>10. SubSeq(record, R + 5 + y, Len(record)) = t.extra
  <2>1. \A k \in 1 .. x : t.extra[k] = record[(R + 5 + y) + k - 1]
    <3>1. \A k \in 1 .. x : (R + 5 + y) + k - 1 = R + 4 + y + k
      BY <1>2
    <3> QED
      BY <1>2, <3>1
  <2>2. /\ R + 5 + y \in Nat \ {0} /\ N <= N
        /\ R + 5 + y <= N + 1 /\ N - (R + 5 + y) + 1 = x
    BY <1>2
  <2> HIDE DEF N, y
  <2>3. Cut(record, R + 5 + y, N) = t.extra
    BY <1>2, <2>1, <2>2, CutOut
  <2> QED
    BY <1>3, <2>3 DEF Cut
<1>11. ASSUME NEW n \in 1 .. z
       PROVE  SubSeq(record, R + 5 + 5 * (n - 1), R + 5 + 5 * (n - 1) + 4) = t.zones[n]
  <2> DEFINE from == R + 5 + 5 * (n - 1)
             to == from + 4
  <2>1. Numbers(t.zones[n]) /\ Size(t.zones[n]) = 5
    <3>1. t.zones[n] \in [1 .. 5 -> Nat]
      BY SMTT(60), <1>2, <1>4 DEF z
    <3>2. \A m \in Nat : \A u \in [1 .. m -> Nat] : u \in Seq(Nat) /\ Len(u) = m
      OBVIOUS
    <3>3. t.zones[n] \in Seq(Nat) /\ Len(t.zones[n]) = 5
      BY <3>1, <3>2
    <3> QED
      BY <3>3 DEF Numbers, Size
  <2>2. ASSUME NEW k \in 1 .. 5 PROVE t.zones[n][k] = record[from + k - 1]
    <3> DEFINE w == 5 * (n - 1) + k
    <3>1. w \in 1 .. y
      BY <1>2
    <3>2. ((w - 1) \div 5) + 1 = n /\ ((w - 1) % 5) + 1 = k
      BY <1>2
    <3>3. from + k - 1 = R + 4 + w
      BY <1>2
    <3>4. w \in 1 .. (5 * Len(t.zones))
      BY <3>1 DEF z
    <3> HIDE DEF w, from, y
    <3>5. ZoneWords(t)[w] = t.zones[n][k]
      BY <3>2, <3>4 DEF ZoneWords
    <3>6. record[R + 4 + w] = ZoneWords(t)[w]
      BY <1>2, <3>1
    <3> QED
      BY <3>3, <3>5, <3>6
  <2>3. /\ from \in Nat \ {0} /\ to \in Nat
        /\ to <= N /\ from <= to + 1 /\ to - from + 1 = 5
    BY <1>2
  <2> HIDE DEF from, to, N
  <2>4. Cut(record, from, to) = t.zones[n]
    <3>1. \A k \in 1 .. (to - from + 1) : t.zones[n][k] = record[from + k - 1]
      BY <2>2, <2>3
    <3>2. to <= Size(record) /\ Size(t.zones[n]) = to - from + 1
      BY <1>2, <2>1, <2>3
    <3>3. Numbers(record) /\ Numbers(t.zones[n])
      BY <1>2, <2>1
    <3> QED
      BY SMTT(60), <2>3, <3>1, <3>2, <3>3, CutOut
  <2> QED
    BY <2>4 DEF from, to, Cut
<1>12. [n \in 1 .. z |-> SubSeq(record, (R + 2) + 3 + 5 * (n - 1),
                                (R + 2) + 3 + 5 * (n - 1) + 4)] = t.zones
  <2>1. \A n \in 1 .. z : SubSeq(record, (R + 2) + 3 + 5 * (n - 1),
                                 (R + 2) + 3 + 5 * (n - 1) + 4) = t.zones[n]
    BY <1>8, <1>11
  <2>2. \A S : \A s \in Seq(S) : s = [n \in 1 .. Len(s) |-> s[n]]
    OBVIOUS
  <2>3. [n \in 1 .. z |-> t.zones[n]] = t.zones
    BY <1>4, <2>2 DEF z
  <2> QED
    BY <2>1, <2>3
<1> HIDE DEF N, y
<1> QED
  BY ZenonT(60), <1>5, <1>6, <1>7, <1>8, <1>9, <1>10, <1>12

-----------------------------------------------------------------------------
(* The table that was given, and what is expected of it.  Nothing but the   *)
(* table and the data matters, and no step changes these.                   *)

ExpandsIn(g, d) ==
  Marks(g) /\ ~Rejected(g) /\ ArrayName(g) \in DOMAIN d /\ d[ArrayName(g)].array
FitsIn(g, d) == ExpandsIn(g, d) => g.rows + Len(d[ArrayName(g)].items) - 1 < Word
WellIn(g, d) ==
  ExpandsIn(g, d) /\ d[ArrayName(g)].items # << >> /\ RowStandsAlone(g) /\ Tiles(g)
ItemIn(g, d, r) ==
  LET n == r - TemplateRow(g) + 1
  IN IF n \in DOMAIN d[ArrayName(g)].items THEN {d[ArrayName(g)].items[n]} ELSE {}
TemplateIn(g, d, r, k) ==
  LET at == TemplateRow(g)
  IN IF r < at THEN Shown(g, r, k)
     ELSE IF ItemIn(g, d, r) # {} THEN Shown(g, at, k)
     ELSE Shown(g, r - Len(d[ArrayName(g)].items) + 1, k)
ExpectedIn(g, d, r, k) ==
  LET token == TemplateIn(g, d, r, k)
  IN IF ItemIn(g, d, r) = {} \/ token.kind # "table" THEN token
     ELSE LookedUp(token.field, CHOOSE i \in ItemIn(g, d, r) : TRUE)

LEMMA Named ==
  /\ \A t : Expands(t) <=> ExpandsIn(t, data)
  /\ Fits <=> FitsIn(given, data)
  /\ WellExpanded <=> WellIn(given, data)
  /\ \A r, k : Expected(r, k) = ExpectedIn(given, data, r, k)
<1>1. \A t : Expands(t) <=> ExpandsIn(t, data)
  BY DEF Expands, ExpandsIn, Items
<1>2. Fits <=> FitsIn(given, data)
  BY DEF Fits, FitsIn, Expands, ExpandsIn, Items
<1>3. WellExpanded <=> WellIn(given, data)
  BY DEF WellExpanded, WellIn, Expands, ExpandsIn, Items
<1>4. \A r, k : Expected(r, k) = ExpectedIn(given, data, r, k)
  BY DEF Expected, ExpectedIn, Template, TemplateIn, ItemOf, ItemIn, Items
<1> QED
  BY <1>1, <1>2, <1>3, <1>4

\* A table that expands is one whose rows can be moved.
LEMMA ExpandsExpansion ==
  ASSUME NEW g \in Tables, NEW d \in DataSets, ExpandsIn(g, d), FitsIn(g, d),
         d[ArrayName(g)].items # << >>
  PROVE  IsExpansion(g, TemplateRow(g), d[ArrayName(g)].items)
<1>1. IsTable(g) /\ IsIndexed(d[ArrayName(g)].items)
  BY TableAssumption DEF ExpandsIn
<1>2. Marked(g) \subseteq Nat /\ Marked(g) # {} /\ Marked(g) \subseteq DOMAIN g.cells
  <2>1. Len(g.cells) \in Nat /\ DOMAIN g.cells = 1 .. Len(g.cells)
    BY <1>1 DEF IsTable, IsIndexed
  <2> QED
    BY <2>1 DEF ExpandsIn, Marks, Marked
<1>3. FirstMarked(g) \in Marked(g)
  BY <1>2, LeastOf DEF FirstMarked
<1>4. \E n \in DOMAIN g.cells : g.cells[n].row = TemplateRow(g)
  BY <1>2, <1>3 DEF TemplateRow
<1>5. g.rows + Len(d[ArrayName(g)].items) - 1 < Word
  BY DEF FitsIn
<1> QED
  BY <1>1, <1>4, <1>5 DEF IsExpansion

\* What is expected of a slot, by the row it comes from.
LEMMA ExpectedIs ==
  ASSUME NEW g, NEW d,
         IsExpansion(g, TemplateRow(g), d[ArrayName(g)].items),
         NEW r \in 0 .. (g.rows + Len(d[ArrayName(g)].items) - 2), NEW k,
         NEW n, Holders(g.cells, SourceRow(TemplateRow(g), Len(d[ArrayName(g)].items), r), k) = {n}
  PROVE  LET items == d[ArrayName(g)].items
             i == CopyAt(TemplateRow(g), Len(items), r)
         IN ExpectedIn(g, d, r, k) = IF i = 0 THEN g.cells[n].token
                                     ELSE Filled(g.cells[n].token, items[i])
<1> DEFINE items == d[ArrayName(g)].items
           row == TemplateRow(g)
           L == Len(items)
           i == CopyAt(row, L, r)
<1>1. /\ row \in 0 .. (g.rows - 1) /\ g.rows \in Nat /\ L \in Nat \ {0}
      /\ DOMAIN items = 1 .. L
  BY ExpansionIs
<1>2. Shown(g, SourceRow(row, L, r), k) = g.cells[n].token
  BY DEF Shown
<1>3. ItemIn(g, d, r) = IF i = 0 THEN {} ELSE {items[i]}
  <2>1. CASE r \in row .. (row + L - 1)
    <3>1. i = r - row + 1 /\ i \in DOMAIN items /\ i # 0
      BY SMTT(60), <1>1, <2>1 DEF CopyAt
    <3> QED
      BY <3>1 DEF ItemIn
  <2>2. CASE r \notin row .. (row + L - 1)
    <3>1. i = 0 /\ r - row + 1 \notin DOMAIN items
      BY SMTT(60), <1>1, <2>2 DEF CopyAt
    <3> QED
      BY <3>1 DEF ItemIn
  <2> QED
    BY <2>1, <2>2
<1>4. TemplateIn(g, d, r, k) = g.cells[n].token
  <2>1. CASE r < row
    <3>1. SourceRow(row, L, r) = r
      BY <2>1 DEF SourceRow
    <3> QED
      BY <1>2, <2>1, <3>1 DEF TemplateIn
  <2>2. CASE r \in row .. (row + L - 1)
    <3>1. SourceRow(row, L, r) = row /\ i # 0 /\ ~(r < row)
      <4> HIDE DEF items, row, L
      <4>1. ~(r < row) /\ r < row + L
        BY <1>1, <2>2
      <4>2. i = r - row + 1
        BY <2>2 DEF CopyAt
      <4>3. SourceRow(row, L, r) = row
        BY <4>1 DEF SourceRow
      <4> QED
        BY <1>1, <2>2, <4>1, <4>2, <4>3
    <3>2. ItemIn(g, d, r) # {}
      BY <1>3, <3>1
    <3> QED
      BY <1>2, <3>1, <3>2 DEF TemplateIn
  <2>3. CASE r >= row + L
    <3>1. SourceRow(row, L, r) = r - L + 1 /\ i = 0 /\ ~(r < row)
      <4> HIDE DEF items, row, L
      <4>1. ~(r < row) /\ ~(r < row + L) /\ r \notin row .. (row + L - 1)
        BY <1>1, <2>3
      <4> QED
        BY <4>1 DEF SourceRow, CopyAt
    <3>2. ItemIn(g, d, r) = {}
      BY <1>3, <3>1
    <3> QED
      BY <1>2, <3>1, <3>2 DEF TemplateIn
  <2> QED
    BY SMTT(60), <1>1, <2>1, <2>2, <2>3
<1>5. CASE i = 0
  BY <1>3, <1>4, <1>5 DEF ExpectedIn
<1>6. CASE i # 0
  <2>1. ItemIn(g, d, r) = {items[i]} /\ ItemIn(g, d, r) # {}
    BY <1>3, <1>6
  <2>2. (CHOOSE item \in ItemIn(g, d, r) : TRUE) = items[i]
    BY <2>1
  <2> QED
    BY <1>4, <1>6, <2>1, <2>2 DEF ExpectedIn, Filled
<1> QED
  BY <1>5, <1>6

-----------------------------------------------------------------------------
(* The invariant.                                                           *)

AsGiven(g) ==
  [rows |-> g.rows, cols |-> g.cols, sizes |-> g.sizes,
   border |-> g.border, zones |-> g.zones, extra |-> g.extra,
   cells |-> g.cells, grid |-> Grid(g.rows, g.cols, g.cells)]

\* Between the reading and the reopening, only the cells and their count change.
PartsKept ==
  /\ table.cols = given.cols
  /\ phase # "reopened" =>
       /\ table.sizes = given.sizes /\ table.border = given.border
       /\ table.zones = given.zones /\ table.extra = given.extra

Phases == {"given", "expanded", "filled", "failed", "saved", "reopened"}

\* What a table is that lies in the bounds of its row and column counts.
Sound(t) ==
  /\ t.rows \in 0 .. (Word - 1)
  /\ t.cols \in 0 .. (Word - 1)
  /\ \A n \in DOMAIN t.cells :
       DOMAIN t.cells[n] = CellFields /\ t.cells[n].row < t.rows /\ t.cells[n].col < t.cols
  /\ \A r \in 0 .. (t.rows - 1), k \in 0 .. (t.cols - 1) :
       t.grid[r][k] \in {0} \cup DOMAIN t.cells

Shows(t, g, d) ==
  \A r \in 0 .. (t.rows - 1), k \in 0 .. (t.cols - 1) :
    t.grid[r][k] # 0 /\ t.cells[t.grid[r][k]].token = ExpectedIn(g, d, r, k)

TableInv ==
  /\ given \in Tables /\ data \in DataSets /\ phase \in Phases
  /\ DOMAIN table = DOMAIN AsGiven(given)
  /\ phase = "given" => table = AsGiven(given)
  /\ PartsKept
  /\ phase = "saved" => record = Words(table)
  /\ SameRowsReopen
  /\ FitsIn(given, data) =>
       /\ Sound(table)
       /\ phase \notin {"given", "failed"} /\ WellIn(given, data) => Tiles(table)
       /\ phase = "expanded" /\ WellIn(given, data) => Shows(table, given, data)

LEMMA TableInvImplies == TableInv => RowsInPlace
<1> SUFFICES ASSUME TableInv, Fits PROVE
      /\ TypeOK
      /\ SameRowsReopen
      /\ phase \notin {"given", "failed"} /\ WellExpanded => Tiles(table)
      /\ phase = "expanded" /\ WellExpanded => ShowsItems
  BY DEF RowsInPlace
<1>1. FitsIn(given, data)
  BY Named
<1>2. TypeOK
  BY <1>1 DEF TableInv, TypeOK, Sound, Phases
<1>3. ASSUME phase \notin {"given", "failed"}, WellExpanded PROVE Tiles(table)
  BY <1>1, <1>3, Named DEF TableInv
<1>4. ASSUME phase = "expanded", WellExpanded PROVE ShowsItems
  <2>1. Shows(table, given, data)
    BY <1>1, <1>4, Named DEF TableInv
  <2> QED
    BY <2>1, Named DEF Shows, ShowsItems
<1> QED
  BY <1>2, <1>3, <1>4 DEF TableInv

\* The table as it was given.
LEMMA GivenSound ==
  ASSUME NEW g \in Tables
  PROVE  Sound(AsGiven(g))
<1>1. /\ Word \in Nat \ {0} /\ IsTable(g) /\ IsIndexed(g.cells)
  BY TableAssumption DEF IsTable
<1>2. g.rows \in 0 .. (Word - 1) /\ g.cols \in 0 .. (Word - 1)
  BY <1>1 DEF IsTable
<1>3. \A n \in DOMAIN g.cells :
        DOMAIN g.cells[n] = CellFields /\ g.cells[n].row < g.rows /\ g.cells[n].col < g.cols
  BY SMTT(60), <1>1, <1>2 DEF IsTable, CellFields
<1>4. \A r \in 0 .. (g.rows - 1), k \in 0 .. (g.cols - 1) :
        Grid(g.rows, g.cols, g.cells)[r][k] \in {0} \cup DOMAIN g.cells
  BY <1>1, GridIs
<1> QED
  BY <1>2, <1>3, <1>4 DEF Sound, AsGiven

LEMMA AsGivenSame ==
  ASSUME NEW g
  PROVE  /\ \A d : ExpandsIn(AsGiven(g), d) <=> ExpandsIn(g, d)
         /\ TemplateRow(AsGiven(g)) = TemplateRow(g)
         /\ ArrayName(AsGiven(g)) = ArrayName(g)
<1>1. AsGiven(g).cells = g.cells /\ AsGiven(g).cols = g.cols
  BY DEF AsGiven
<1>2. Marked(AsGiven(g)) = Marked(g)
  BY <1>1 DEF Marked
<1>3. FirstMarked(AsGiven(g)) = FirstMarked(g)
  BY <1>2 DEF FirstMarked
<1>4. /\ TemplateRow(AsGiven(g)) = TemplateRow(g)
      /\ ArrayName(AsGiven(g)) = ArrayName(g)
  BY <1>1, <1>3 DEF TemplateRow, ArrayName
<1>5. Marks(AsGiven(g)) = Marks(g)
  BY <1>1, <1>2 DEF Marks
<1> QED
  BY <1>4, <1>5 DEF ExpandsIn, Rejected

LEMMA TableInitInv == Init => TableInv
<1> SUFFICES ASSUME Init PROVE TableInv
  OBVIOUS
<1>1. given \in Tables /\ data \in DataSets /\ phase = "given" /\ table = AsGiven(given)
  BY DEF Init, AsGiven
<1>2. Sound(table)
  BY <1>1, GivenSound
<1>3. PartsKept
  BY <1>1 DEF PartsKept, AsGiven
<1> QED
  BY <1>1, <1>2, <1>3 DEF TableInv, Phases, SameRowsReopen

-----------------------------------------------------------------------------
(* What the operations make of a table.                                     *)

IsExpanded(t, g, row, items) ==
  /\ t.cells = ExpandedCells(g.cells, row, items)
  /\ t.rows = AtLeastOne((g.rows + Len(items) - 1) % Word)
  /\ t.cols = g.cols
  /\ t.grid = Grid(t.rows, t.cols, t.cells)

LEMMA ExpandedGood ==
  ASSUME NEW g \in Tables, NEW d \in DataSets, ExpandsIn(g, d), FitsIn(g, d),
         d[ArrayName(g)].items # << >>,
         NEW t, IsExpanded(t, g, TemplateRow(g), d[ArrayName(g)].items)
  PROVE  /\ Sound(t)
         /\ WellIn(g, d) => Tiles(t) /\ Shows(t, g, d)
<1> DEFINE items == d[ArrayName(g)].items
           row == TemplateRow(g)
           L == Len(items)
<1>1. IsExpansion(g, row, items)
  BY ExpandsExpansion
<1>2. /\ g.rows \in Nat \ {0} /\ g.cols \in Nat /\ row \in 0 .. (g.rows - 1)
      /\ L \in Nat \ {0} /\ DOMAIN items = 1 .. L
      /\ Word \in Nat \ {0} /\ g.rows + L - 1 < Word
  BY <1>1, ExpansionIs
<1>3. IsExpanded(t, g, row, items)
  OBVIOUS
<1>4. \A r \in 0 .. (g.rows + L - 2) : \A k, n :
        Holders(g.cells, SourceRow(row, L, r), k) = {n} =>
          ExpectedIn(g, d, r, k) = IF CopyAt(row, L, r) = 0 THEN g.cells[n].token
                                   ELSE Filled(g.cells[n].token, items[CopyAt(row, L, r)])
  BY <1>1, ExpectedIs
<1>5. WellIn(g, d) => StandsAlone(g, row)
  BY DEF WellIn, RowStandsAlone, StandsAlone
<1> HIDE DEF items, row
<1>6. IsIndexed(g.cells) /\ g.cols < Word
  BY <1>2, TableAssumption DEF IsTable
<1>7. t.rows = g.rows + L - 1
  <2>1. g.rows + L - 1 \in Nat \ {0}
    BY <1>2
  <2>2. (g.rows + L - 1) % Word = g.rows + L - 1
    BY <1>2, <2>1, SmallWord
  <2>3. t.rows = AtLeastOne(g.rows + L - 1)
    BY <1>3, <2>2 DEF IsExpanded
  <2> QED
    BY <2>1, <2>3 DEF AtLeastOne
<1>8. /\ IsIndexed(t.cells)
      /\ \A m \in DOMAIN t.cells :
           /\ DOMAIN t.cells[m] = CellFields
           /\ t.cells[m].row \in 0 .. (g.rows + L - 2)
           /\ t.cells[m].col \in 0 .. (g.cols - 1)
  <2> DEFINE sorted == ExpandedCells(g.cells, row, items)
  <2>1. /\ IsIndexed(sorted)
        /\ \A m \in DOMAIN sorted :
             /\ DOMAIN sorted[m] = CellFields
             /\ sorted[m].row \in 0 .. (g.rows + L - 2)
             /\ sorted[m].col \in 0 .. (g.cols - 1)
    BY <1>1, ExpandedInside
  <2>2. t.cells = sorted
    BY <1>3 DEF IsExpanded
  <2> HIDE DEF sorted, L
  <2>3. ASSUME NEW m \in DOMAIN t.cells
        PROVE  /\ DOMAIN t.cells[m] = CellFields
               /\ t.cells[m].row \in 0 .. (g.rows + L - 2)
               /\ t.cells[m].col \in 0 .. (g.cols - 1)
    BY <2>1, <2>2
  <2>4. IsIndexed(t.cells)
    BY <2>1, <2>2
  <2> QED
    BY <2>3, <2>4
<1>9. Sound(t)
  <2>1. t.rows \in 0 .. (Word - 1) /\ t.cols \in 0 .. (Word - 1)
    <3>1. t.cols = g.cols
      BY <1>3 DEF IsExpanded
    <3> HIDE DEF L
    <3> QED
      BY <1>2, <1>6, <1>7, <3>1
  <2>2. \A n \in DOMAIN t.cells :
          DOMAIN t.cells[n] = CellFields /\ t.cells[n].row < t.rows /\ t.cells[n].col < t.cols
    <3>1. ASSUME NEW n \in DOMAIN t.cells
          PROVE  t.cells[n].row < t.rows /\ t.cells[n].col < t.cols
      <4>1. t.cells[n].row \in 0 .. (g.rows + L - 2) /\ t.cells[n].col \in 0 .. (g.cols - 1)
        BY <1>8
      <4>2. t.cols = g.cols
        BY <1>3 DEF IsExpanded
      <4> HIDE DEF L
      <4> QED
        BY SMTT(60), <1>2, <1>7, <4>1, <4>2
    <3> QED
      BY <1>8, <3>1
  <2>3. \A r \in 0 .. (t.rows - 1), k \in 0 .. (t.cols - 1) :
          t.grid[r][k] \in {0} \cup DOMAIN t.cells
    BY <1>3, <1>8, GridIs DEF IsExpanded
  <2> QED
    BY <2>1, <2>2, <2>3 DEF Sound
<1>10. ASSUME WellIn(g, d),
              NEW r \in 0 .. (t.rows - 1), NEW k \in 0 .. (t.cols - 1)
       PROVE  /\ Cardinality(Holders(t.cells, r, k)) = 1
              /\ t.grid[r][k] # 0
              /\ t.cells[t.grid[r][k]].token = ExpectedIn(g, d, r, k)
  <2> DEFINE from == SourceRow(row, L, r)
  <2>1. r \in 0 .. (g.rows + L - 2) /\ from \in 0 .. (g.rows - 1)
    <3> HIDE DEF L
    <3>1. r \in 0 .. (g.rows + L - 2)
      BY <1>2, <1>7
    <3> QED
      BY SMTT(60), <1>2, <3>1 DEF SourceRow
  <2>2. Cardinality(Holders(g.cells, from, k)) = 1
    <3> HIDE DEF from
    <3> QED
      BY <1>3, <1>10, <2>1 DEF WellIn, Tiles, IsExpanded
  <2>3. PICK n : Holders(g.cells, from, k) = {n}
    BY <1>6, <2>2, HoldersFinite
  <2>4. PICK m \in DOMAIN t.cells :
          Holders(t.cells, r, k) = {m} /\ t.cells[m].token = TokenAt(g.cells[n], row, items, r)
    <3>1. StandsAlone(g, row)
      BY <1>5, <1>10
    <3>2. InRows(g, items, r)
      BY <2>1 DEF InRows
    <3>3. Holders(g.cells, SourceRow(row, Len(items), r), k) = {n}
      BY <2>3
    <3>4. OneHolder(ExpandedCells(g.cells, row, items), r, k,
                    TokenAt(g.cells[n], row, items, r))
      BY <1>1, <3>1, <3>2, <3>3, ExpandTiles
    <3>5. t.cells = ExpandedCells(g.cells, row, items)
      BY <1>3 DEF IsExpanded
    <3> QED
      BY <3>4, <3>5 DEF OneHolder
  <2>5. ExpectedIn(g, d, r, k) = TokenAt(g.cells[n], row, items, r)
    BY <1>4, <2>1, <2>3 DEF TokenAt
  <2>6. t.grid[r][k] = m
    <3>1. HeldBy(t, r, k, m)
      BY <1>8, <2>4 DEF HeldBy
    <3>2. GridHas(t, r, k, m)
      BY <3>1, GridOfTable
    <3> QED
      BY <1>3, <3>2 DEF IsExpanded, GridHas
  <2>7. m # 0
    BY <1>8, <2>4 DEF IsIndexed
  <2>8. Cardinality(Holders(t.cells, r, k)) = 1
    BY <1>8, <2>4, HoldersFinite
  <2> QED
    BY <2>4, <2>5, <2>6, <2>7, <2>8
<1> QED
  BY <1>9, <1>10 DEF Tiles, Shows

LEMMA KeptGood ==
  ASSUME NEW g \in Tables, NEW row, NEW t, t.cells = Kept(g.cells, row),
         t.rows = g.rows, t.cols = g.cols, t.grid = Grid(t.rows, t.cols, t.cells)
  PROVE  Sound(t)
<1>1. Sound(AsGiven(g)) /\ IsIndexed(g.cells)
  BY GivenSound, TableAssumption DEF IsTable
<1>2. /\ IsIndexed(t.cells)
      /\ \A m \in DOMAIN t.cells : \E n \in DOMAIN g.cells : t.cells[m] = g.cells[n]
  BY <1>1, KeptIs
<1>3. \A r \in 0 .. (t.rows - 1), k \in 0 .. (t.cols - 1) :
        t.grid[r][k] \in {0} \cup DOMAIN t.cells
  BY <1>2, GridIs
<1>4. /\ g.rows \in 0 .. (Word - 1) /\ g.cols \in 0 .. (Word - 1)
      /\ \A n \in DOMAIN g.cells :
           DOMAIN g.cells[n] = CellFields /\ g.cells[n].row < g.rows /\ g.cells[n].col < g.cols
  BY <1>1 DEF Sound, AsGiven
<1>5. \A n \in DOMAIN t.cells :
        DOMAIN t.cells[n] = CellFields /\ t.cells[n].row < t.rows /\ t.cells[n].col < t.cols
  BY <1>2, <1>4
<1> QED
  BY <1>3, <1>4, <1>5 DEF Sound

\* The tables u and t have their cells in the same places.
SamePlaces(u, t) ==
  /\ u.rows = t.rows /\ u.cols = t.cols /\ u.grid = t.grid
  /\ DOMAIN u.cells = DOMAIN t.cells
  /\ \A n \in DOMAIN t.cells :
       /\ DOMAIN u.cells[n] = DOMAIN t.cells[n]
       /\ u.cells[n].row = t.cells[n].row /\ u.cells[n].rowSpan = t.cells[n].rowSpan
       /\ u.cells[n].col = t.cells[n].col /\ u.cells[n].colSpan = t.cells[n].colSpan

LEMMA PlacesGood ==
  ASSUME NEW u, NEW t, SamePlaces(u, t)
  PROVE  (Sound(t) => Sound(u)) /\ (Tiles(t) => Tiles(u))
<1>1. \A r, k : Holders(u.cells, r, k) = Holders(t.cells, r, k)
  BY DEF SamePlaces, Holders, Covers
<1>2. Tiles(t) => Tiles(u)
  BY <1>1 DEF SamePlaces, Tiles
<1>3. Sound(t) => Sound(u)
  BY DEF SamePlaces, Sound
<1> QED
  BY <1>2, <1>3

-----------------------------------------------------------------------------
(* The steps.                                                               *)

\* A step that leaves the table alone: either it fails, or the table has no rows
\* to move, or it saves.
LEMMA TableAlone ==
  ASSUME TableInv, UNCHANGED <<given, data, table>>, phase # "reopened",
         \/ phase' = "failed"
         \/ phase' = "expanded" /\ ~WellIn(given, data)
         \/ phase = "filled" /\ phase' = "saved" /\ record' = Words(table)
  PROVE  TableInv'
<1>1. phase' \in Phases /\ phase' # "given" /\ phase' # "reopened"
  BY DEF Phases
<1>2. PartsKept'
  BY <1>1 DEF TableInv, PartsKept
<1>3. SameRowsReopen'
  BY <1>1 DEF SameRowsReopen
<1>4. phase' = "saved" => record' = Words(table)'
  OBVIOUS
<1>5. (FitsIn(given, data) =>
        /\ Sound(table)
        /\ phase \notin {"given", "failed"} /\ WellIn(given, data) => Tiles(table)
        /\ phase = "expanded" /\ WellIn(given, data) => Shows(table, given, data))'
  BY DEF TableInv
<1> QED
  BY <1>1, <1>2, <1>3, <1>4, <1>5 DEF TableInv

LEMMA UnchangedInv == TableInv /\ Unchanged => TableInv'
<1> SUFFICES ASSUME TableInv, Unchanged PROVE TableInv'
  OBVIOUS
<1>1. table = AsGiven(given) /\ ~ExpandsIn(table, data)
  BY Named DEF TableInv, Unchanged
<1>2. ~WellIn(given, data)
  BY <1>1, AsGivenSame DEF WellIn
<1> QED
  BY <1>2, TableAlone DEF Unchanged

LEMMA BadExpressionInv == TableInv /\ BadExpression => TableInv'
BY TableAlone DEF BadExpression

LEMMA FillCellsFailsInv == TableInv /\ FillCellsFails => TableInv'
BY TableAlone DEF FillCellsFails

LEMMA SaveInv == TableInv /\ Save => TableInv'
BY TableAlone DEF Save

LEMMA StutterInv == TableInv /\ UNCHANGED vars => TableInv'
BY DEF TableInv, vars, PartsKept, SameRowsReopen

\* A step that expands the table: its parts stay.
LEMMA TableExpanded ==
  ASSUME TableInv, phase = "given", phase' = "expanded", UNCHANGED <<given, data>>,
         DOMAIN table' = DOMAIN table, table'.cols = table.cols,
         table'.sizes = table.sizes, table'.border = table.border,
         table'.zones = table.zones, table'.extra = table.extra,
         FitsIn(given, data) =>
           /\ Sound(table')
           /\ WellIn(given, data) => Tiles(table') /\ Shows(table', given, data)
  PROVE  TableInv'
<1>1. PartsKept'
  BY DEF TableInv, PartsKept
<1>2. SameRowsReopen'
  BY DEF SameRowsReopen
<1>3. (FitsIn(given, data) =>
        /\ Sound(table)
        /\ phase \notin {"given", "failed"} /\ WellIn(given, data) => Tiles(table)
        /\ phase = "expanded" /\ WellIn(given, data) => Shows(table, given, data))'
  OBVIOUS
<1>4. (DOMAIN table = DOMAIN AsGiven(given))'
  BY DEF TableInv
<1>5. (given \in Tables /\ data \in DataSets /\ phase \in Phases)'
  BY DEF TableInv, Phases
<1> QED
  BY <1>1, <1>2, <1>3, <1>4, <1>5 DEF TableInv

LEMMA RemoveInv == TableInv /\ RemoveTemplateRow => TableInv'
<1> SUFFICES ASSUME TableInv, RemoveTemplateRow PROVE TableInv'
  OBVIOUS
<1>1. given \in Tables /\ phase = "given" /\ table = AsGiven(given)
  BY DEF TableInv, RemoveTemplateRow
<1> DEFINE row == TemplateRow(table)
           cells == Kept(table.cells, row)
<1>2. table' = [table EXCEPT !.cells = cells, !.grid = Grid(table.rows, table.cols, cells)]
  BY DEF RemoveTemplateRow
<1>3. ~WellIn(given, data)
  BY <1>1, AsGivenSame DEF WellIn, RemoveTemplateRow, Items
<1>4. cells = Kept(given.cells, row)
  BY <1>1 DEF AsGiven
<1>5. table.rows = given.rows /\ table.cols = given.cols
  BY <1>1 DEF AsGiven
<1>6. DOMAIN table = {"rows", "cols", "sizes", "border", "zones", "extra", "cells", "grid"}
  BY <1>1 DEF AsGiven
<1> HIDE DEF cells, row
<1>7. /\ DOMAIN table' = DOMAIN table
      /\ table'.cols = table.cols /\ table'.rows = table.rows
      /\ table'.sizes = table.sizes /\ table'.border = table.border
      /\ table'.zones = table.zones /\ table'.extra = table.extra
      /\ table'.cells = cells /\ table'.grid = Grid(table.rows, table.cols, cells)
  BY <1>2, <1>6
<1>8. Sound(table')
  BY <1>1, <1>4, <1>5, <1>7, KeptGood
<1> QED
  BY <1>1, <1>3, <1>7, <1>8, TableExpanded DEF RemoveTemplateRow

LEMMA ExpandInv == TableInv /\ ExpandRows => TableInv'
<1> SUFFICES ASSUME TableInv, ExpandRows PROVE TableInv'
  OBVIOUS
<1>1. given \in Tables /\ data \in DataSets /\ phase = "given" /\ table = AsGiven(given)
  BY DEF TableInv, ExpandRows
<1>2. /\ ExpandsIn(given, data)
      /\ ArrayName(table) = ArrayName(given) /\ TemplateRow(table) = TemplateRow(given)
  BY <1>1, Named, AsGivenSame DEF ExpandRows
<1> DEFINE items == data[ArrayName(given)].items
           row == TemplateRow(given)
           cells == ExpandedCells(given.cells, row, items)
           rows == AtLeastOne((given.rows + Len(items) - 1) % Word)
<1>3. items # << >>
  BY <1>2 DEF ExpandRows, Items
<1>4. table.cells = given.cells /\ table.rows = given.rows /\ table.cols = given.cols
  BY <1>1 DEF AsGiven
<1>5. table' = [table EXCEPT !.cells = cells, !.rows = rows,
                             !.grid = Grid(rows, table.cols, cells)]
  BY <1>2, <1>4 DEF ExpandRows, Items
<1>6. DOMAIN table = {"rows", "cols", "sizes", "border", "zones", "extra", "cells", "grid"}
  BY <1>1 DEF AsGiven
<1>7. cells = ExpandedCells(given.cells, row, items)
      /\ rows = AtLeastOne((given.rows + Len(items) - 1) % Word)
  OBVIOUS
<1> HIDE DEF cells, rows
<1>8. /\ DOMAIN table' = DOMAIN table
      /\ table'.cols = table.cols /\ table'.rows = rows
      /\ table'.sizes = table.sizes /\ table'.border = table.border
      /\ table'.zones = table.zones /\ table'.extra = table.extra
      /\ table'.cells = cells /\ table'.grid = Grid(rows, table.cols, cells)
  BY <1>5, <1>6
<1>9. IsExpanded(table', given, row, items)
  BY <1>4, <1>7, <1>8 DEF IsExpanded
<1> HIDE DEF items, row
<1>10. FitsIn(given, data) =>
         /\ Sound(table')
         /\ WellIn(given, data) => Tiles(table') /\ Shows(table', given, data)
  <2>1. PICK t : t = table'
    OBVIOUS
  <2>2. IsExpanded(t, given, TemplateRow(given), data[ArrayName(given)].items)
    BY <1>9, <2>1 DEF items, row
  <2>3. data[ArrayName(given)].items # << >>
    BY <1>3 DEF items
  <2>4. FitsIn(given, data) => Sound(t) /\ (WellIn(given, data) => Tiles(t) /\ Shows(t, given, data))
    BY <1>1, <1>2, <2>2, <2>3, ExpandedGood
  <2> QED
    BY <2>1, <2>4
<1> QED
  BY <1>1, <1>8, <1>10, TableExpanded DEF ExpandRows

LEMMA FillCellsInv == TableInv /\ FillCells => TableInv'
<1> SUFFICES ASSUME TableInv, FillCells PROVE TableInv'
  OBVIOUS
<1> DEFINE cells == [n \in DOMAIN table.cells |->
                       [table.cells[n] EXCEPT !.token = FilledCell(table.cells[n].token)]]
<1>1. table' = [table EXCEPT !.cells = cells]
  BY DEF FillCells
<1>2. DOMAIN table = {"rows", "cols", "sizes", "border", "zones", "extra", "cells", "grid"}
  BY DEF TableInv, AsGiven
<1>3. /\ DOMAIN cells = DOMAIN table.cells
      /\ \A n \in DOMAIN table.cells :
           cells[n] = [table.cells[n] EXCEPT !.token = FilledCell(table.cells[n].token)]
  OBVIOUS
<1> HIDE DEF cells
<1>4. /\ DOMAIN table' = DOMAIN table
      /\ table'.cols = table.cols /\ table'.rows = table.rows
      /\ table'.sizes = table.sizes /\ table'.border = table.border
      /\ table'.zones = table.zones /\ table'.extra = table.extra
      /\ table'.cells = cells /\ table'.grid = table.grid
  BY <1>1, <1>2
<1>5. ASSUME Sound(table)
      PROVE  SamePlaces(table', table)
  <2>1. ASSUME NEW n \in DOMAIN table.cells
        PROVE  /\ DOMAIN cells[n] = DOMAIN table.cells[n]
               /\ cells[n].row = table.cells[n].row
               /\ cells[n].rowSpan = table.cells[n].rowSpan
               /\ cells[n].col = table.cells[n].col
               /\ cells[n].colSpan = table.cells[n].colSpan
    <3>1. DOMAIN table.cells[n] = {"row", "col", "rowSpan", "colSpan", "token"}
      BY <1>5 DEF Sound, CellFields
    <3> QED
      BY <1>3, <3>1
  <2> QED
    BY <1>3, <1>4, <2>1 DEF SamePlaces
<1>6. /\ FitsIn(given, data) => Sound(table)
      /\ FitsIn(given, data) /\ WellIn(given, data) => Tiles(table)
      /\ phase = "expanded" /\ phase' = "filled" /\ UNCHANGED <<given, data>>
  BY DEF TableInv, FillCells
<1>7. (FitsIn(given, data) =>
        /\ Sound(table)
        /\ phase \notin {"given", "failed"} /\ WellIn(given, data) => Tiles(table)
        /\ phase = "expanded" /\ WellIn(given, data) => Shows(table, given, data))'
  BY <1>5, <1>6, PlacesGood
<1>8. PartsKept'
  BY <1>4, <1>6 DEF TableInv, PartsKept
<1>9. SameRowsReopen'
  BY <1>6 DEF SameRowsReopen
<1>10. (given \in Tables /\ data \in DataSets /\ phase \in Phases)'
  BY <1>6 DEF TableInv, Phases
<1>11. (DOMAIN table = DOMAIN AsGiven(given))'
  BY <1>4, <1>6 DEF TableInv
<1> QED
  BY <1>6, <1>7, <1>8, <1>9, <1>10, <1>11 DEF TableInv

LEMMA ReopenInv == TableInv /\ Reopen => TableInv'
<1> SUFFICES ASSUME TableInv, Reopen PROVE TableInv'
  OBVIOUS
<1> DEFINE size == SizesEnd(record[1])
           zones == Least(WordAt(size + 2), (IF Len(record) < size + 2 THEN 0
                                              ELSE Len(record) - size - 2) \div 5)
           start(n) == size + 3 + 5 * (n - 1)
           sizes == SubSeq(record, 3, size)
           border == WordAt(size + 1)
           zoned == [n \in 1 .. zones |-> SubSeq(record, start(n), start(n) + 4)]
           extra == SubSeq(record, start(zones + 1), Len(record))
<1>1. /\ phase = "saved" /\ phase' = "reopened" /\ UNCHANGED <<given, data>>
      /\ table' = [table EXCEPT !.sizes = sizes, !.border = border,
                                !.zones = zoned, !.extra = extra]
  BY DEF Reopen
<1>2. DOMAIN table = {"rows", "cols", "sizes", "border", "zones", "extra", "cells", "grid"}
  BY DEF TableInv, AsGiven
<1>3. ASSUME table.rows = given.rows
      PROVE  /\ sizes = given.sizes /\ border = given.border
             /\ zoned = given.zones /\ extra = given.extra
  <2>1. record = Words(given)
    BY <1>1, <1>3 DEF TableInv, PartsKept, Words
  <2>2. IsTable(given)
    BY TableAssumption DEF TableInv
  <2> QED
    BY SMTT(60), <2>1, <2>2, ReopenedParts
<1> HIDE DEF sizes, border, zoned, extra
<1>4. /\ DOMAIN table' = DOMAIN table
      /\ table'.cols = table.cols /\ table'.rows = table.rows
      /\ table'.sizes = sizes /\ table'.border = border
      /\ table'.zones = zoned /\ table'.extra = extra
      /\ table'.cells = table.cells /\ table'.grid = table.grid
  BY <1>1, <1>2
<1>5. SamePlaces(table', table)
  BY <1>4 DEF SamePlaces
<1>6. (FitsIn(given, data) =>
        /\ Sound(table)
        /\ phase \notin {"given", "failed"} /\ WellIn(given, data) => Tiles(table)
        /\ phase = "expanded" /\ WellIn(given, data) => Shows(table, given, data))'
  BY <1>1, <1>5, PlacesGood DEF TableInv
<1>7. PartsKept'
  BY <1>1, <1>4 DEF TableInv, PartsKept
<1>8. SameRowsReopen'
  BY <1>1, <1>3, <1>4 DEF SameRowsReopen
<1>9. (given \in Tables /\ data \in DataSets /\ phase \in Phases)'
  BY <1>1 DEF TableInv, Phases
<1>10. (DOMAIN table = DOMAIN AsGiven(given))'
  BY <1>1, <1>4 DEF TableInv
<1> QED
  BY <1>1, <1>6, <1>7, <1>8, <1>9, <1>10 DEF TableInv

\* Whatever the table and the data, as long as its rows can be counted: the
\* expanded table is a table, every slot of it is covered by one cell and shows
\* its item, and a record whose rows did not change is read back as it was
\* written (expand_table, substitute_table_row, rebuild_grid,
\* serialize_table_record, parse_table_record).
THEOREM RowsStay == Spec => []RowsInPlace
<1>1. Init => TableInv
  BY TableInitInv
<1>2. TableInv /\ [Next]_vars => TableInv'
  <2>1. ASSUME TableInv, Next
        PROVE  TableInv'
    <3>1. CASE Unchanged
      BY <2>1, <3>1, UnchangedInv
    <3>2. CASE BadExpression
      BY <2>1, <3>2, BadExpressionInv
    <3>3. CASE RemoveTemplateRow
      BY <2>1, <3>3, RemoveInv
    <3>4. CASE ExpandRows
      BY <2>1, <3>4, ExpandInv
    <3>5. CASE FillCells
      BY <2>1, <3>5, FillCellsInv
    <3>6. CASE FillCellsFails
      BY <2>1, <3>6, FillCellsFailsInv
    <3>7. CASE Save
      BY <2>1, <3>7, SaveInv
    <3>8. CASE Reopen
      BY <2>1, <3>8, ReopenInv
    <3>9. CASE Done
      BY <2>1, <3>9, StutterInv DEF Done
    <3> QED
      BY <2>1, <3>1, <3>2, <3>3, <3>4, <3>5, <3>6, <3>7, <3>8, <3>9 DEF Next
  <2> QED
    BY <2>1, StutterInv
<1>3. TableInv => RowsInPlace
  BY TableInvImplies
<1> QED
  BY <1>1, <1>2, <1>3, PTL DEF Spec
=============================================================================
