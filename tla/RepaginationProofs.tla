------------------------- MODULE RepaginationProofs -------------------------
(***************************************************************************)
(* Repagination, proved for every document, any heights and structures of   *)
(* tables and any sequence of edits, batches and jobs: the state is well    *)
(* typed, sections without a mark show fresh pages, pages change only as a   *)
(* whole, and page numbers run on.  The invariant says what the cache of     *)
(* measurements holds where no bit is set.                                  *)
(***************************************************************************)
EXTENDS Repagination, SequenceTheorems, WellFoundedInduction, TLAPS

\* Where a paragraph has no mark, the cache has its height.
Fits(x) ==
  /\ Len(x.measured) = Len(x.paras)
  /\ Len(x.bits) = Len(x.paras)
  /\ \A i \in 1..Len(x.paras) : ~x.bits[i] => x.measured[i] = x.paras[i].height

\* Of a section that lost no mark the cache is there and fits, and its pages are
\* fresh where it has none.
Sound(x) ==
  ~x.lost =>
    /\ x.measured # <<>>
    /\ x.bits # None => Fits(x)
    /\ ~x.dirty => x.pages = HeightsOf(x.paras)

Good(x) == x \in SectionState /\ x.paras # <<>> /\ Sound(x)

\* No target is newer than the revision.
Revisions ==
  /\ descriptor # None => descriptor.revision <= revision
  /\ job # None => job.target.revision <= revision

AllGood == \A s \in DOMAIN sections : Good(sections[s])

Inv ==
  /\ TypeOK
  /\ AllGood
  /\ JobIsFresh
  /\ TargetStaysMarked
  /\ Revisions
-----------------------------------------------------------------------------
(* Sequences *)

\* A function on the first n numbers is a sequence.
LEMMA Sequence ==
  ASSUME NEW S, NEW n \in Nat, NEW f \in [1..n -> S]
  PROVE  f \in Seq(S) /\ Len(f) = n /\ DOMAIN f = 1..n
<1>1. f \in Seq(S)
  BY SeqDef
<1> QED
  BY <1>1, LenProperties

\* What InsertAt puts where.
LEMMA Insertion ==
  ASSUME NEW S, NEW q \in Seq(S), NEW i \in 1..Len(q) + 1, NEW e \in S
  PROVE  /\ InsertAt(q, i, e) \in Seq(S)
         /\ Len(InsertAt(q, i, e)) = Len(q) + 1
         /\ \A j \in 1..Len(q) + 1 :
              InsertAt(q, i, e)[j] = IF j < i THEN q[j] ELSE IF j = i THEN e ELSE q[j - 1]
<1> DEFINE left == SubSeq(q, 1, i - 1)
           right == SubSeq(q, i, Len(q))
           begun == left \o <<e>>
<1>1. Len(q) \in Nat /\ \A j \in 1..Len(q) : q[j] \in S
  BY ElementOfSeq, LenProperties
<1>2. left \in Seq(S) /\ Len(left) = i - 1 /\ \A j \in 1..i - 1 : left[j] = q[j]
  <2>1. 1 \in Int /\ i - 1 \in Int /\ \A j \in 1..i - 1 : q[j] \in S
    BY <1>1
  <2> QED
    BY <2>1, SubSeqProperties
<1>3. right \in Seq(S) /\ Len(right) = Len(q) - i + 1 /\ \A j \in 1..Len(q) - i + 1 : right[j] = q[i + j - 1]
  <2>1. i \in Int /\ Len(q) \in Int /\ \A j \in i..Len(q) : q[j] \in S
    BY <1>1
  <2> QED
    BY <2>1, <1>1, SubSeqProperties
<1>4. <<e>> \in Seq(S) /\ Len(<<e>>) = 1 /\ <<e>>[1] = e
  OBVIOUS
<1>5. InsertAt(q, i, e) = begun \o right
  BY DEF InsertAt
<1> HIDE DEF left, right
<1>6. /\ begun \in Seq(S) /\ Len(begun) = i
      /\ \A j \in 1..i : begun[j] = IF j < i THEN q[j] ELSE e
  <2>1. begun \in Seq(S) /\ Len(begun) = Len(left) + 1
    BY <1>2, <1>4, ConcatProperties
  <2>2. \A j \in 1..Len(left) + 1 : begun[j] = IF j <= Len(left) THEN left[j] ELSE <<e>>[j - Len(left)]
    BY <1>2, <1>4, ConcatProperties
  <2> HIDE DEF begun
  <2> QED
    BY <1>2, <1>4, <2>1, <2>2
<1> HIDE DEF begun
<1>7. /\ begun \o right \in Seq(S) /\ Len(begun \o right) = Len(begun) + Len(right)
      /\ \A j \in 1..Len(begun) + Len(right) :
           (begun \o right)[j] = IF j <= Len(begun) THEN begun[j] ELSE right[j - Len(begun)]
  BY <1>3, <1>6, ConcatProperties
<1> DEFINE all == begun \o right
<1> HIDE DEF all
<1>8. ASSUME NEW j \in 1..Len(q) + 1
      PROVE  all[j] = IF j < i THEN q[j] ELSE IF j = i THEN e ELSE q[j - 1]
  <2>1. all[j] = IF j <= i THEN begun[j] ELSE right[j - i]
    BY <1>1, <1>3, <1>6, <1>7 DEF all
  <2>2. CASE j <= i
    <3>1. all[j] = IF j < i THEN q[j] ELSE e
      BY <2>1, <2>2, <1>6
    <3> QED
      BY <2>2, <3>1, <1>1
  <2>3. CASE j > i
    <3>1. right[j - i] = q[i + (j - i) - 1]
      BY <1>1, <1>3, <2>3
    <3> QED
      BY <1>1, <2>1, <2>3, <3>1
  <2> QED
    BY <1>1, <2>2, <2>3
<1>9. Len(all) = Len(q) + 1
  BY <1>1, <1>3, <1>6, <1>7 DEF all
<1> QED
  BY <1>5, <1>7, <1>8, <1>9 DEF all

\* What RemoveAt leaves where.
LEMMA Removal ==
  ASSUME NEW S, NEW q \in Seq(S), NEW i \in 1..Len(q)
  PROVE  /\ RemoveAt(q, i) \in Seq(S)
         /\ Len(RemoveAt(q, i)) = Len(q) - 1
         /\ \A j \in 1..Len(q) - 1 : RemoveAt(q, i)[j] = IF j < i THEN q[j] ELSE q[j + 1]
<1> DEFINE left == SubSeq(q, 1, i - 1)
           right == SubSeq(q, i + 1, Len(q))
           all == left \o right
<1>1. Len(q) \in Nat /\ \A j \in 1..Len(q) : q[j] \in S
  BY ElementOfSeq, LenProperties
<1>2. left \in Seq(S) /\ Len(left) = i - 1 /\ \A j \in 1..i - 1 : left[j] = q[j]
  <2>1. 1 \in Int /\ i - 1 \in Int /\ \A j \in 1..i - 1 : q[j] \in S
    BY <1>1
  <2> QED
    BY <2>1, SubSeqProperties
<1>3. right \in Seq(S) /\ Len(right) = Len(q) - i /\ \A j \in 1..Len(q) - i : right[j] = q[i + j]
  <2>1. i + 1 \in Int /\ Len(q) \in Int /\ \A j \in i + 1..Len(q) : q[j] \in S
    BY <1>1
  <2>2. /\ right \in Seq(S) /\ Len(right) = IF i + 1 <= Len(q) THEN Len(q) - (i + 1) + 1 ELSE 0
        /\ \A j \in 1..Len(q) - (i + 1) + 1 : right[j] = q[(i + 1) + j - 1]
    BY <2>1, SubSeqProperties
  <2> QED
    BY <2>2, <1>1
<1>4. RemoveAt(q, i) = all
  BY DEF RemoveAt
<1> HIDE DEF left, right
<1>5. /\ all \in Seq(S) /\ Len(all) = Len(left) + Len(right)
      /\ \A j \in 1..Len(left) + Len(right) :
           all[j] = IF j <= Len(left) THEN left[j] ELSE right[j - Len(left)]
  BY <1>2, <1>3, ConcatProperties
<1> HIDE DEF all
<1>6. ASSUME NEW j \in 1..Len(q) - 1
      PROVE  all[j] = IF j < i THEN q[j] ELSE q[j + 1]
  <2>1. all[j] = IF j <= i - 1 THEN left[j] ELSE right[j - (i - 1)]
    BY <1>1, <1>2, <1>3, <1>5
  <2>2. CASE j < i
    BY <2>1, <2>2, <1>2
  <2>3. CASE j >= i
    <3>1. right[j - (i - 1)] = q[i + (j - (i - 1))]
      BY <1>1, <1>3, <2>3
    <3> QED
      BY <1>1, <2>1, <2>3, <3>1
  <2> QED
    BY <1>1, <2>2, <2>3
<1> QED
  BY <1>1, <1>2, <1>3, <1>4, <1>5, <1>6

\* Resizing keeps the bits there are.
LEMMA Resizing ==
  ASSUME NEW b \in Seq(BOOLEAN), NEW n \in Nat
  PROVE  /\ Resize(b, n) \in Seq(BOOLEAN) /\ Len(Resize(b, n)) = n
         /\ \A i \in 1..n : i <= Len(b) => Resize(b, n)[i] = b[i]
<1> DEFINE e(i) == IF i <= Len(b) THEN b[i] ELSE FALSE
           f == [i \in 1..n |-> e(i)]
<1>1. ASSUME NEW i \in 1..n PROVE e(i) \in BOOLEAN
  <2>1. i <= Len(b) => b[i] \in BOOLEAN
    BY LenProperties, ElementOfSeq
  <2> QED
    BY <2>1
<1>2. Resize(b, n) = f
  BY DEF Resize
<1> HIDE DEF e
<1>3. f \in [1..n -> BOOLEAN]
  BY <1>1
<1>4. \A i \in 1..n : f[i] = e(i)
  OBVIOUS
<1>6. \A i \in 1..n : i <= Len(b) => e(i) = b[i]
  BY DEF e
<1> HIDE DEF f
<1>5. f \in Seq(BOOLEAN) /\ Len(f) = n
  BY <1>3, Sequence
<1> QED
  BY <1>2, <1>4, <1>5, <1>6
-----------------------------------------------------------------------------
(* Bits *)

\* Marking one more keeps the others; where all is marked, all stays marked.
LEMMA Marking ==
  ASSUME NEW b \in Seq(BOOLEAN) \cup {None}, NEW n \in Nat, NEW i \in 1..n
  PROVE  /\ MarkBit(b, n, i) \in Seq(BOOLEAN) \cup {None}
         /\ MarkBit(b, n, i) = None <=> b = None
         /\ b # None =>
              /\ Len(MarkBit(b, n, i)) = n
              /\ \A j \in 1..n : ~MarkBit(b, n, i)[j] => j # i /\ (j <= Len(b) => ~b[j])
<1>1. CASE b = None
  BY <1>1 DEF MarkBit
<1>2. CASE b # None
  <2> DEFINE r == Resize(b, n)
             m == [r EXCEPT ![i] = TRUE]
  <2>1. /\ r \in Seq(BOOLEAN) /\ Len(r) = n
        /\ \A j \in 1..n : j <= Len(b) => r[j] = b[j]
    BY <1>2, Resizing
  <2>2. MarkBit(b, n, i) = m
    BY <1>2 DEF MarkBit
  <2> HIDE DEF r
  <2>3. m \in Seq(BOOLEAN) /\ Len(m) = n /\ m[i] /\ \A j \in 1..n : j # i => m[j] = r[j]
    BY <2>1, ExceptSeq, LenProperties
  <2> HIDE DEF m
  <2>4. ASSUME NEW j \in 1..n, ~m[j] PROVE j # i /\ (j <= Len(b) => ~b[j])
    <3>1. j # i
      BY <2>3, <2>4
    <3>2. ~r[j]
      BY <2>3, <2>4, <3>1
    <3>3. j <= Len(b) => r[j] = b[j]
      BY <2>1
    <3> QED
      BY <3>1, <3>2, <3>3
  <2> QED
    BY <1>2, <2>2, <2>3, <2>4, RepaginationAssumption
<1> QED
  BY <1>1, <1>2

\* A paragraph put in is marked, with the one before it.
LEMMA InsertedBit ==
  ASSUME NEW b \in Seq(BOOLEAN), NEW n \in Nat, NEW i \in 1..n
  PROVE  /\ InsertBit(b, n, i) \in Seq(BOOLEAN)
         /\ Len(InsertBit(b, n, i)) = n
         /\ Len(b) >= n - 1 =>
              \A j \in 1..n : ~InsertBit(b, n, i)[j] =>
                j # i /\ j # i - 1 /\ ~b[IF j < i THEN j ELSE j - 1]
<1> DEFINE t == TRUE
           c == IF i <= Len(b) + 1 THEN InsertAt(b, i, t) ELSE b
           g == Resize(c, n)
           m == IF i > 1 THEN [g EXCEPT ![i - 1] = TRUE] ELSE g
<1>0. Len(b) \in Nat
  BY LenProperties
<1>1. /\ c \in Seq(BOOLEAN)
      /\ i <= Len(b) + 1 =>
           /\ Len(c) = Len(b) + 1
           /\ \A j \in 1..Len(b) + 1 : c[j] = IF j < i THEN b[j] ELSE IF j = i THEN t ELSE b[j - 1]
  <2>1. CASE i <= Len(b) + 1
    <3>1. i \in 1..Len(b) + 1 /\ t \in BOOLEAN
      BY <1>0, <2>1
    <3>2. c = InsertAt(b, i, t)
      BY <2>1
    <3> HIDE DEF c, t, g, m
    <3>3. /\ InsertAt(b, i, t) \in Seq(BOOLEAN)
          /\ Len(InsertAt(b, i, t)) = Len(b) + 1
          /\ \A j \in 1..Len(b) + 1 :
               InsertAt(b, i, t)[j] = IF j < i THEN b[j] ELSE IF j = i THEN t ELSE b[j - 1]
      BY <3>1, Insertion, SMTT(30)
    <3> QED
      BY <3>2, <3>3
  <2>2. CASE ~(i <= Len(b) + 1)
    BY <2>2
  <2> QED
    BY <2>1, <2>2
<1>2. InsertBit(b, n, i) = m
  BY DEF InsertBit
<1> HIDE DEF c, t
<1>3. /\ g \in Seq(BOOLEAN) /\ Len(g) = n
      /\ \A j \in 1..n : j <= Len(c) => g[j] = c[j]
  BY <1>1, Resizing
<1> HIDE DEF g
<1>4. /\ m \in Seq(BOOLEAN) /\ Len(m) = n
      /\ i > 1 => m[i - 1]
      /\ \A j \in 1..n : j # i - 1 => m[j] = g[j]
  <2>1. CASE i > 1
    <3>1. i - 1 \in 1..Len(g) /\ m = [g EXCEPT ![i - 1] = TRUE]
      BY <1>3, <2>1
    <3> HIDE DEF m
    <3> QED
      BY <1>3, <3>1, ExceptSeq, LenProperties
  <2>2. CASE i <= 1
    BY <1>3, <2>2
  <2> QED
    BY <2>1, <2>2
<1> HIDE DEF m
<1>5. ASSUME Len(b) >= n - 1, NEW j \in 1..n, ~m[j]
      PROVE  j # i /\ j # i - 1 /\ ~b[IF j < i THEN j ELSE j - 1]
  <2>1. j # i - 1 /\ ~g[j]
    BY <1>4, <1>5
  <2>2. i <= Len(b) + 1 /\ j <= Len(b) + 1
    BY <1>0, <1>5
  <2>3. g[j] = c[j]
    BY <1>1, <1>3, <2>2
  <2>4. c[j] = IF j < i THEN b[j] ELSE IF j = i THEN t ELSE b[j - 1]
    BY <1>1, <2>2
  <2>5. j # i
    BY <2>1, <2>3, <2>4 DEF t
  <2> QED
    BY <2>1, <2>3, <2>4, <2>5
<1> QED
  BY <1>2, <1>4, <1>5

\* Where a paragraph was taken out, its neighbours are marked.
LEMMA RemovedBit ==
  ASSUME NEW b \in Seq(BOOLEAN), NEW n \in Nat, NEW i \in 1..n + 1
  PROVE  /\ RemoveBit(b, n, i) \in Seq(BOOLEAN)
         /\ Len(RemoveBit(b, n, i)) = n
         /\ Len(b) = n + 1 =>
              \A j \in 1..n : ~RemoveBit(b, n, i)[j] =>
                j # i /\ j # i - 1 /\ ~b[IF j < i THEN j ELSE j + 1]
<1> DEFINE c == IF i <= Len(b) THEN RemoveAt(b, i) ELSE b
           g == Resize(c, n)
           m == [j \in 1..n |-> g[j] \/ j \in {i - 1, i}]
<1>0. Len(b) \in Nat
  BY LenProperties
<1>1. /\ c \in Seq(BOOLEAN)
      /\ i <= Len(b) =>
           /\ Len(c) = Len(b) - 1
           /\ \A j \in 1..Len(b) - 1 : c[j] = IF j < i THEN b[j] ELSE b[j + 1]
  <2>1. CASE i <= Len(b)
    <3>1. i \in 1..Len(b) /\ c = RemoveAt(b, i)
      BY <1>0, <2>1
    <3> HIDE DEF c
    <3> QED
      BY <3>1, Removal
  <2>2. CASE ~(i <= Len(b))
    BY <2>2
  <2> QED
    BY <2>1, <2>2
<1>2. RemoveBit(b, n, i) = m
  BY DEF RemoveBit
<1> HIDE DEF c
<1>3. /\ g \in Seq(BOOLEAN) /\ Len(g) = n
      /\ \A j \in 1..n : j <= Len(c) => g[j] = c[j]
  BY <1>1, Resizing
<1> HIDE DEF g
<1>4. m \in [1..n -> BOOLEAN] /\ \A j \in 1..n : m[j] <=> (g[j] \/ j \in {i - 1, i})
  <2>1. \A j \in 1..n : (g[j] \/ j \in {i - 1, i}) \in BOOLEAN
    OBVIOUS
  <2> QED
    BY <2>1
<1> HIDE DEF m
<1>5. m \in Seq(BOOLEAN) /\ Len(m) = n
  BY <1>4, Sequence
<1>6. ASSUME Len(b) = n + 1, NEW j \in 1..n, ~m[j]
      PROVE  j # i /\ j # i - 1 /\ ~b[IF j < i THEN j ELSE j + 1]
  <2>1. j # i /\ j # i - 1 /\ ~g[j]
    BY <1>4, <1>6
  <2>2. i <= Len(b) /\ Len(b) - 1 = n
    BY <1>0, <1>6
  <2>3. g[j] = c[j]
    BY <1>1, <1>3, <2>2
  <2>4. c[j] = IF j < i THEN b[j] ELSE b[j + 1]
    BY <1>1, <2>2
  <2> QED
    BY <2>1, <2>3, <2>4
<1> QED
  BY <1>2, <1>4, <1>5, <1>6
-----------------------------------------------------------------------------
(* Measuring and laying out *)

LEMMA HeightsTyped ==
  ASSUME NEW p \in Seq(Paragraph)
  PROVE  /\ HeightsOf(p) \in Seq(Heights \cup {0})
         /\ Len(HeightsOf(p)) = Len(p)
         /\ \A i \in 1..Len(p) : HeightsOf(p)[i] = p[i].height /\ p[i].height \in Heights
<1>1. Len(p) \in Nat /\ DOMAIN p = 1..Len(p) /\ \A i \in 1..Len(p) : p[i] \in Paragraph
  BY LenProperties, ElementOfSeq
<1>2. \A i \in 1..Len(p) : p[i].height \in Heights
  BY <1>1 DEF Paragraph
<1>3. HeightsOf(p) \in [1..Len(p) -> Heights \cup {0}]
  BY <1>1, <1>2 DEF HeightsOf
<1> QED
  BY <1>1, <1>2, <1>3, Sequence DEF HeightsOf

\* What a section measures: the heights of its paragraphs, if it measures all or
\* lost no mark.
LEMMA Measuring ==
  ASSUME NEW x \in SectionState, x.paras # <<>>
  PROVE  /\ Measure(x) \in Seq(Heights \cup {0})
         /\ Len(Measure(x)) = Len(x.paras)
         /\ MeasuresAll(x) => Measure(x) = HeightsOf(x.paras)
         /\ ~x.lost /\ Sound(x) => Measure(x) = HeightsOf(x.paras)
<1> DEFINE p == x.paras
           n == Len(p)
           v(i) == IF Cached(x, i) THEN x.measured[i] ELSE p[i].height
<1>1. /\ p \in Seq(Paragraph) /\ x.measured \in Seq(Heights \cup {0})
      /\ x.bits \in Seq(BOOLEAN) \cup {None}
  BY DEF SectionState
<1>2. n \in Nat /\ DOMAIN p = 1..n /\ DOMAIN x.measured = 1..Len(x.measured)
  BY <1>1, LenProperties
<1>3. /\ HeightsOf(p) \in Seq(Heights \cup {0}) /\ Len(HeightsOf(p)) = n
      /\ \A i \in 1..n : HeightsOf(p)[i] = p[i].height /\ p[i].height \in Heights
  BY <1>1, HeightsTyped
<1>4. CASE MeasuresAll(x)
  <2>1. Measure(x) = HeightsOf(p)
    BY <1>4 DEF Measure
  <2> QED
    BY <2>1, <1>3
<1>5. CASE ~MeasuresAll(x)
  <2>1. Measure(x) = [i \in 1..n |-> v(i)]
    BY <1>2, <1>5 DEF Measure
  <2>2. ASSUME NEW i \in 1..n PROVE v(i) \in Heights \cup {0}
    <3>1. CASE Cached(x, i)
      <4>1. i \in 1..Len(x.measured)
        BY <1>2, <3>1 DEF Cached
      <4>2. x.measured[i] \in Heights \cup {0}
        BY <4>1, <1>1, ElementOfSeq
      <4> QED
        BY <3>1, <4>2
    <3>2. CASE ~Cached(x, i)
      BY <1>3, <3>2
    <3> QED
      BY <3>1, <3>2
  <2>3. Measure(x) \in [1..n -> Heights \cup {0}]
    BY <2>1, <2>2
  <2>4. Measure(x) \in Seq(Heights \cup {0}) /\ Len(Measure(x)) = n
    BY <1>2, <2>3, Sequence
  <2>5. ASSUME ~x.lost, Sound(x) PROVE Measure(x) = HeightsOf(p)
    <3>1. x.bits # None /\ Fits(x)
      BY <1>5, <2>5 DEF Sound, MeasuresAll
    <3>2. ASSUME NEW i \in 1..n PROVE v(i) = p[i].height
      <4>1. CASE Cached(x, i)
        BY <3>1, <4>1 DEF Cached, Fits
      <4>2. CASE ~Cached(x, i)
        BY <4>2
      <4> QED
        BY <4>1, <4>2
    <3>3. Measure(x) = [i \in 1..n |-> p[i].height]
      BY <2>1, <3>2
    <3> QED
      BY <1>2, <3>3 DEF HeightsOf
  <2> QED
    BY <1>5, <2>4, <2>5
<1> QED
  BY <1>4, <1>5

\* Laying out from the heights of the paragraphs makes pages of those heights.
LEMMA Typesetting ==
  ASSUME NEW p \in Seq(Paragraph), NEW m \in Seq(Heights \cup {0}), Len(m) = Len(p)
  PROVE  /\ Typeset(p, m) \in Seq(Heights \cup {0})
         /\ m = HeightsOf(p) => Typeset(p, m) = HeightsOf(p)
<1> DEFINE n == Len(p)
           v(i) == IF p[i].kind = Text THEN p[i].height ELSE m[i]
<1>1. n \in Nat /\ DOMAIN p = 1..n
  BY LenProperties
<1>2. \A i \in 1..n : p[i].height \in Heights /\ HeightsOf(p)[i] = p[i].height
  BY HeightsTyped
<1>3. \A i \in 1..n : m[i] \in Heights \cup {0}
  BY ElementOfSeq
<1>4. Typeset(p, m) = [i \in 1..n |-> v(i)]
  BY <1>1 DEF Typeset
<1>5. \A i \in 1..n : v(i) \in Heights \cup {0}
  BY <1>2, <1>3
<1>6. Typeset(p, m) \in [1..n -> Heights \cup {0}]
  BY <1>4, <1>5
<1>7. ASSUME m = HeightsOf(p) PROVE Typeset(p, m) = HeightsOf(p)
  <2>1. \A i \in 1..n : v(i) = p[i].height
    BY <1>2, <1>7
  <2>2. Typeset(p, m) = [i \in 1..n |-> p[i].height]
    BY <1>4, <2>1
  <2> QED
    BY <1>1, <2>2 DEF HeightsOf
<1> QED
  BY <1>1, <1>6, <1>7, Sequence

\* Nothing is marked where every bit is clear.
LEMMA Cleaning ==
  ASSUME NEW n \in Nat
  PROVE  /\ AllClean(n) \in Seq(BOOLEAN) /\ Len(AllClean(n)) = n
         /\ AllClean(n) # None
<1>1. AllClean(n) \in [1..n -> BOOLEAN]
  BY DEF AllClean
<1> QED
  BY <1>1, Sequence, RepaginationAssumption

\* Pages that are published with what was measured are good, if what was lost
\* says where either is not of the paragraphs as they are.
LEMMA Publishing ==
  ASSUME NEW x \in SectionState, x.paras # <<>>, NEW l \in BOOLEAN,
         NEW m \in Seq(Heights \cup {0}), NEW g \in Seq(Heights \cup {0}),
         ~l => m = HeightsOf(x.paras) /\ g = HeightsOf(x.paras)
  PROVE  Good(Published(x, m, g, l)) /\ ~Published(x, m, g, l).dirty
<1> DEFINE y == Published(x, m, g, l)
           p == x.paras
<1>1. p \in Seq(Paragraph) /\ Len(p) \in Nat
  BY LenProperties DEF SectionState
<1>2. AllClean(Len(p)) \in Seq(BOOLEAN) /\ Len(AllClean(Len(p))) = Len(p) /\ AllClean(Len(p)) # None
  BY <1>1, Cleaning
<1>3. /\ y.paras = p /\ y.measured = m /\ y.dirty = FALSE /\ y.pages = g /\ y.lost = l
      /\ y.bits = AllClean(Len(p))
      /\ y \in SectionState
  BY <1>2 DEF Published, SectionState
<1>4. HeightsOf(p) # <<>> /\ Len(HeightsOf(p)) = Len(p)
     /\ \A i \in 1..Len(p) : HeightsOf(p)[i] = p[i].height
  <2>1. Len(HeightsOf(p)) = Len(p) /\ \A i \in 1..Len(p) : HeightsOf(p)[i] = p[i].height
    BY <1>1, HeightsTyped
  <2>2. Len(p) # 0
    BY <1>1, EmptySeq
  <2> QED
    BY <2>1, <2>2, EmptySeq
<1> HIDE DEF y
<1>5. Sound(y)
  <2> SUFFICES ASSUME ~y.lost
               PROVE  y.measured # <<>> /\ Fits(y) /\ y.pages = HeightsOf(y.paras)
    BY DEF Sound
  <2>1. m = HeightsOf(p) /\ g = HeightsOf(p)
    BY <1>3
  <2> QED
    BY <1>2, <1>3, <1>4, <2>1 DEF Fits
<1> QED
  BY <1>3, <1>5 DEF y, Good

\* Laying out makes a section good and leaves no mark.
LEMMA Laying ==
  ASSUME NEW x \in SectionState, x.paras # <<>>,
         Sound(x) \/ (x.dirty /\ MeasuresAll(x))
  PROVE  Good(Laid(x)) /\ ~Laid(x).dirty
<1>1. CASE ~x.dirty
  BY <1>1 DEF Laid, Good
<1>2. CASE x.dirty
  <2> DEFINE m == Measure(x)
             g == Typeset(x.paras, m)
             l == x.lost /\ ~MeasuresAll(x)
  <2>1. x.paras \in Seq(Paragraph) /\ x.lost \in BOOLEAN
    BY DEF SectionState
  <2>2. /\ m \in Seq(Heights \cup {0}) /\ Len(m) = Len(x.paras)
        /\ ~l => m = HeightsOf(x.paras)
    BY Measuring
  <2>3. l \in BOOLEAN
    BY <2>1 DEF MeasuresAll
  <2>4. g \in Seq(Heights \cup {0}) /\ (~l => g = HeightsOf(x.paras))
    <3> HIDE DEF m, l
    <3> QED
      BY <2>1, <2>2, Typesetting
  <2>5. Laid(x) = Published(x, m, g, l)
    BY <1>2 DEF Laid
  <2> HIDE DEF m, g, l
  <2> QED
    BY <2>2, <2>3, <2>4, <2>5, Publishing
<1> QED
  BY <1>1, <1>2 DEF SectionState
-----------------------------------------------------------------------------
(* What an edit does to its section *)

\* The section is good and marked, and shows what it showed.
Touched(y, x) == Good(y) /\ y.dirty /\ y.pages = x.pages

\* Paragraphs p in place of those of section x.
Having(x, p) == [x EXCEPT !.paras = p]

LEMMA HavingFields ==
  ASSUME NEW x \in SectionState, NEW p \in Seq(Paragraph)
  PROVE  /\ Having(x, p) \in SectionState
         /\ Having(x, p).paras = p /\ Having(x, p).measured = x.measured
         /\ Having(x, p).bits = x.bits /\ Having(x, p).dirty = x.dirty
         /\ Having(x, p).pages = x.pages /\ Having(x, p).lost = x.lost
BY DEF Having, SectionState

\* All is marked.
LEMMA Recomposing ==
  ASSUME NEW x, Good(x), NEW p \in Seq(Paragraph), p # <<>>
  PROVE  Touched(RecomposedSection(Having(x, p)), x)
<1> DEFINE z == Having(x, p)
           y == RecomposedSection(z)
<1>1. x \in SectionState /\ Sound(x)
  BY DEF Good
<1>2. /\ z \in SectionState
      /\ z.paras = p /\ z.measured = x.measured /\ z.pages = x.pages /\ z.lost = x.lost
  BY <1>1, HavingFields
<1> HIDE DEF z
<1>3. /\ y \in SectionState
      /\ y.paras = p /\ y.measured = x.measured /\ y.pages = x.pages /\ y.lost = x.lost
      /\ y.bits = None /\ y.dirty = TRUE
  BY <1>2 DEF RecomposedSection, SectionState
<1> HIDE DEF y
<1>4. Sound(y)
  BY <1>1, <1>3 DEF Sound
<1> QED
  BY <1>3, <1>4 DEF y, z, Touched, Good

\* The paragraph that changed is marked; the others fit as before.
LEMMA MarkingEdit ==
  ASSUME NEW x, Good(x), NEW p \in Seq(Paragraph), Len(p) = Len(x.paras), NEW i \in 1..Len(p),
         \A j \in 1..Len(p) : j # i => p[j].height = x.paras[j].height
  PROVE  Touched(Marked(Having(x, p), i), x)
<1> DEFINE z == Having(x, p)
           y == Marked(z, i)
           n == Len(p)
           b == MarkBit(x.bits, n, i)
<1>1. x \in SectionState /\ Sound(x) /\ x.paras # <<>>
  BY DEF Good
<1>2. x.bits \in Seq(BOOLEAN) \cup {None} /\ n \in Nat
  BY <1>1, LenProperties DEF SectionState
<1>3. /\ z \in SectionState
      /\ z.paras = p /\ z.measured = x.measured /\ z.pages = x.pages /\ z.lost = x.lost
      /\ z.bits = x.bits
  BY <1>1, HavingFields
<1>4. /\ b \in Seq(BOOLEAN) \cup {None}
      /\ b = None <=> x.bits = None
      /\ x.bits # None =>
           Len(b) = n /\ \A j \in 1..n : ~b[j] => j # i /\ (j <= Len(x.bits) => ~x.bits[j])
  BY <1>2, Marking
<1> HIDE DEF z
<1>5. /\ y \in SectionState
      /\ y.paras = p /\ y.measured = x.measured /\ y.pages = x.pages /\ y.lost = x.lost
      /\ y.bits = b /\ y.dirty = TRUE
  BY <1>3, <1>4 DEF Marked, SectionState
<1> HIDE DEF y, b
<1>6. Sound(y)
  <2> SUFFICES ASSUME ~y.lost
               PROVE  y.measured # <<>> /\ (y.bits # None => Fits(y))
    BY <1>5 DEF Sound
  <2>1. x.measured # <<>> /\ (x.bits # None => Fits(x))
    BY <1>1, <1>5 DEF Sound
  <2>2. ASSUME b # None PROVE Fits(y)
    <3>1. Len(x.measured) = n /\ Len(x.bits) = n
      BY <1>4, <2>1, <2>2 DEF Fits
    <3>2. ASSUME NEW j \in 1..n, ~b[j] PROVE x.measured[j] = p[j].height
      <4>1. j # i /\ ~x.bits[j]
        BY <1>4, <2>2, <3>1, <3>2
      <4>2. x.measured[j] = x.paras[j].height
        BY <1>4, <2>1, <2>2, <4>1 DEF Fits
      <4> QED
        BY <4>1, <4>2
    <3> QED
      BY <1>4, <1>5, <2>2, <3>1, <3>2 DEF Fits
  <2> QED
    BY <1>5, <2>1, <2>2
<1>7. p # <<>>
  BY EmptySeq
<1> QED
  BY <1>5, <1>6, <1>7 DEF y, z, Touched, Good

\* A paragraph is put in at i.  The bits w may be those of the section before, or
\* mark more.
LEMMA InsertingEdit ==
  ASSUME NEW x, Good(x), NEW p \in Seq(Paragraph), Len(p) = Len(x.paras) + 1,
         NEW i \in 1..Len(p),
         \A j \in 1..Len(p) : j # i /\ j # i - 1 =>
            p[j].height = x.paras[IF j < i THEN j ELSE j - 1].height,
         NEW z \in SectionState,
         z.paras = p /\ z.measured = x.measured /\ z.pages = x.pages /\ z.lost = x.lost,
         z.bits = None <=> x.bits = None,
         x.bits # None /\ Len(x.bits) = Len(x.paras) =>
           Len(z.bits) >= Len(x.bits) /\ \A j \in 1..Len(x.bits) : ~z.bits[j] => ~x.bits[j]
  PROVE  Touched(Inserted(z, i), x)
<1> DEFINE y == Inserted(z, i)
           n == Len(p)
           c == Bits(z)
           b == InsertBit(c, n, i)
           m == ShiftForInsert(x.measured, i)
           l == x.lost \/ Forgets(z)
<1>1. x \in SectionState /\ Sound(x) /\ x.paras # <<>>
  BY DEF Good
<1>2. /\ n \in Nat /\ Len(x.paras) \in Nat /\ x.measured \in Seq(Heights \cup {0})
      /\ z.bits \in Seq(BOOLEAN) \cup {None}
  BY <1>1, LenProperties DEF SectionState
<1>3. c \in Seq(BOOLEAN) /\ (z.bits # None => c = z.bits)
  BY <1>2, Cleaning DEF Bits
<1>4. Len(c) \in Nat /\ Len(x.measured) \in Nat
  BY <1>2, <1>3, LenProperties
<1> HIDE DEF c
<1>5. /\ b \in Seq(BOOLEAN) /\ Len(b) = n
      /\ Len(c) >= n - 1 =>
           \A j \in 1..n : ~b[j] => j # i /\ j # i - 1 /\ ~c[IF j < i THEN j ELSE j - 1]
  BY <1>2, <1>3, InsertedBit
<1>6. /\ m \in Seq(Heights \cup {0})
      /\ i <= Len(x.measured) + 1 =>
           /\ Len(m) = Len(x.measured) + 1
           /\ \A j \in 1..Len(x.measured) + 1 :
                j # i => m[j] = x.measured[IF j < i THEN j ELSE j - 1]
  <2>1. CASE i <= Len(x.measured) + 1
    <3> DEFINE o == 0
               q == x.measured
    <3>1. /\ i \in 1..Len(q) + 1 /\ o \in Heights \cup {0} /\ m = InsertAt(q, i, o)
          /\ q \in Seq(Heights \cup {0})
      BY <1>2, <1>4, <2>1 DEF ShiftForInsert
    <3> HIDE DEF m, o, q
    <3>2. /\ m \in Seq(Heights \cup {0}) /\ Len(m) = Len(q) + 1
          /\ \A j \in 1..Len(q) + 1 :
               m[j] = IF j < i THEN q[j] ELSE IF j = i THEN o ELSE q[j - 1]
      BY <3>1, Insertion
    <3>3. /\ m \in Seq(Heights \cup {0}) /\ Len(m) = Len(q) + 1
          /\ \A j \in 1..Len(q) + 1 : j # i => m[j] = q[IF j < i THEN j ELSE j - 1]
      BY <3>2
    <3> QED
      BY <3>3 DEF q
  <2>2. CASE ~(i <= Len(x.measured) + 1)
    BY <1>2, <2>2 DEF ShiftForInsert
  <2> QED
    BY <2>1, <2>2
<1>7. l \in BOOLEAN
  BY <1>1 DEF SectionState, Forgets
<1>8. /\ y \in SectionState
      /\ y.paras = p /\ y.measured = m /\ y.pages = x.pages /\ y.lost = l
      /\ y.bits = b /\ y.dirty = TRUE
  BY <1>5, <1>6, <1>7 DEF Inserted, SectionState, c
<1> HIDE DEF y, b, m
<1>9. Sound(y)
  <2> SUFFICES ASSUME ~y.lost PROVE y.measured # <<>> /\ Fits(y)
    BY <1>8 DEF Sound
  <2>1. ~x.lost /\ ~Forgets(z)
    BY <1>8
  <2>2. x.measured # <<>> /\ x.bits # None /\ Fits(x)
    BY <1>1, <2>1 DEF Sound, Forgets
  <2>3. Len(x.measured) = n - 1 /\ Len(x.bits) = n - 1
    BY <1>2, <2>2 DEF Fits
  <2>4. Len(c) >= n - 1 /\ \A j \in 1..n - 1 : ~c[j] => ~x.bits[j]
    BY <1>2, <1>3, <2>2, <2>3
  <2>5. Len(m) = n /\ \A j \in 1..n : j # i => m[j] = x.measured[IF j < i THEN j ELSE j - 1]
    BY <1>2, <1>6, <2>3
  <2>6. ASSUME NEW j \in 1..n, ~b[j] PROVE m[j] = p[j].height
    <3> DEFINE k == IF j < i THEN j ELSE j - 1
    <3>1. j # i /\ j # i - 1 /\ ~c[k]
      BY <1>5, <2>4, <2>6
    <3>2. k \in 1..n - 1
      <4>1. CASE j < i
        BY <1>2, <4>1
      <4>2. CASE ~(j < i)
        <5>1. j > i
          BY <3>1, <4>2
        <5> QED
          BY <1>2, <4>2, <5>1
      <4> QED
        BY <4>1, <4>2
    <3>3. p[j].height = x.paras[k].height /\ m[j] = x.measured[k]
      BY <2>5, <3>1
    <3> HIDE DEF k
    <3>4. ~x.bits[k]
      BY <2>4, <3>1, <3>2
    <3>5. x.measured[k] = x.paras[k].height
      BY <1>2, <2>2, <2>3, <3>2, <3>4 DEF Fits
    <3> QED
      BY <3>3, <3>5
  <2>7. m # <<>>
    BY <1>2, <1>6, <2>5, EmptySeq
  <2> QED
    BY <1>5, <1>8, <2>5, <2>6, <2>7 DEF Fits
<1>10. p # <<>>
  BY EmptySeq
<1> QED
  BY <1>8, <1>9, <1>10 DEF y, Touched, Good

\* The paragraph at i is taken out.
LEMMA RemovingEdit ==
  ASSUME NEW x, Good(x), NEW p \in Seq(Paragraph), p # <<>>, Len(x.paras) = Len(p) + 1,
         NEW i \in 1..Len(x.paras),
         \A j \in 1..Len(p) : j # i /\ j # i - 1 =>
            p[j].height = x.paras[IF j < i THEN j ELSE j + 1].height
  PROVE  /\ Touched(Removed(Having(x, p), i), x)
         /\ Removed(Having(x, p), i).paras = p
<1> DEFINE z == Having(x, p)
           y == Removed(z, i)
           n == Len(p)
           c == Bits(z)
           b == RemoveBit(c, n, i)
           m == ShiftForRemove(x.measured, i)
           l == x.lost \/ Forgets(z)
<1>1. x \in SectionState /\ Sound(x) /\ x.paras # <<>>
  BY DEF Good
<1>2. /\ n \in Nat /\ Len(x.paras) \in Nat /\ x.measured \in Seq(Heights \cup {0})
      /\ x.bits \in Seq(BOOLEAN) \cup {None}
  BY <1>1, LenProperties DEF SectionState
<1>3. /\ z \in SectionState
      /\ z.paras = p /\ z.measured = x.measured /\ z.pages = x.pages /\ z.lost = x.lost
      /\ z.bits = x.bits
  BY <1>1, HavingFields
<1> HIDE DEF z
<1>4. c \in Seq(BOOLEAN) /\ (x.bits # None => c = x.bits)
  BY <1>2, <1>3, Cleaning DEF Bits
<1>5. Len(c) \in Nat /\ Len(x.measured) \in Nat
  BY <1>2, <1>4, LenProperties
<1> HIDE DEF c
<1>6. /\ b \in Seq(BOOLEAN) /\ Len(b) = n
      /\ Len(c) = n + 1 =>
           \A j \in 1..n : ~b[j] => j # i /\ j # i - 1 /\ ~c[IF j < i THEN j ELSE j + 1]
  BY <1>2, <1>4, RemovedBit
<1>7. /\ m \in Seq(Heights \cup {0})
      /\ i <= Len(x.measured) =>
           /\ Len(m) = Len(x.measured) - 1
           /\ \A j \in 1..Len(x.measured) - 1 : m[j] = x.measured[IF j < i THEN j ELSE j + 1]
  <2>1. CASE i <= Len(x.measured)
    <3> DEFINE q == x.measured
    <3>1. /\ i \in 1..Len(q) /\ m = RemoveAt(q, i)
          /\ q \in Seq(Heights \cup {0})
      BY <1>2, <1>5, <2>1 DEF ShiftForRemove
    <3> HIDE DEF m, q
    <3>2. /\ m \in Seq(Heights \cup {0}) /\ Len(m) = Len(q) - 1
          /\ \A j \in 1..Len(q) - 1 : m[j] = IF j < i THEN q[j] ELSE q[j + 1]
      BY <3>1, Removal
    <3>3. \A j \in 1..Len(q) - 1 : m[j] = q[IF j < i THEN j ELSE j + 1]
      BY <3>2
    <3> QED
      BY <3>2, <3>3 DEF q
  <2>2. CASE ~(i <= Len(x.measured))
    BY <1>2, <2>2 DEF ShiftForRemove
  <2> QED
    BY <2>1, <2>2
<1>8. l \in BOOLEAN
  BY <1>1 DEF SectionState, Forgets
<1>9. /\ y \in SectionState
      /\ y.paras = p /\ y.measured = m /\ y.pages = x.pages /\ y.lost = l
      /\ y.bits = b /\ y.dirty = TRUE
  BY <1>3, <1>6, <1>7, <1>8 DEF Removed, SectionState, c
<1> HIDE DEF y, b, m
<1>10. Sound(y)
  <2> SUFFICES ASSUME ~y.lost PROVE y.measured # <<>> /\ Fits(y)
    BY <1>9 DEF Sound
  <2>1. ~x.lost /\ ~Forgets(z)
    BY <1>9
  <2>2. x.measured # <<>> /\ x.bits # None /\ Fits(x)
    BY <1>1, <1>3, <2>1 DEF Sound, Forgets
  <2>3. Len(x.measured) = n + 1 /\ Len(x.bits) = n + 1 /\ c = x.bits
    BY <1>2, <1>4, <2>2 DEF Fits
  <2>4. Len(m) = n /\ \A j \in 1..n : m[j] = x.measured[IF j < i THEN j ELSE j + 1]
    BY <1>2, <1>7, <2>3
  <2>5. ASSUME NEW j \in 1..n, ~b[j] PROVE m[j] = p[j].height
    <3> DEFINE k == IF j < i THEN j ELSE j + 1
    <3>1. j # i /\ j # i - 1 /\ ~x.bits[k]
      BY <1>6, <2>3, <2>5
    <3>2. k \in 1..n + 1
      BY <1>2
    <3>3. p[j].height = x.paras[k].height /\ m[j] = x.measured[k]
      BY <2>4, <3>1
    <3> HIDE DEF k
    <3>4. x.measured[k] = x.paras[k].height
      BY <1>2, <2>2, <2>3, <3>1, <3>2 DEF Fits
    <3> QED
      BY <3>3, <3>4
  <2>6. m # <<>>
    <3>1. n # 0
      BY EmptySeq
    <3> QED
      BY <1>2, <1>7, <2>4, <3>1, EmptySeq
  <2> QED
    BY <1>6, <1>9, <2>4, <2>5, <2>6 DEF Fits
<1> QED
  BY <1>9, <1>10 DEF y, z, Touched, Good

\* One more mark on a good section.
LEMMA MarkingMore ==
  ASSUME NEW x, NEW y, Touched(y, x), NEW i \in 1..Len(y.paras)
  PROVE  Touched(Marked(y, i), x)
<1>1. Good(y) /\ y \in SectionState /\ y.paras \in Seq(Paragraph)
  BY DEF Touched, Good, SectionState
<1>2. Having(y, y.paras) = y
  BY <1>1 DEF Having, SectionState
<1>3. Touched(Marked(Having(y, y.paras), i), y)
  BY <1>1, MarkingEdit
<1> QED
  BY <1>2, <1>3 DEF Touched

\* Paragraph i changes and another is put in after it.
LEMMA SplittingEdit ==
  ASSUME NEW x, Good(x), NEW p \in Seq(Paragraph), Len(p) = Len(x.paras) + 1,
         NEW i \in 1..Len(x.paras),
         \A j \in 1..Len(p) : j # i + 1 /\ j # i =>
            p[j].height = x.paras[IF j < i + 1 THEN j ELSE j - 1].height
  PROVE  Touched(Inserted(Marked(Having(x, p), i), i + 1), x)
<1> DEFINE v == Having(x, p)
           z == Marked(v, i)
           n == Len(p)
           b == MarkBit(x.bits, n, i)
<1>1. x \in SectionState /\ Sound(x) /\ x.paras # <<>>
  BY DEF Good
<1>2. x.bits \in Seq(BOOLEAN) \cup {None} /\ n \in Nat /\ Len(x.paras) \in Nat
  BY <1>1, LenProperties DEF SectionState
<1>3. i \in 1..n /\ i + 1 \in 1..n /\ (i + 1) - 1 = i
  BY <1>2
<1>4. /\ v \in SectionState
      /\ v.paras = p /\ v.measured = x.measured /\ v.pages = x.pages /\ v.lost = x.lost
      /\ v.bits = x.bits
  BY <1>1, HavingFields
<1>5. /\ b \in Seq(BOOLEAN) \cup {None}
      /\ b = None <=> x.bits = None
      /\ x.bits # None =>
           Len(b) = n /\ \A j \in 1..n : ~b[j] => j # i /\ (j <= Len(x.bits) => ~x.bits[j])
  <2> DEFINE c == x.bits
  <2>1. c \in Seq(BOOLEAN) \cup {None} /\ n \in Nat /\ i \in 1..n
    BY <1>2, <1>3
  <2> HIDE DEF n, c
  <2>2. /\ MarkBit(c, n, i) \in Seq(BOOLEAN) \cup {None}
        /\ MarkBit(c, n, i) = None <=> c = None
        /\ c # None =>
             /\ Len(MarkBit(c, n, i)) = n
             /\ \A j \in 1..n : ~MarkBit(c, n, i)[j] => j # i /\ (j <= Len(c) => ~c[j])
    BY <2>1, Marking
  <2> QED
    BY <2>2 DEF b, c
<1> HIDE DEF v
<1>6. /\ z \in SectionState
      /\ z.paras = p /\ z.measured = x.measured /\ z.pages = x.pages /\ z.lost = x.lost
      /\ z.bits = b
  BY <1>4, <1>5 DEF Marked, SectionState
<1> HIDE DEF z, b
<1>7. x.bits # None /\ Len(x.bits) = Len(x.paras) =>
        Len(z.bits) >= Len(x.bits) /\ \A j \in 1..Len(x.bits) : ~z.bits[j] => ~x.bits[j]
  BY <1>2, <1>5, <1>6
<1>8. \A j \in 1..Len(p) : j # i + 1 /\ j # (i + 1) - 1 =>
        p[j].height = x.paras[IF j < i + 1 THEN j ELSE j - 1].height
  BY <1>3
<1>9. Touched(Inserted(z, i + 1), x)
  BY <1>3, <1>5, <1>6, <1>7, <1>8, InsertingEdit
<1> QED
  BY <1>9 DEF z, v
-----------------------------------------------------------------------------
(* Paginating, and leaving it to later *)

\* Pages change only where no mark stays.
Shows == \A s \in DOMAIN sections' : Republished(s) => ~sections'[s].dirty
AllClear == \A s \in DOMAIN sections : ~sections[s].dirty

\* A section that can be laid out: good, or with nothing measured.
Ready(x) == x.paras # <<>> /\ (Sound(x) \/ (x.dirty /\ MeasuresAll(x)))

\* The ways of a step with the page numbers: it paginates, it leaves them alone, or
\* it commits the only section.
Kept(xs) ==
  /\ xs \in Seq(SectionState)
  /\ \A s \in DOMAIN xs : /\ Ready(xs[s])
                          /\ ~xs[s].dirty => s \in DOMAIN sections /\ xs[s] = sections[s]
Quiet ==
  /\ firstPage' = firstPage /\ DOMAIN sections' = DOMAIN sections
  /\ \A s \in DOMAIN sections : ~sections'[s].dirty => ~sections[s].dirty
Paged ==
  \/ \E xs : Paginate(xs) /\ Kept(xs)
  \/ Quiet
  \/ DOMAIN sections = {1} /\ \E j : Commit(j)

LEMMA SectionOf ==
  ASSUME Inv, NEW s \in DOMAIN sections
  PROVE  /\ sections \in Seq(SectionState) /\ Len(sections) \in Nat
         /\ DOMAIN sections = 1..Len(sections) /\ s \in 1..Len(sections)
         /\ Good(sections[s]) /\ sections[s] \in SectionState
         /\ Paras(s) \in Seq(Paragraph) /\ Paras(s) # <<>>
         /\ Len(Paras(s)) \in Nat /\ DOMAIN Paras(s) = 1..Len(Paras(s))
<1>1. sections \in Seq(SectionState) /\ Good(sections[s])
  BY DEF Inv, TypeOK, AllGood
<1>2. sections[s] \in SectionState /\ Paras(s) \in Seq(Paragraph) /\ Paras(s) # <<>>
  BY <1>1 DEF Good, SectionState, Paras
<1> QED
  BY <1>1, <1>2, LenProperties

LEMMA Clearing ==
  ASSUME NEW xs \in Seq(SectionState), \A s \in DOMAIN xs : Ready(xs[s]),
         NEW f, f = [s \in DOMAIN xs |-> Laid(xs[s])]
  PROVE  /\ f \in Seq(SectionState) /\ Len(f) = Len(xs) /\ DOMAIN f = DOMAIN xs
         /\ \A s \in DOMAIN f : Good(f[s]) /\ ~f[s].dirty
<1>1. Len(xs) \in Nat /\ DOMAIN xs = 1..Len(xs) /\ \A s \in 1..Len(xs) : xs[s] \in SectionState
  BY LenProperties, ElementOfSeq
<1>2. \A s \in DOMAIN xs : Good(Laid(xs[s])) /\ ~Laid(xs[s]).dirty
  BY <1>1, Laying DEF Ready
<1>3. \A s \in DOMAIN f : f[s] = Laid(xs[s])
  OBVIOUS
<1>4. f \in [1..Len(xs) -> SectionState]
  BY <1>1, <1>2 DEF Good
<1> QED
  BY <1>1, <1>2, <1>3, <1>4, Sequence

LEMMA Paginating ==
  ASSUME NEW xs \in Seq(SectionState), \A s \in DOMAIN xs : Ready(xs[s]), Paginate(xs),
         revision' \in Nat, batch' \in BOOLEAN
  PROVE  Inv' /\ AllClear'
<1>1. sections' = [s \in DOMAIN xs |-> Laid(xs[s])] /\ descriptor' = None /\ job' = None
  BY DEF Paginate
<1>2. /\ sections' \in Seq(SectionState)
      /\ \A s \in DOMAIN sections' : Good(sections'[s]) /\ ~sections'[s].dirty
  BY <1>1, Clearing
<1> QED
  BY <1>1, <1>2 DEF Inv, TypeOK, AllGood, JobIsFresh, TargetStaysMarked, Revisions, AllClear

\* An edit of one section.
LEMMA SectionsWith ==
  ASSUME Inv, NEW s \in DOMAIN sections, NEW y, Touched(y, sections[s])
  PROVE  /\ With(s, y) \in Seq(SectionState) /\ Len(With(s, y)) = Len(sections)
         /\ DOMAIN With(s, y) = DOMAIN sections
         /\ \A t \in DOMAIN sections : With(s, y)[t] = IF t = s THEN y ELSE sections[t]
         /\ \A t \in DOMAIN sections : Good(With(s, y)[t])
<1>1. y \in SectionState /\ Good(y)
  BY DEF Touched, Good
<1>2. sections \in Seq(SectionState) /\ s \in 1..Len(sections) /\ DOMAIN sections = 1..Len(sections)
  BY SectionOf
<1>3. With(s, y) \in Seq(SectionState) /\ Len(With(s, y)) = Len(sections)
  BY <1>1, <1>2, ExceptSeq DEF With
<1>4. \A t \in DOMAIN sections : With(s, y)[t] = IF t = s THEN y ELSE sections[t]
  BY DEF With
<1>5. \A t \in DOMAIN sections : Good(With(s, y)[t])
  BY <1>1, <1>4 DEF Inv, AllGood
<1> QED
  BY <1>2, <1>3, <1>4, <1>5, LenProperties

\* The edit is left to a later pagination.
LEMMA Leaving ==
  ASSUME Inv, NEW s \in DOMAIN sections, NEW y, Touched(y, sections[s]),
         LeaveDirty(With(s, y)), UNCHANGED <<batch, revision>>
  PROVE  Inv' /\ Shows /\ Paged
<1> DEFINE xs == With(s, y)
<1>1. /\ xs \in Seq(SectionState) /\ Len(xs) = Len(sections)
      /\ DOMAIN xs = DOMAIN sections
      /\ \A t \in DOMAIN sections : xs[t] = IF t = s THEN y ELSE sections[t]
      /\ \A t \in DOMAIN sections : Good(xs[t])
  BY SectionsWith
<1>2. revision' \in Nat /\ batch' \in BOOLEAN
  BY DEF Inv, TypeOK
<1> HIDE DEF xs
<1>3. sections' = xs /\ descriptor' = descriptor /\ firstPage' = firstPage
      /\ job' = IF job = None \/ xs = sections THEN job ELSE [job EXCEPT !.missed = TRUE]
  BY DEF LeaveDirty, xs
<1>4. job' \in Job \cup {None} /\ (job' # None => job # None /\ job'.target = job.target)
      /\ (job' # None /\ ~job'.missed => job' = job /\ sections' = sections)
  <2>1. CASE job = None
    BY <1>3, <2>1
  <2>2. CASE xs = sections
    BY <1>3, <2>2 DEF Inv, TypeOK
  <2>3. CASE job # None /\ xs # sections
    <3>1. job \in Job /\ job' = [job EXCEPT !.missed = TRUE]
      BY <1>3, <2>3 DEF Inv, TypeOK
    <3> QED
      BY <2>3, <3>1 DEF Job
  <2> QED
    BY <2>1, <2>2, <2>3
<1>5. \A t \in DOMAIN sections' :
        /\ t \in DOMAIN sections
        /\ sections'[t].pages = sections[t].pages
        /\ sections[t].dirty => sections'[t].dirty
  BY <1>1, <1>3 DEF Touched
<1>6. TypeOK' /\ AllGood'
  BY <1>1, <1>2, <1>3, <1>4 DEF Inv, TypeOK, AllGood
<1>7. JobIsFresh'
  <2> SUFFICES ASSUME job' # None
               PROVE  /\ Len(sections') = 1
                      /\ descriptor' = job'.target /\ ~job'.missed /\ ~sections'[1].lost =>
                           job'.measured = HeightsOf(Paras(1))'
    BY DEF JobIsFresh
  <2>1. Len(sections') = 1
    BY <1>1, <1>3, <1>4 DEF Inv, JobIsFresh
  <2>2. ASSUME descriptor' = job'.target, ~job'.missed, ~sections'[1].lost
        PROVE  job'.measured = HeightsOf(Paras(1))'
    BY <1>3, <1>4, <2>2 DEF Inv, JobIsFresh, Paras
  <2> QED
    BY <2>1, <2>2
<1>8. TargetStaysMarked'
  BY <1>1, <1>3, <1>5 DEF Inv, TargetStaysMarked
<1>9. Revisions'
  BY <1>3, <1>4 DEF Inv, Revisions
<1>10. Quiet
  BY <1>1, <1>3, <1>5 DEF Quiet
<1> QED
  BY <1>5, <1>6, <1>7, <1>8, <1>9, <1>10 DEF Inv, Shows, Republished, Paged

LEMMA Editing ==
  ASSUME Inv, NEW s \in DOMAIN sections, NEW y, Touched(y, sections[s]),
         PaginateIfNeeded(With(s, y)), UNCHANGED <<batch, revision>>
  PROVE  Inv' /\ Shows /\ Paged
<1> DEFINE xs == With(s, y)
<1>1. /\ xs \in Seq(SectionState) /\ Len(xs) = Len(sections)
      /\ DOMAIN xs = DOMAIN sections
      /\ \A t \in DOMAIN sections : xs[t] = IF t = s THEN y ELSE sections[t]
      /\ \A t \in DOMAIN sections : Good(xs[t])
  BY SectionsWith
<1>2. revision' \in Nat /\ batch' \in BOOLEAN
  BY DEF Inv, TypeOK
<1> HIDE DEF xs
<1>3. CASE Paginate(xs)
  <2>1. Inv' /\ AllClear'
    BY <1>1, <1>2, <1>3, Paginating DEF Ready, Good
  <2>2. Kept(xs)
    BY <1>1 DEF Kept, Ready, Good, Touched
  <2> QED
    BY <1>3, <2>1, <2>2 DEF Shows, AllClear, Paged
<1>4. CASE LeaveDirty(With(s, y))
  BY <1>4, Leaving
<1> QED
  BY <1>3, <1>4 DEF PaginateIfNeeded, xs

LEMMA Stuttering ==
  ASSUME Inv, UNCHANGED vars
  PROVE  Inv' /\ Shows /\ Paged
BY DEF Inv, vars, TypeOK, AllGood, JobIsFresh, TargetStaysMarked, Revisions, Shows, Republished, Paras,
       Paged, Quiet

\* An opened document can be laid out.
LEMMA Opening ==
  ASSUME NEW d \in Documents
  PROVE  Opened(d) \in Seq(SectionState) /\ \A s \in DOMAIN Opened(d) : Ready(Opened(d)[s])
<1> DEFINE o(s) == [paras |-> d[s].paras, restarts |-> d[s].restarts, measured |-> <<>>,
                    dirty |-> TRUE, bits |-> None, pages |-> <<>>, lost |-> FALSE]
<1>1. /\ d \in Seq([paras : Seq(Paragraph), restarts : BOOLEAN])
      /\ \A s \in DOMAIN d : d[s].paras # <<>>
  BY RepaginationAssumption
<1>2. Len(d) \in Nat /\ DOMAIN d = 1..Len(d)
      /\ \A s \in 1..Len(d) : d[s] \in [paras : Seq(Paragraph), restarts : BOOLEAN]
  BY <1>1, LenProperties, ElementOfSeq
<1>3. <<>> \in Seq(Heights \cup {0})
  BY EmptySeq
<1>4. ASSUME NEW s \in 1..Len(d) PROVE o(s) \in SectionState
  BY <1>2, <1>3 DEF SectionState
<1>5. ASSUME NEW s \in 1..Len(d) PROVE Ready(o(s))
  BY <1>1, <1>2 DEF Ready, MeasuresAll
<1>6. Opened(d) = [s \in DOMAIN d |-> o(s)]
  BY DEF Opened
<1> HIDE DEF o
<1>7. Opened(d) \in [1..Len(d) -> SectionState]
  BY <1>2, <1>4, <1>6
<1>8. \A s \in DOMAIN Opened(d) : s \in 1..Len(d) /\ Opened(d)[s] = o(s)
  BY <1>2, <1>6
<1> QED
  BY <1>2, <1>5, <1>7, <1>8, Sequence

LEMMA InitInv == Init => Inv
<1> SUFFICES ASSUME Init PROVE Inv
  OBVIOUS
<1>1. PICK d \in Documents :
        /\ sections = [s \in DOMAIN d |-> Laid(Opened(d)[s])]
        /\ batch = FALSE /\ revision = 0 /\ descriptor = None /\ job = None
  BY DEF Init
<1>2. Opened(d) \in Seq(SectionState) /\ \A s \in DOMAIN Opened(d) : Ready(Opened(d)[s])
  BY Opening
<1>3. DOMAIN Opened(d) = DOMAIN d
  BY DEF Opened
<1>4. sections = [s \in DOMAIN Opened(d) |-> Laid(Opened(d)[s])]
  BY <1>1, <1>3
<1>5. sections \in Seq(SectionState) /\ \A s \in DOMAIN sections : Good(sections[s])
  BY <1>2, <1>4, Clearing
<1> QED
  BY <1>1, <1>5 DEF Inv, TypeOK, AllGood, JobIsFresh, TargetStaysMarked, Revisions

\* All sections are laid out again as they are.
LEMMA PaginatingAll ==
  ASSUME Inv, Paginate(sections), revision' \in Nat, batch' \in BOOLEAN
  PROVE  Inv' /\ AllClear' /\ Paged
<1>1. sections \in Seq(SectionState) /\ \A s \in DOMAIN sections : Ready(sections[s])
  BY DEF Inv, TypeOK, AllGood, Good, Ready
<1>2. Kept(sections)
  BY <1>1 DEF Kept
<1> QED
  BY <1>1, <1>2, Paginating DEF Paged

LEMMA ClearShows == AllClear' => Shows
BY DEF AllClear, Shows
-----------------------------------------------------------------------------
(* The paragraphs that an edit leaves *)

\* A paragraph is changed.
LEMMA Changing ==
  ASSUME NEW q \in Seq(Paragraph), NEW i \in 1..Len(q), NEW e \in Paragraph
  PROVE  /\ [q EXCEPT ![i] = e] \in Seq(Paragraph) /\ Len([q EXCEPT ![i] = e]) = Len(q)
         /\ \A j \in 1..Len(q) : j # i => [q EXCEPT ![i] = e][j] = q[j]
BY ExceptSeq

\* A paragraph's height is changed.
Higher(q, i, h) == [q EXCEPT ![i].height = h]

LEMMA Heightening ==
  ASSUME NEW q \in Seq(Paragraph), NEW i \in 1..Len(q), NEW h \in Heights
  PROVE  /\ Higher(q, i, h) \in Seq(Paragraph) /\ Len(Higher(q, i, h)) = Len(q)
         /\ \A j \in 1..Len(q) : j # i => Higher(q, i, h)[j] = q[j]
<1> DEFINE e == [q[i] EXCEPT !.height = h]
<1>1. q[i] \in Paragraph
  BY ElementOfSeq
<1>2. e \in Paragraph
  BY <1>1 DEF Paragraph
<1>3. Higher(q, i, h) = [q EXCEPT ![i] = e]
  BY DEF Higher
<1> HIDE DEF e
<1> QED
  BY <1>2, <1>3, Changing

\* The edits as they are named in the actions.
LEMMA EditedHaving ==
  ASSUME NEW s \in DOMAIN sections, NEW p
  PROVE  Edited(s, p) = Having(sections[s], p)
BY DEF Edited, Having

LEMMA ResizedMarked ==
  ASSUME Inv, NEW s \in DOMAIN sections, NEW i \in DOMAIN Paras(s), NEW h \in Heights
  PROVE  Touched(Marked(Resized(s, i, h), i), sections[s])
<1> DEFINE q == Paras(s)
           p == Higher(q, i, h)
<1>1. q \in Seq(Paragraph) /\ q = sections[s].paras /\ i \in 1..Len(q) /\ Good(sections[s])
  BY SectionOf DEF Paras
<1>2. Resized(s, i, h) = Having(sections[s], p)
  BY EditedHaving DEF Resized, Higher
<1> HIDE DEF q
<1>3. p \in Seq(Paragraph) /\ Len(p) = Len(q) /\ \A j \in 1..Len(q) : j # i => p[j] = q[j]
  BY <1>1, Heightening
<1> HIDE DEF p
<1> QED
  BY <1>1, <1>2, <1>3, MarkingEdit

LEMMA ResizedComposed ==
  ASSUME Inv, NEW s \in DOMAIN sections, NEW i \in DOMAIN Paras(s), NEW h \in Heights
  PROVE  Touched(RecomposedSection(Resized(s, i, h)), sections[s])
<1> DEFINE q == Paras(s)
           p == Higher(q, i, h)
<1>1. q \in Seq(Paragraph) /\ i \in 1..Len(q) /\ Good(sections[s])
  BY SectionOf
<1>2. Resized(s, i, h) = Having(sections[s], p)
  BY EditedHaving DEF Resized, Higher
<1> HIDE DEF q
<1>3. p \in Seq(Paragraph) /\ p # <<>>
  BY <1>1, Heightening, EmptySeq
<1> HIDE DEF p
<1> QED
  BY <1>1, <1>2, <1>3, Recomposing

\* Where a text was put in.
LEMMA PuttingIn ==
  ASSUME NEW r, NEW q \in Seq(Paragraph), Len(q) = Len(r),
         NEW i \in 1..Len(q) + 1, NEW h \in Heights,
         \A j \in 1..Len(q) : j # i - 1 => q[j] = r[j]
  PROVE  LET p == InsertAt(q, i, TextOf(h))
         IN  /\ p \in Seq(Paragraph) /\ Len(p) = Len(r) + 1
             /\ \A j \in 1..Len(p) : j # i /\ j # i - 1 =>
                  p[j].height = r[IF j < i THEN j ELSE j - 1].height
<1> DEFINE e == TextOf(h)
           p == InsertAt(q, i, e)
<1>1. e \in Paragraph
  BY DEF TextOf, Paragraph
<1> HIDE DEF e
<1>2. /\ p \in Seq(Paragraph) /\ Len(p) = Len(q) + 1
      /\ \A j \in 1..Len(q) + 1 :
           p[j] = IF j < i THEN q[j] ELSE IF j = i THEN e ELSE q[j - 1]
  BY <1>1, Insertion
<1> HIDE DEF p
<1>3. ASSUME NEW j \in 1..Len(p), j # i, j # i - 1
      PROVE  p[j] = r[IF j < i THEN j ELSE j - 1]
  <2>0. Len(q) \in Nat
    BY LenProperties
  <2>1. CASE j < i
    <3>1. j \in 1..Len(q) /\ p[j] = q[j]
      BY <1>2, <1>3, <2>0, <2>1
    <3> QED
      BY <1>3, <2>1, <3>1
  <2>2. CASE ~(j < i)
    <3>1. j - 1 \in 1..Len(q) /\ j - 1 # i - 1
      BY <1>2, <1>3, <2>0, <2>2
    <3>2. p[j] = q[j - 1]
      BY <1>2, <1>3, <2>2
    <3> QED
      BY <2>2, <3>1, <3>2
  <2> QED
    BY <2>1, <2>2
<1> QED
  BY <1>2, <1>3 DEF p, e

\* What cutting a text in two leaves.
LEMMA Cutting ==
  ASSUME Inv, NEW s \in DOMAIN sections, NEW i \in DOMAIN Paras(s), NEW h \in Heights, NEW g \in Heights
  PROVE  LET p == CutInTwo(s, i, h, g)
         IN  /\ p \in Seq(Paragraph) /\ Len(p) = Len(Paras(s)) + 1
             /\ \A j \in 1..Len(p) : j # i + 1 /\ j # i =>
                  p[j].height = Paras(s)[IF j < i + 1 THEN j ELSE j - 1].height
<1> DEFINE r == Paras(s)
           q == Higher(r, i, h)
           k == i + 1
<1>1. r \in Seq(Paragraph) /\ i \in 1..Len(r) /\ Len(r) \in Nat
  BY SectionOf
<1>2. CutInTwo(s, i, h, g) = InsertAt(q, k, TextOf(g))
  BY DEF CutInTwo, Higher
<1> HIDE DEF r
<1>3. q \in Seq(Paragraph) /\ Len(q) = Len(r) /\ \A j \in 1..Len(q) : j # i => q[j] = r[j]
  BY <1>1, Heightening
<1>4. k \in 1..Len(q) + 1 /\ k - 1 = i
  BY <1>1, <1>3
<1> HIDE DEF q, k
<1>5. LET p == InsertAt(q, k, TextOf(g))
      IN  /\ p \in Seq(Paragraph) /\ Len(p) = Len(r) + 1
          /\ \A j \in 1..Len(p) : j # k /\ j # k - 1 =>
               p[j].height = r[IF j < k THEN j ELSE j - 1].height
  BY <1>3, <1>4, PuttingIn
<1> QED
  BY <1>2, <1>4, <1>5 DEF r, k

\* Where a paragraph was taken out.
LEMMA TakingOut ==
  ASSUME NEW r, NEW q \in Seq(Paragraph), Len(q) = Len(r),
         Len(q) > 1, NEW i \in 1..Len(q),
         \A j \in 1..Len(q) : j # i - 1 => q[j] = r[j]
  PROVE  LET p == RemoveAt(q, i)
         IN  /\ p \in Seq(Paragraph) /\ Len(r) = Len(p) + 1 /\ p # <<>>
             /\ \A j \in 1..Len(p) : j # i /\ j # i - 1 =>
                  p[j].height = r[IF j < i THEN j ELSE j + 1].height
<1> DEFINE p == RemoveAt(q, i)
<1>0. Len(q) \in Nat
  BY LenProperties
<1>1. /\ p \in Seq(Paragraph) /\ Len(p) = Len(q) - 1
      /\ \A j \in 1..Len(q) - 1 : p[j] = IF j < i THEN q[j] ELSE q[j + 1]
  BY Removal
<1> HIDE DEF p
<1>2. p # <<>>
  BY <1>0, <1>1, EmptySeq
<1>3. ASSUME NEW j \in 1..Len(p), j # i, j # i - 1
      PROVE  p[j] = r[IF j < i THEN j ELSE j + 1]
  <2>1. CASE j < i
    <3>1. j \in 1..Len(q) /\ p[j] = q[j]
      BY <1>0, <1>1, <1>3, <2>1
    <3> QED
      BY <1>3, <2>1, <3>1
  <2>2. CASE ~(j < i)
    <3>1. j + 1 \in 1..Len(q) /\ j + 1 # i - 1
      BY <1>0, <1>1, <1>3, <2>2
    <3>2. p[j] = q[j + 1]
      BY <1>1, <1>3, <2>2
    <3> QED
      BY <2>2, <3>1, <3>2
  <2> QED
    BY <2>1, <2>2
<1> QED
  BY <1>0, <1>1, <1>2, <1>3 DEF p
-----------------------------------------------------------------------------
(* The job *)

\* A job that may be committed: of a document of one section, with what the table
\* measures, unless it missed something.
Committable(j) ==
  /\ j \in Job
  /\ Len(sections) = 1
  /\ ~j.missed /\ ~sections[1].lost => j.measured = HeightsOf(Paras(1))

LEMMA Starting ==
  ASSUME Inv, NewJob # None
  PROVE  /\ Committable(NewJob) /\ NewJob.target = descriptor /\ ~NewJob.missed
         /\ descriptor # None
<1>1. /\ Startable
      /\ NewJob = [target |-> descriptor, measured |-> Measure(sections[1]), missed |-> FALSE]
  BY DEF NewJob
<1>2. descriptor \in Target /\ descriptor # None /\ Len(sections) = 1
  BY <1>1 DEF Startable, Inv, TypeOK
<1>3. 1 \in DOMAIN sections
  BY <1>2, LenProperties DEF Inv, TypeOK
<1>4. sections[1] \in SectionState /\ sections[1].paras # <<>> /\ Sound(sections[1])
  BY <1>3 DEF Inv, AllGood, Good
<1>5. /\ Measure(sections[1]) \in Seq(Heights \cup {0})
      /\ ~sections[1].lost => Measure(sections[1]) = HeightsOf(Paras(1))
  BY <1>4, Measuring DEF Paras
<1> QED
  BY <1>1, <1>2, <1>5 DEF Committable, Job

LEMMA RunningCommittable ==
  ASSUME Inv, job # None, Current(job.target)
  PROVE  Committable(job)
BY DEF Inv, TypeOK, JobIsFresh, Current, Committable

LEMMA Committing ==
  ASSUME Inv, NEW j, Committable(j), Commit(j), UNCHANGED <<batch, revision>>
  PROVE  Inv' /\ AllClear' /\ Paged
<1> DEFINE y == Published(sections[1], j.measured, j.measured, sections[1].lost \/ j.missed)
<1>1. /\ j.measured \in Seq(Heights \cup {0}) /\ j.missed \in BOOLEAN
      /\ Len(sections) = 1 /\ sections \in Seq(SectionState)
  BY DEF Committable, Job, Inv, TypeOK
<1>2. 1 \in DOMAIN sections /\ DOMAIN sections = {1}
  BY <1>1, LenProperties
<1>3. sections[1] \in SectionState /\ sections[1].paras # <<>> /\ Sound(sections[1])
  BY <1>2 DEF Inv, AllGood, Good
<1>4. (sections[1].lost \/ j.missed) \in BOOLEAN
  BY <1>1, <1>3 DEF SectionState
<1>5. ~(sections[1].lost \/ j.missed) => j.measured = HeightsOf(sections[1].paras)
  BY DEF Committable, Paras
<1>6. Good(y) /\ ~y.dirty
  <2> DEFINE l == sections[1].lost \/ j.missed
  <2>1. l \in BOOLEAN /\ (~l => j.measured = HeightsOf(sections[1].paras))
    BY <1>4, <1>5
  <2> HIDE DEF l
  <2>2. Good(Published(sections[1], j.measured, j.measured, l))
        /\ ~Published(sections[1], j.measured, j.measured, l).dirty
    BY <1>1, <1>3, <2>1, Publishing
  <2> QED
    BY <2>2 DEF l
<1>7. sections' = With(1, y) /\ descriptor' = None /\ job' = None
  BY DEF Commit
<1> HIDE DEF y
<1>8. /\ sections' \in Seq(SectionState) /\ DOMAIN sections' = {1}
      /\ sections'[1] = y
  <2>1. y \in SectionState /\ 1 \in 1..Len(sections)
    BY <1>1, <1>6 DEF Good
  <2>2. sections' = [sections EXCEPT ![1] = y]
    BY <1>7 DEF With
  <2>3. [sections EXCEPT ![1] = y] \in Seq(SectionState)
    BY <1>1, <2>1, ExceptSeq
  <2>4. DOMAIN sections' = {1} /\ sections'[1] = y
    BY <1>2, <2>2
  <2> QED
    BY <2>2, <2>3, <2>4
<1>9. AllGood' /\ AllClear'
  BY <1>6, <1>8 DEF AllGood, AllClear
<1>10. TypeOK'
  BY <1>7, <1>8 DEF Inv, TypeOK
<1>11. Paged
  BY <1>2 DEF Paged
<1> QED
  BY <1>7, <1>9, <1>10, <1>11 DEF Inv, JobIsFresh, TargetStaysMarked, Revisions, AllClear

\* An edit of a table is left to a job: the job there is, if any, is of an older one.
LEMMA Deferring ==
  ASSUME Inv, EditCellDeferred
  PROVE  Inv' /\ Shows /\ Paged
<1>1. PICK s \in DOMAIN sections, h \in Heights, c \in Cells, flow \in BOOLEAN :
        \E i \in DOMAIN Paras(s) :
          /\ ~IsText(s, i)
          /\ revision' = revision + 1
          /\ descriptor' = [revision |-> revision + 1, section |-> s, para |-> i, cell |-> c,
                            flow |-> flow \/ (SamePlace(s, i, c) /\ descriptor.flow),
                            kind |-> Paras(s)[i].kind]
          /\ sections' = With(s, Marked(Resized(s, i, h), i))
          /\ UNCHANGED <<firstPage, batch, job>>
  BY DEF EditCellDeferred
<1>2. PICK i \in DOMAIN Paras(s) :
          /\ ~IsText(s, i)
          /\ revision' = revision + 1
          /\ descriptor' = [revision |-> revision + 1, section |-> s, para |-> i, cell |-> c,
                            flow |-> flow \/ (SamePlace(s, i, c) /\ descriptor.flow),
                            kind |-> Paras(s)[i].kind]
          /\ sections' = With(s, Marked(Resized(s, i, h), i))
          /\ UNCHANGED <<firstPage, batch, job>>
  BY <1>1
<1> DEFINE y == Marked(Resized(s, i, h), i)
<1>3. Touched(y, sections[s])
  BY ResizedMarked
<1>4. sections' = With(s, y)
  BY <1>2
<1> HIDE DEF y
<1>5. /\ sections' \in Seq(SectionState) /\ Len(sections') = Len(sections)
      /\ DOMAIN sections' = DOMAIN sections
      /\ \A t \in DOMAIN sections : sections'[t] = IF t = s THEN y ELSE sections[t]
      /\ \A t \in DOMAIN sections : Good(sections'[t])
  BY <1>3, <1>4, SectionsWith
<1>6. revision \in Nat /\ batch \in BOOLEAN /\ descriptor \in Target \cup {None}
      /\ job \in Job \cup {None}
  BY DEF Inv, TypeOK
<1>7. s \in Nat /\ i \in Nat
  BY SectionOf
<1>8. Paras(s)[i].kind \in Tables
  <2>1. Paras(s)[i] \in Paragraph
    BY SectionOf, ElementOfSeq
  <2> QED
    BY <1>2, <2>1 DEF Paragraph, IsText
<1>9. (flow \/ (SamePlace(s, i, c) /\ descriptor.flow)) \in BOOLEAN
  BY <1>6 DEF SamePlace, Target
<1>10. /\ descriptor' \in Target
       /\ descriptor'.revision = revision + 1 /\ descriptor'.section = s
  BY <1>2, <1>6, <1>7, <1>8, <1>9 DEF Target
<1>11. job' = job /\ batch' = batch /\ revision' = revision + 1
  BY <1>2
<1>12. TypeOK' /\ AllGood'
  BY <1>5, <1>6, <1>10, <1>11 DEF TypeOK, AllGood
<1>13. job # None => descriptor' # job.target
  BY <1>6, <1>10 DEF Inv, Revisions, Job, Target
<1>14. JobIsFresh'
  BY <1>5, <1>11, <1>13 DEF Inv, JobIsFresh
<1>15. TargetStaysMarked'
  BY <1>3, <1>5, <1>10 DEF TargetStaysMarked, Touched
<1>16. Revisions'
  <2>1. job # None => job.target.revision \in Nat /\ job.target.revision <= revision
    BY <1>6 DEF Inv, Revisions, Job, Target
  <2> QED
    BY <1>6, <1>10, <1>11, <2>1 DEF Revisions
<1>17. Shows
  BY <1>3, <1>5 DEF Shows, Republished, Touched
<1>18. Quiet
  BY <1>2, <1>3, <1>5 DEF Quiet, Touched
<1> QED
  BY <1>12, <1>14, <1>15, <1>16, <1>17, <1>18 DEF Inv, Paged

\* A flush lays out all or commits, and leaves nothing marked and nothing pending.
LEMMA Flushing ==
  ASSUME Inv, FlushDeferredPagination
  PROVE  Inv' /\ AllClear' /\ Paged /\ descriptor' = None /\ job' = None
<1> DEFINE j == IF job = None THEN NewJob ELSE job
<1>1. /\ IF j # None /\ Current(j.target) THEN Commit(j) ELSE Paginate(sections)
      /\ UNCHANGED <<batch, revision>>
  BY DEF FlushDeferredPagination
<1>2. CASE j # None /\ Current(j.target)
  <2>1. Committable(j)
    BY <1>2, Starting, RunningCommittable
  <2>2. Commit(j)
    BY <1>1, <1>2
  <2> HIDE DEF j
  <2> QED
    BY <1>1, <2>1, <2>2, Committing DEF Commit
<1>3. CASE ~(j # None /\ Current(j.target))
  <2>1. Paginate(sections)
    BY <1>1, <1>3
  <2>2. revision' \in Nat /\ batch' \in BOOLEAN
    BY <1>1 DEF Inv, TypeOK
  <2> QED
    BY <2>1, <2>2, PaginatingAll DEF Paginate
<1> QED
  BY <1>2, <1>3
-----------------------------------------------------------------------------
(* Every step keeps the invariant, and changes pages only where no mark stays. *)

LEMMA Preserving == Inv /\ [Next]_vars => Inv' /\ Shows /\ Paged
<1> SUFFICES ASSUME Inv, [Next]_vars PROVE Inv' /\ Shows /\ Paged
  OBVIOUS
<1>0. batch \in BOOLEAN /\ revision \in Nat
  BY DEF Inv, TypeOK
<1>1. CASE SetDocument
  <2>1. PICK d \in Documents : Paginate(Opened(d))
    BY <1>1 DEF SetDocument
  <2>2. revision' \in Nat /\ batch' \in BOOLEAN
    BY <1>0, <1>1 DEF SetDocument
  <2>3. Opened(d) \in Seq(SectionState) /\ \A s \in DOMAIN Opened(d) : Ready(Opened(d)[s])
    BY Opening
  <2>4. \A s \in DOMAIN Opened(d) : Opened(d)[s].dirty
    BY DEF Opened
  <2>5. Kept(Opened(d))
    BY <2>3, <2>4 DEF Kept
  <2> QED
    BY <2>1, <2>2, <2>3, <2>5, Paginating, ClearShows DEF Paged
<1>2. CASE EditText
  <2>1. PICK s \in DOMAIN sections, h \in Heights : \E i \in DOMAIN Paras(s) :
          PaginateIfNeeded(With(s, Marked(Resized(s, i, h), i))) /\ UNCHANGED <<batch, revision>>
    BY <1>2 DEF EditText
  <2>2. PICK i \in DOMAIN Paras(s) :
          PaginateIfNeeded(With(s, Marked(Resized(s, i, h), i))) /\ UNCHANGED <<batch, revision>>
    BY <2>1
  <2> QED
    BY <2>2, ResizedMarked, Editing
<1>3. CASE EditCell
  <2>1. PICK s \in DOMAIN sections, h \in Heights : \E i \in DOMAIN Paras(s) :
          PaginateIfNeeded(With(s, Marked(Resized(s, i, h), i))) /\ UNCHANGED <<batch, revision>>
    BY <1>3 DEF EditCell
  <2>2. PICK i \in DOMAIN Paras(s) :
          PaginateIfNeeded(With(s, Marked(Resized(s, i, h), i))) /\ UNCHANGED <<batch, revision>>
    BY <2>1
  <2> QED
    BY <2>2, ResizedMarked, Editing
<1>4. CASE EditCellDeferred
  BY <1>4, Deferring
<1>5. CASE FillField
  <2>1. PICK s \in DOMAIN sections, h \in Heights : \E i \in DOMAIN Paras(s) :
          LeaveDirty(With(s, RecomposedSection(Resized(s, i, h)))) /\ UNCHANGED <<batch, revision>>
    BY <1>5 DEF FillField
  <2>2. PICK i \in DOMAIN Paras(s) :
          LeaveDirty(With(s, RecomposedSection(Resized(s, i, h)))) /\ UNCHANGED <<batch, revision>>
    BY <2>1
  <2>3. Touched(RecomposedSection(Resized(s, i, h)), sections[s])
    BY ResizedComposed
  <2> QED
    BY <2>2, <2>3, Leaving
<1>6. CASE Repaginate
  <2>1. PaginateIfNeeded(sections) /\ UNCHANGED <<batch, revision>>
    BY <1>6 DEF Repaginate
  <2>2. CASE batch
    <3>1. UNCHANGED vars
      BY <2>1, <2>2 DEF PaginateIfNeeded, LeaveDirty, vars
    <3> QED
      BY <3>1, Stuttering
  <2>3. CASE ~batch
    <3>1. Paginate(sections) /\ revision' \in Nat /\ batch' \in BOOLEAN
      BY <1>0, <2>1, <2>3 DEF PaginateIfNeeded
    <3> QED
      BY <3>1, PaginatingAll, ClearShows
  <2> QED
    BY <2>2, <2>3
<1>7. CASE SplitParagraph
  <2>1. PICK s \in DOMAIN sections, h \in Heights, g \in Heights : \E i \in DOMAIN Paras(s) :
          /\ PaginateIfNeeded(With(s, Inserted(Marked(Edited(s, CutInTwo(s, i, h, g)), i), i + 1)))
          /\ UNCHANGED <<batch, revision>>
    BY <1>7 DEF SplitParagraph
  <2>2. PICK i \in DOMAIN Paras(s) :
          /\ PaginateIfNeeded(With(s, Inserted(Marked(Edited(s, CutInTwo(s, i, h, g)), i), i + 1)))
          /\ UNCHANGED <<batch, revision>>
    BY <2>1
  <2> DEFINE p == CutInTwo(s, i, h, g)
  <2>3. /\ p \in Seq(Paragraph) /\ Len(p) = Len(Paras(s)) + 1
        /\ \A j \in 1..Len(p) : j # i + 1 /\ j # i =>
             p[j].height = Paras(s)[IF j < i + 1 THEN j ELSE j - 1].height
    BY Cutting
  <2>4. Good(sections[s]) /\ i \in 1..Len(Paras(s))
    BY SectionOf
  <2>5. Edited(s, p) = Having(sections[s], p)
    BY EditedHaving
  <2>6. PaginateIfNeeded(With(s, Inserted(Marked(Edited(s, p), i), i + 1))) /\ UNCHANGED <<batch, revision>>
    BY <2>2
  <2> HIDE DEF p
  <2>7. Touched(Inserted(Marked(Edited(s, p), i), i + 1), sections[s])
    BY <2>3, <2>4, <2>5, SplittingEdit DEF Paras
  <2> QED
    BY <2>6, <2>7, Editing
<1>8. CASE BreakPage
  <2>1. PICK s \in DOMAIN sections, h \in Heights, g \in Heights : \E i \in DOMAIN Paras(s) :
          /\ PaginateIfNeeded(With(s, RecomposedSection(Edited(s, CutInTwo(s, i, h, g)))))
          /\ UNCHANGED <<batch, revision>>
    BY <1>8 DEF BreakPage
  <2>2. PICK i \in DOMAIN Paras(s) :
          /\ PaginateIfNeeded(With(s, RecomposedSection(Edited(s, CutInTwo(s, i, h, g)))))
          /\ UNCHANGED <<batch, revision>>
    BY <2>1
  <2> DEFINE p == CutInTwo(s, i, h, g)
  <2>3. p \in Seq(Paragraph) /\ Len(p) = Len(Paras(s)) + 1
    BY Cutting
  <2>4. Good(sections[s]) /\ Len(Paras(s)) \in Nat
    BY SectionOf
  <2>5. Edited(s, p) = Having(sections[s], p)
    BY EditedHaving
  <2>6. PaginateIfNeeded(With(s, RecomposedSection(Edited(s, p)))) /\ UNCHANGED <<batch, revision>>
    BY <2>2
  <2> HIDE DEF p
  <2>7. p # <<>>
    BY <2>3, <2>4, EmptySeq
  <2>8. Touched(RecomposedSection(Edited(s, p)), sections[s])
    BY <2>3, <2>4, <2>5, <2>7, Recomposing
  <2> QED
    BY <2>6, <2>8, Editing
<1>9. CASE InsertParagraph
  <2>1. PICK s \in DOMAIN sections, h \in Heights : \E i \in 1..Len(Paras(s)) + 1 :
          /\ PaginateIfNeeded(With(s, Inserted(Edited(s, InsertAt(Paras(s), i, TextOf(h))), i)))
          /\ UNCHANGED <<batch, revision>>
    BY <1>9 DEF InsertParagraph
  <2>2. PICK i \in 1..Len(Paras(s)) + 1 :
          /\ PaginateIfNeeded(With(s, Inserted(Edited(s, InsertAt(Paras(s), i, TextOf(h))), i)))
          /\ UNCHANGED <<batch, revision>>
    BY <2>1
  <2> DEFINE q == Paras(s)
             p == InsertAt(q, i, TextOf(h))
             z == Edited(s, p)
  <2>3. q \in Seq(Paragraph) /\ q = sections[s].paras /\ Len(q) \in Nat
        /\ Good(sections[s]) /\ sections[s] \in SectionState
    BY SectionOf DEF Paras
  <2>4. PaginateIfNeeded(With(s, Inserted(z, i))) /\ UNCHANGED <<batch, revision>>
    BY <2>2
  <2>5. i \in 1..Len(q) + 1
    OBVIOUS
  <2> HIDE DEF q
  <2>6. /\ p \in Seq(Paragraph) /\ Len(p) = Len(q) + 1
        /\ \A j \in 1..Len(p) : j # i /\ j # i - 1 =>
             p[j].height = q[IF j < i THEN j ELSE j - 1].height
    BY <2>3, <2>5, PuttingIn
  <2> HIDE DEF p
  <2>7. z = Having(sections[s], p)
    BY EditedHaving
  <2>8. /\ z \in SectionState
        /\ z.paras = p /\ z.measured = sections[s].measured /\ z.bits = sections[s].bits
        /\ z.pages = sections[s].pages /\ z.lost = sections[s].lost
    BY <2>3, <2>6, <2>7, HavingFields
  <2> HIDE DEF z
  <2>9. i \in 1..Len(p) /\ Len(sections[s].paras) \in Nat
    BY <2>3, <2>5, <2>6
  <2>10. Touched(Inserted(z, i), sections[s])
    <3> DEFINE x == sections[s]
    <3>1. /\ Good(x) /\ Len(p) = Len(x.paras) + 1
          /\ \A j \in 1..Len(p) : j # i /\ j # i - 1 =>
               p[j].height = x.paras[IF j < i THEN j ELSE j - 1].height
          /\ z.paras = p /\ z.measured = x.measured /\ z.pages = x.pages /\ z.lost = x.lost
          /\ z.bits = x.bits
      BY <2>3, <2>6, <2>8
    <3> HIDE DEF x
    <3>2. x.bits # None /\ Len(x.bits) = Len(x.paras) =>
            Len(z.bits) >= Len(x.bits) /\ \A j \in 1..Len(x.bits) : ~z.bits[j] => ~x.bits[j]
      BY <2>9, <3>1 DEF x
    <3>3. Touched(Inserted(z, i), x)
      BY <2>6, <2>8, <2>9, <3>1, <3>2, InsertingEdit
    <3> QED
      BY <3>3 DEF x
  <2> QED
    BY <2>4, <2>10, Editing
<1>10. CASE MergeParagraph
  <2>1. PICK s \in DOMAIN sections, h \in Heights : \E i \in DOMAIN Paras(s) \ {1} :
          /\ PaginateIfNeeded(With(s,
               Marked(Removed(Edited(s, RemoveAt([Paras(s) EXCEPT ![i - 1].height = h], i)), i), i - 1)))
          /\ UNCHANGED <<batch, revision>>
    BY <1>10 DEF MergeParagraph
  <2>2. PICK i \in DOMAIN Paras(s) \ {1} :
          /\ PaginateIfNeeded(With(s,
               Marked(Removed(Edited(s, RemoveAt([Paras(s) EXCEPT ![i - 1].height = h], i)), i), i - 1)))
          /\ UNCHANGED <<batch, revision>>
    BY <2>1
  <2> DEFINE r == Paras(s)
             q == Higher(r, i - 1, h)
             p == RemoveAt(q, i)
             y == Removed(Having(sections[s], p), i)
  <2>3. r \in Seq(Paragraph) /\ Len(r) \in Nat /\ i \in 1..Len(r) /\ r = sections[s].paras
        /\ Good(sections[s])
    BY SectionOf DEF Paras
  <2>4. PaginateIfNeeded(With(s, Marked(y, i - 1))) /\ UNCHANGED <<batch, revision>>
    BY <2>2, EditedHaving DEF Higher
  <2>5. i # 1
    OBVIOUS
  <2> HIDE DEF r
  <2>6. i - 1 \in 1..Len(r) /\ Len(r) > 1
    BY <2>3, <2>5
  <2>7. q \in Seq(Paragraph) /\ Len(q) = Len(r) /\ \A j \in 1..Len(r) : j # i - 1 => q[j] = r[j]
    <3> DEFINE k == i - 1
    <3>1. r \in Seq(Paragraph) /\ k \in 1..Len(r)
      BY <2>3, <2>6
    <3> HIDE DEF k
    <3>2. /\ Higher(r, k, h) \in Seq(Paragraph) /\ Len(Higher(r, k, h)) = Len(r)
          /\ \A j \in 1..Len(r) : j # k => Higher(r, k, h)[j] = r[j]
      BY <3>1, Heightening
    <3> QED
      BY <3>2 DEF k
  <2> HIDE DEF q
  <2>8. /\ p \in Seq(Paragraph) /\ Len(r) = Len(p) + 1 /\ p # <<>>
        /\ \A j \in 1..Len(p) : j # i /\ j # i - 1 =>
             p[j].height = r[IF j < i THEN j ELSE j + 1].height
    <3>1. /\ q \in Seq(Paragraph) /\ Len(q) = Len(r) /\ Len(q) > 1 /\ i \in 1..Len(q)
          /\ \A j \in 1..Len(q) : j # i - 1 => q[j] = r[j]
      BY <2>3, <2>6, <2>7
    <3> QED
      BY <3>1, TakingOut, Zenon
  <2> HIDE DEF p
  <2>9. Touched(y, sections[s]) /\ y.paras = p
    BY <2>3, <2>8, RemovingEdit
  <2> HIDE DEF y
  <2>10. i - 1 \in 1..Len(y.paras)
    BY <2>3, <2>6, <2>8, <2>9, LenProperties
  <2>11. Touched(Marked(y, i - 1), sections[s])
    BY <2>9, <2>10, MarkingMore
  <2> QED
    BY <2>4, <2>11, Editing
<1>11. CASE DeleteParagraph
  <2>1. PICK s \in DOMAIN sections : \E i \in DOMAIN Paras(s) :
          /\ Len(Paras(s)) > 1
          /\ PaginateIfNeeded(With(s,
               Marked(Removed(Edited(s, RemoveAt(Paras(s), i)), i), IF i = 1 THEN 1 ELSE i - 1)))
          /\ UNCHANGED <<batch, revision>>
    BY <1>11 DEF DeleteParagraph
  <2>2. PICK i \in DOMAIN Paras(s) :
          /\ Len(Paras(s)) > 1
          /\ PaginateIfNeeded(With(s,
               Marked(Removed(Edited(s, RemoveAt(Paras(s), i)), i), IF i = 1 THEN 1 ELSE i - 1)))
          /\ UNCHANGED <<batch, revision>>
    BY <2>1
  <2> DEFINE r == Paras(s)
             p == RemoveAt(r, i)
             y == Removed(Having(sections[s], p), i)
             k == IF i = 1 THEN 1 ELSE i - 1
  <2>3. r \in Seq(Paragraph) /\ Len(r) \in Nat /\ i \in 1..Len(r) /\ r = sections[s].paras
        /\ Good(sections[s]) /\ Len(r) > 1
    BY <2>2, SectionOf DEF Paras
  <2>4. PaginateIfNeeded(With(s, Marked(y, k))) /\ UNCHANGED <<batch, revision>>
    BY <2>2, EditedHaving
  <2> HIDE DEF r
  <2>5. /\ p \in Seq(Paragraph) /\ Len(r) = Len(p) + 1 /\ p # <<>>
        /\ \A j \in 1..Len(p) : j # i /\ j # i - 1 =>
             p[j].height = r[IF j < i THEN j ELSE j + 1].height
    BY <2>3, TakingOut
  <2> HIDE DEF p
  <2>6. Touched(y, sections[s]) /\ y.paras = p
    BY <2>3, <2>5, RemovingEdit
  <2> HIDE DEF y
  <2>7. Len(p) \in Nat
    BY <2>5, LenProperties
  <2>8. k \in 1..Len(y.paras)
    BY <2>3, <2>5, <2>6, <2>7
  <2> HIDE DEF k
  <2>9. Touched(Marked(y, k), sections[s])
    BY <2>6, <2>8, MarkingMore
  <2> QED
    BY <2>4, <2>9, Editing
<1>12. CASE ChangeTable
  <2>1. PICK s \in DOMAIN sections, h \in Heights, k \in Tables : \E i \in DOMAIN Paras(s) :
          /\ PaginateIfNeeded(With(s, RecomposedSection(
               Edited(s, [Paras(s) EXCEPT ![i] = [kind |-> k, height |-> h]]))))
          /\ UNCHANGED <<batch, revision>>
    BY <1>12 DEF ChangeTable
  <2>2. PICK i \in DOMAIN Paras(s) :
          /\ PaginateIfNeeded(With(s, RecomposedSection(
               Edited(s, [Paras(s) EXCEPT ![i] = [kind |-> k, height |-> h]]))))
          /\ UNCHANGED <<batch, revision>>
    BY <2>1
  <2> DEFINE e == [kind |-> k, height |-> h]
             q == Paras(s)
             p == [q EXCEPT ![i] = e]
  <2>3. q \in Seq(Paragraph) /\ i \in 1..Len(q) /\ Good(sections[s])
    BY SectionOf
  <2>4. PaginateIfNeeded(With(s, RecomposedSection(Having(sections[s], p)))) /\ UNCHANGED <<batch, revision>>
    BY <2>2, EditedHaving
  <2>5. e \in Paragraph
    BY DEF Paragraph
  <2> HIDE DEF e, q
  <2>6. p \in Seq(Paragraph) /\ Len(p) = Len(q)
    BY <2>3, <2>5, Changing
  <2> HIDE DEF p
  <2>7. p # <<>>
    BY <2>3, <2>6, EmptySeq
  <2>8. Touched(RecomposedSection(Having(sections[s], p)), sections[s])
    BY <2>3, <2>6, <2>7, Recomposing
  <2> QED
    BY <2>4, <2>8, Editing
<1>13. CASE BeginBatch
  BY <1>0, <1>13 DEF BeginBatch, Inv, TypeOK, AllGood, JobIsFresh, TargetStaysMarked, Revisions,
                     Shows, Republished, Paras, Paged, Quiet
<1>14. CASE EndBatch
  <2>1. Paginate(sections) /\ revision' \in Nat /\ batch' \in BOOLEAN
    BY <1>0, <1>14 DEF EndBatch
  <2> QED
    BY <2>1, PaginatingAll, ClearShows
<1>15. CASE BeginDeferredPagination
  <2>1. job' = NewJob /\ UNCHANGED <<sections, firstPage, batch, revision, descriptor>>
    BY <1>15 DEF BeginDeferredPagination
  <2>2. NewJob # None => /\ Committable(NewJob) /\ NewJob.target = descriptor /\ ~NewJob.missed
                         /\ descriptor # None
    BY Starting
  <2>3. Shows
    BY <2>1 DEF Shows, Republished
  <2>4. TypeOK' /\ AllGood' /\ TargetStaysMarked'
    BY <2>1, <2>2 DEF Inv, TypeOK, AllGood, TargetStaysMarked, Committable
  <2>5. JobIsFresh' /\ Revisions'
    BY <2>1, <2>2 DEF Inv, JobIsFresh, Revisions, Committable, Paras
  <2> QED
    BY <2>1, <2>3, <2>4, <2>5 DEF Inv, Paged, Quiet
<1>16. CASE StepDeferredPagination
  <2>1. CASE Current(job.target)
    <3>1. job # None /\ Commit(job) /\ UNCHANGED <<batch, revision>>
      BY <1>16, <2>1 DEF StepDeferredPagination
    <3> QED
      BY <2>1, <3>1, RunningCommittable, Committing, ClearShows
  <2>2. CASE ~Current(job.target)
    <3>1. job' = None /\ UNCHANGED <<sections, firstPage, descriptor, batch, revision>>
      BY <1>16, <2>2 DEF StepDeferredPagination
    <3> QED
      BY <3>1 DEF Inv, TypeOK, AllGood, JobIsFresh, TargetStaysMarked, Revisions, Shows, Republished,
                  Paged, Quiet
  <2> QED
    BY <2>1, <2>2
<1>17. CASE CancelDeferredPagination
  BY <1>17 DEF CancelDeferredPagination, Inv, TypeOK, AllGood, JobIsFresh, TargetStaysMarked,
               Revisions, Shows, Republished, Paged, Quiet
<1>18. CASE FlushDeferredPagination
  BY <1>18, Flushing, ClearShows
<1>19. CASE UNCHANGED vars
  BY <1>19, Stuttering
<1> QED
  BY <1>1, <1>2, <1>3, <1>4, <1>5, <1>6, <1>7, <1>8, <1>9, <1>10, <1>11, <1>12, <1>13, <1>14,
     <1>15, <1>16, <1>17, <1>18, <1>19 DEF Next
-----------------------------------------------------------------------------
(* The results *)

LEMMA Invariant == Spec => []Inv
<1>1. Init => Inv
  BY InitInv
<1>2. Inv /\ [Next]_vars => Inv'
  BY Preserving
<1> QED
  BY <1>1, <1>2, PTL DEF Spec

\* Types: no edit, batch or job makes a state of another shape.
THEOREM TypeCorrect == Spec => []TypeOK
<1>1. Inv => TypeOK
  BY DEF Inv
<1> QED
  BY <1>1, Invariant, PTL

\* The pages of a section without a mark are those of its paragraphs, unless it
\* lost a mark; a job's measurements are those of the table it is for.
THEOREM PagesFollow == Spec => []PagesFollowEdits
<1>1. Inv => PagesFollowEdits
  BY DEF Inv, PagesFollowEdits, PagesAreFresh, AllGood, Good, Sound, Paras
<1> QED
  BY <1>1, Invariant, PTL

\* Pages change only to all the pages of the section as it is then, and a flush
\* leaves nothing marked and nothing pending.
THEOREM Publishes == Spec => PublishesWhole
<1> DEFINE Whole == /\ \A s \in DOMAIN sections' :
                         Republished(s) => ~sections'[s].dirty /\ (sections'[s].lost \/ Fresh(s)')
                    /\ FlushDeferredPagination =>
                         /\ \A s \in DOMAIN sections' : ~sections'[s].dirty
                         /\ descriptor' = None /\ job' = None
<1>1. Inv /\ [Next]_vars => [Whole]_vars
  <2> SUFFICES ASSUME Inv, [Next]_vars PROVE Whole
    OBVIOUS
  <2>1. Inv' /\ Shows
    BY Preserving
  <2>2. ASSUME NEW s \in DOMAIN sections', Republished(s)
        PROVE  ~sections'[s].dirty /\ (sections'[s].lost \/ Fresh(s)')
    <3>1. ~sections'[s].dirty /\ Good(sections'[s])
      BY <2>1, <2>2 DEF Shows, Inv, AllGood
    <3> QED
      BY <3>1 DEF Good, Sound, Fresh, Paras
  <2>3. ASSUME FlushDeferredPagination
        PROVE  /\ \A s \in DOMAIN sections' : ~sections'[s].dirty
               /\ descriptor' = None /\ job' = None
    BY <2>3, Flushing DEF AllClear
  <2> QED
    BY <2>2, <2>3
<1> QED
  BY <1>1, Invariant, PTL DEF Spec, PublishesWhole
-----------------------------------------------------------------------------
(* Page numbers *)

\* A non-empty set of natural numbers has a least element.
LEMMA Least ==
  ASSUME NEW T, T \subseteq Nat, T # {}
  PROVE  \E x \in T : \A y \in T : x <= y
<1>1. \E x \in T : \A y \in T : ~(<<y, x>> \in OpToRel(<, Nat))
  BY NatLessThanWellFounded, WFMin
<1>2. ASSUME NEW x \in T, NEW y \in T, y < x
      PROVE  <<y, x>> \in OpToRel(<, Nat)
  <2>1. <<y, x>> \in Nat \X Nat
    BY <1>2
  <2> DEFINE s == <<y, x>>
  <2>2. s[1] < s[2]
    BY <1>2
  <2> QED
    BY <2>1, <2>2, <1>2 DEF OpToRel
<1>3. PICK x \in T : \A y \in T : ~(y < x)
  BY <1>1, <1>2
<1>4. \A y \in T : x <= y
  BY <1>3
<1> QED
  BY <1>4

\* f counts the pages up to paragraph n.
IsCount(pages, n, f) == f = [i \in 0..n |-> IF i = 0 THEN 0 ELSE f[i - 1] + pages[i]]

LEMMA CountGrows ==
  ASSUME NEW pages, NEW n \in Nat, n > 0, NEW g, IsCount(pages, n - 1, g)
  PROVE  \E f : IsCount(pages, n, f)
<1> DEFINE f == [i \in 0..n |-> IF i = n THEN g[n - 1] + pages[n] ELSE g[i]]
<1>1. \A i \in 0..n : i # 0 => i - 1 \in 0..n - 1
  OBVIOUS
<1>2. \A i \in 0..n : i # n => i \in 0..n - 1
  OBVIOUS
<1>3. \A i \in 0..n - 1 : f[i] = g[i]
  OBVIOUS
<1>4. \A i \in 0..n - 1 : g[i] = IF i = 0 THEN 0 ELSE g[i - 1] + pages[i]
  BY DEF IsCount
<1>5. ASSUME NEW i \in 0..n PROVE f[i] = IF i = 0 THEN 0 ELSE f[i - 1] + pages[i]
  <2>1. CASE i = n
    <3>1. f[i] = g[n - 1] + pages[n] /\ f[i - 1] = g[n - 1] /\ i # 0
      BY <1>1, <1>3, <2>1
    <3> HIDE DEF f
    <3> QED
      BY <2>1, <3>1
  <2>2. CASE i # n /\ i # 0
    <3>1. i \in 0..n - 1 /\ i - 1 \in 0..n - 1
      BY <1>1, <1>2, <2>2
    <3> HIDE DEF f
    <3> QED
      BY <1>3, <1>4, <2>2, <3>1
  <2>3. CASE i # n /\ i = 0
    BY <1>2, <1>4, <2>3
  <2> QED
    BY <2>1, <2>2, <2>3
<1>6. f = [i \in 0..n |-> f[i]]
  OBVIOUS
<1> HIDE DEF f
<1>7. IsCount(pages, n, f)
  BY <1>5, <1>6 DEF IsCount
<1> QED
  BY <1>7

\* Pages are counted with natural numbers.
LEMMA CountIs ==
  ASSUME NEW pages \in Seq(Nat)
  PROVE  Count(pages) \in Nat
<1> DEFINE Stops == {n \in Nat : \A f : ~IsCount(pages, n, f)}
<1>0. Len(pages) \in Nat /\ \A i \in 1..Len(pages) : pages[i] \in Nat
  BY LenProperties, ElementOfSeq
<1>1. Stops = {}
  <2> SUFFICES ASSUME Stops # {} PROVE FALSE
    OBVIOUS
  <2>1. PICK n \in Stops : \A m \in Stops : n <= m
    BY Least
  <2>2. CASE n = 0
    <3> DEFINE g == [i \in 0..0 |-> 0]
    <3>1. \A i \in 0..0 : i = 0
      OBVIOUS
    <3>2. IsCount(pages, 0, g)
      BY <3>1 DEF IsCount
    <3> QED
      BY <2>1, <2>2, <3>2
  <2>3. CASE n # 0
    <3>1. n \in Nat /\ n > 0 /\ n - 1 \in Nat /\ ~(n <= n - 1)
      BY <2>1, <2>3
    <3>2. PICK g : IsCount(pages, n - 1, g)
      BY <2>1, <3>1
    <3> QED
      BY <2>1, <3>1, <3>2, CountGrows
  <2> QED
    BY <2>2, <2>3
<1> DEFINE upTo == CHOOSE f : IsCount(pages, Len(pages), f)
<1>2. IsCount(pages, Len(pages), upTo)
  <2>1. \E f : IsCount(pages, Len(pages), f)
    BY <1>0, <1>1
  <2> QED
    BY <2>1
<1>3. Count(pages) = upTo[Len(pages)]
  BY DEF Count, IsCount
<1> HIDE DEF upTo
<1> DEFINE Bad == {i \in 0..Len(pages) : upTo[i] \notin Nat}
<1>4. Bad = {}
  <2> SUFFICES ASSUME Bad # {} PROVE FALSE
    OBVIOUS
  <2>0. Bad \subseteq Nat
    BY <1>0
  <2>1. PICK i \in Bad : \A j \in Bad : i <= j
    BY <2>0, Least
  <2>2. upTo[i] = IF i = 0 THEN 0 ELSE upTo[i - 1] + pages[i]
    BY <1>2, <2>1 DEF IsCount
  <2>3. i # 0
    BY <2>1, <2>2
  <2>4. i - 1 \in 0..Len(pages) /\ ~(i <= i - 1) /\ i \in 1..Len(pages)
    BY <1>0, <2>1, <2>3
  <2>5. upTo[i - 1] \in Nat
    BY <2>1, <2>4
  <2> QED
    BY <1>0, <2>1, <2>2, <2>3, <2>4, <2>5
<1> QED
  BY <1>0, <1>3, <1>4

\* f holds the last page numbers up to section n.
IsNumbering(xs, n, f) ==
  f = [s \in 0..n |->
        IF s = 0 THEN 0
        ELSE IF xs[s].dirty
             THEN (IF xs[s].restarts THEN 0 ELSE f[s - 1]) + Count(Laid(xs[s]).pages)
             ELSE firstPage[s] - 1 + Count(xs[s].pages)]

LEMMA NumberingGrows ==
  ASSUME NEW xs, NEW n \in Nat, n > 0, NEW g, IsNumbering(xs, n - 1, g)
  PROVE  \E f : IsNumbering(xs, n, f)
<1> DEFINE e(s, last) == IF xs[s].dirty
                         THEN (IF xs[s].restarts THEN 0 ELSE last) + Count(Laid(xs[s]).pages)
                         ELSE firstPage[s] - 1 + Count(xs[s].pages)
           f == [s \in 0..n |-> IF s = n THEN e(n, g[n - 1]) ELSE g[s]]
<1>1. \A s \in 0..n : s # 0 => s - 1 \in 0..n - 1
  OBVIOUS
<1>2. \A s \in 0..n : s # n => s \in 0..n - 1
  OBVIOUS
<1>3. \A s \in 0..n - 1 : f[s] = g[s]
  OBVIOUS
<1>4. \A s \in 0..n - 1 : g[s] = IF s = 0 THEN 0 ELSE e(s, g[s - 1])
  BY DEF IsNumbering
<1>5. ASSUME NEW s \in 0..n PROVE f[s] = IF s = 0 THEN 0 ELSE e(s, f[s - 1])
  <2> HIDE DEF e
  <2>1. CASE s = n
    <3>1. f[s] = e(n, g[n - 1]) /\ f[s - 1] = g[n - 1] /\ s # 0
      BY <1>1, <1>3, <2>1
    <3> HIDE DEF f
    <3> QED
      BY <2>1, <3>1
  <2>2. CASE s # n /\ s # 0
    <3>1. s \in 0..n - 1 /\ s - 1 \in 0..n - 1
      BY <1>1, <1>2, <2>2
    <3> HIDE DEF f
    <3> QED
      BY <1>3, <1>4, <2>2, <3>1
  <2>3. CASE s # n /\ s = 0
    BY <1>2, <1>4, <2>3
  <2> QED
    BY <2>1, <2>2, <2>3
<1>6. f = [s \in 0..n |-> f[s]]
  OBVIOUS
<1> HIDE DEF f
<1>7. IsNumbering(xs, n, f)
  BY <1>5, <1>6 DEF IsNumbering
<1> QED
  BY <1>7

\* The last page number of a section, from the one before it.
LEMMA LastPageIs ==
  ASSUME NEW xs, Len(xs) \in Nat
  PROVE  /\ LastPages(xs)[0] = 0
         /\ \A s \in 1..Len(xs) :
              LastPages(xs)[s] =
                IF xs[s].dirty
                THEN (IF xs[s].restarts THEN 0 ELSE LastPages(xs)[s - 1]) + Count(Laid(xs[s]).pages)
                ELSE firstPage[s] - 1 + Count(xs[s].pages)
<1> DEFINE Stops == {n \in Nat : \A f : ~IsNumbering(xs, n, f)}
<1>1. Stops = {}
  <2> SUFFICES ASSUME Stops # {} PROVE FALSE
    OBVIOUS
  <2>1. PICK n \in Stops : \A m \in Stops : n <= m
    BY Least
  <2>2. CASE n = 0
    <3> DEFINE g == [s \in 0..0 |-> 0]
    <3>1. \A s \in 0..0 : s = 0
      OBVIOUS
    <3>2. IsNumbering(xs, 0, g)
      BY <3>1 DEF IsNumbering
    <3> QED
      BY <2>1, <2>2, <3>2
  <2>3. CASE n # 0
    <3>1. n \in Nat /\ n > 0 /\ n - 1 \in Nat /\ ~(n <= n - 1)
      BY <2>1, <2>3
    <3>2. PICK g : IsNumbering(xs, n - 1, g)
      BY <2>1, <3>1
    <3> QED
      BY <2>1, <3>1, <3>2, NumberingGrows
  <2> QED
    BY <2>2, <2>3
<1>2. \E f : IsNumbering(xs, Len(xs), f)
  BY <1>1
<1>3. IsNumbering(xs, Len(xs), LastPages(xs))
  BY <1>2 DEF IsNumbering, LastPages
<1> DEFINE L == LastPages(xs)
<1> HIDE DEF L
<1>4. L = [s \in 0..Len(xs) |->
            IF s = 0 THEN 0
            ELSE IF xs[s].dirty
                 THEN (IF xs[s].restarts THEN 0 ELSE L[s - 1]) + Count(Laid(xs[s]).pages)
                 ELSE firstPage[s] - 1 + Count(xs[s].pages)]
  BY <1>3 DEF IsNumbering, L
<1>5. L[0] = 0
  BY <1>4
<1>6. ASSUME NEW s \in 1..Len(xs)
      PROVE  L[s] = IF xs[s].dirty
                    THEN (IF xs[s].restarts THEN 0 ELSE L[s - 1]) + Count(Laid(xs[s]).pages)
                    ELSE firstPage[s] - 1 + Count(xs[s].pages)
  <2>1. s \in 0..Len(xs) /\ s # 0
    OBVIOUS
  <2> QED
    BY <1>4, <2>1
<1> QED
  BY <1>5, <1>6 DEF L

\* Every section has a first page.
Numbered == DOMAIN firstPage = DOMAIN sections /\ \A s \in DOMAIN sections : firstPage[s] \in Nat \ {0}

\* A section's pages are counted with natural numbers, and it stays one that
\* restarts the numbers or one that does not.
LEMMA PagesCounted ==
  ASSUME NEW x \in SectionState, Ready(x)
  PROVE  Count(x.pages) \in Nat /\ Count(Laid(x).pages) \in Nat /\ Laid(x).restarts = x.restarts
<1>1. ASSUME NEW y \in SectionState PROVE Count(y.pages) \in Nat
  <2>1. y.pages \in Seq(Heights \cup {0}) /\ Heights \cup {0} \subseteq Nat
    BY RepaginationAssumption DEF SectionState
  <2>2. Len(y.pages) \in Nat /\ \A i \in 1..Len(y.pages) : y.pages[i] \in Nat
    BY <2>1, LenProperties, ElementOfSeq
  <2>3. y.pages \in [1..Len(y.pages) -> Nat]
    BY <2>1, <2>2, LenProperties
  <2>4. y.pages \in Seq(Nat)
    BY <2>2, <2>3, Sequence
  <2> QED
    BY <2>4, CountIs
<1>2. Laid(x) \in SectionState
  BY Laying DEF Ready, Good
<1>3. Laid(x).restarts = x.restarts
  BY DEF Laid, Published, SectionState
<1> QED
  BY <1>1, <1>2, <1>3

\* The last pages are numbers, where the sections that keep theirs have first pages.
LEMMA LastPagesTyped ==
  ASSUME NEW xs \in Seq(SectionState), \A s \in DOMAIN xs : Ready(xs[s]),
         \A s \in DOMAIN xs : ~xs[s].dirty => firstPage[s] \in Nat \ {0}
  PROVE  \A s \in 0..Len(xs) : LastPages(xs)[s] \in Nat
<1>0. Len(xs) \in Nat /\ DOMAIN xs = 1..Len(xs) /\ \A s \in 1..Len(xs) : xs[s] \in SectionState
  BY LenProperties, ElementOfSeq
<1> DEFINE Bad == {s \in 0..Len(xs) : LastPages(xs)[s] \notin Nat}
<1> SUFFICES ASSUME Bad # {} PROVE FALSE
  OBVIOUS
<1>1. Bad \subseteq Nat
  BY <1>0
<1>2. PICK s \in Bad : \A t \in Bad : s <= t
  BY <1>1, Least
<1>3. s # 0
  BY <1>0, <1>2, LastPageIs
<1>4. s \in 1..Len(xs) /\ s - 1 \in 0..Len(xs) /\ ~(s <= s - 1)
  BY <1>0, <1>2, <1>3
<1>5. LastPages(xs)[s - 1] \in Nat
  BY <1>2, <1>4
<1>6. Count(xs[s].pages) \in Nat /\ Count(Laid(xs[s]).pages) \in Nat
  BY <1>0, <1>4, PagesCounted
<1>7. LastPages(xs)[s] = IF xs[s].dirty
        THEN (IF xs[s].restarts THEN 0 ELSE LastPages(xs)[s - 1]) + Count(Laid(xs[s]).pages)
        ELSE firstPage[s] - 1 + Count(xs[s].pages)
  BY <1>0, <1>4, LastPageIs
<1>8. ~xs[s].dirty => firstPage[s] \in Nat \ {0}
  BY <1>0, <1>4
<1> QED
  BY <1>2, <1>5, <1>6, <1>7, <1>8

\* A pagination numbers the sections it lays out after those before them.
LEMMA PaginateNumbers ==
  ASSUME Inv, Numbered, NEW xs, Paginate(xs), Kept(xs)
  PROVE  /\ Numbered'
         /\ \A s \in DOMAIN sections' :
              (s \notin DOMAIN sections \/ sections[s].dirty) =>
                firstPage'[s] = IF s = 1 \/ sections'[s].restarts THEN 1
                                ELSE firstPage'[s - 1] + Count(sections'[s - 1].pages)
<1>0. /\ xs \in Seq(SectionState) /\ Len(xs) \in Nat /\ DOMAIN xs = 1..Len(xs)
      /\ \A s \in 1..Len(xs) : xs[s] \in SectionState /\ Ready(xs[s])
  BY LenProperties, ElementOfSeq DEF Kept
<1>1. /\ sections' = [s \in DOMAIN xs |-> Laid(xs[s])]
      /\ firstPage' = [s \in DOMAIN xs |->
           IF xs[s].dirty THEN 1 + (IF xs[s].restarts THEN 0 ELSE LastPages(xs)[s - 1])
           ELSE firstPage[s]]
  BY DEF Paginate
<1>2. \A s \in 1..Len(xs) : ~xs[s].dirty =>
        s \in DOMAIN sections /\ ~sections[s].dirty /\ firstPage[s] \in Nat \ {0}
  BY <1>0 DEF Kept, Numbered
<1> DEFINE L == LastPages(xs)
<1>3. \A s \in 0..Len(xs) : L[s] \in Nat
  BY <1>0, <1>2, LastPagesTyped
<1>4. L[0] = 0
  BY <1>0, LastPageIs
<1>5. \A s \in 1..Len(xs) :
        L[s] = IF xs[s].dirty
               THEN (IF xs[s].restarts THEN 0 ELSE L[s - 1]) + Count(Laid(xs[s]).pages)
               ELSE firstPage[s] - 1 + Count(xs[s].pages)
  BY <1>0, LastPageIs
<1> HIDE DEF L
<1>6. \A s \in 1..Len(xs) :
        firstPage'[s] = IF xs[s].dirty THEN 1 + (IF xs[s].restarts THEN 0 ELSE L[s - 1])
                        ELSE firstPage[s]
  BY <1>0, <1>1 DEF L
\* The last page of a section is its first and those it has, less one.
<1>7. ASSUME NEW s \in 1..Len(xs)
      PROVE  /\ firstPage'[s] \in Nat \ {0} /\ Count(sections'[s].pages) \in Nat
             /\ L[s] = firstPage'[s] - 1 + Count(sections'[s].pages)
  <2>1. sections'[s] = Laid(xs[s])
    BY <1>0, <1>1
  <2>2. Count(xs[s].pages) \in Nat /\ Count(Laid(xs[s]).pages) \in Nat
    BY <1>0, PagesCounted
  <2>3. s - 1 \in 0..Len(xs)
    BY <1>0
  <2>4. L[s - 1] \in Nat
    BY <1>3, <2>3
  <2>5. CASE xs[s].dirty
    <3> DEFINE p == IF xs[s].restarts THEN 0 ELSE L[s - 1]
    <3>1. p \in Nat
      BY <2>4
    <3>2. L[s] = p + Count(Laid(xs[s]).pages) /\ firstPage'[s] = 1 + p
      BY <1>5, <1>6, <2>5
    <3> HIDE DEF p
    <3> QED
      BY <2>1, <2>2, <3>1, <3>2
  <2>6. CASE ~xs[s].dirty
    <3>1. Laid(xs[s]) = xs[s]
      BY <2>6 DEF Laid
    <3>2. firstPage'[s] = firstPage[s] /\ firstPage[s] \in Nat \ {0}
      BY <1>2, <1>6, <2>6
    <3>3. L[s] = firstPage[s] - 1 + Count(xs[s].pages)
      BY <1>5, <2>6
    <3> QED
      BY <2>1, <2>2, <3>1, <3>2, <3>3
  <2> QED
    BY <2>5, <2>6
<1>8. DOMAIN sections' = 1..Len(xs) /\ DOMAIN firstPage' = 1..Len(xs)
  BY <1>0, <1>1
<1>9. ASSUME NEW s \in 1..Len(xs), s \notin DOMAIN sections \/ sections[s].dirty
      PROVE  firstPage'[s] = IF s = 1 \/ sections'[s].restarts THEN 1
                             ELSE firstPage'[s - 1] + Count(sections'[s - 1].pages)
  <2>1. xs[s].dirty
    BY <1>2, <1>9
  <2>2. sections'[s].restarts = xs[s].restarts
    BY <1>0, <1>1, PagesCounted
  <2>3. firstPage'[s] = 1 + (IF xs[s].restarts THEN 0 ELSE L[s - 1])
    BY <1>6, <2>1
  <2>4. CASE s = 1 \/ xs[s].restarts
    BY <1>4, <2>2, <2>3, <2>4
  <2>5. CASE ~(s = 1 \/ xs[s].restarts)
    <3> DEFINE r == s - 1
    <3>1. r \in 1..Len(xs)
      BY <1>0, <2>5
    <3> HIDE DEF r
    <3>2. /\ firstPage'[r] \in Nat \ {0} /\ Count(sections'[r].pages) \in Nat
          /\ L[r] = firstPage'[r] - 1 + Count(sections'[r].pages)
      BY <1>7, <3>1
    <3>3. firstPage'[s] = 1 + L[r]
      BY <2>3, <2>5 DEF r
    <3>4. firstPage'[s] = firstPage'[r] + Count(sections'[r].pages)
      BY <3>2, <3>3
    <3> QED
      BY <2>2, <2>5, <3>4 DEF r
  <2> QED
    BY <2>4, <2>5
<1>10. Numbered'
  BY <1>7, <1>8 DEF Numbered
<1> QED
  BY <1>8, <1>9, <1>10

LEMMA InitNumbers == Init => Numbered
<1> SUFFICES ASSUME Init PROVE Numbered
  OBVIOUS
<1>1. PICK d \in Documents :
        /\ sections = [s \in DOMAIN d |-> Laid(Opened(d)[s])]
        /\ firstPage = [s \in DOMAIN d |->
             1 + (IF d[s].restarts THEN 0 ELSE LastPages(Opened(d))[s - 1])]
  BY DEF Init
<1> DEFINE xs == Opened(d)
<1>2. xs \in Seq(SectionState) /\ (\A s \in DOMAIN xs : Ready(xs[s]))
  BY Opening
<1>3. DOMAIN xs = DOMAIN d /\ \A s \in DOMAIN xs : xs[s].dirty
  BY DEF Opened
<1> HIDE DEF xs
<1>4. Len(xs) \in Nat /\ DOMAIN xs = 1..Len(xs)
  BY <1>2, LenProperties
<1>5. \A s \in 0..Len(xs) : LastPages(xs)[s] \in Nat
  BY <1>2, <1>3, LastPagesTyped
<1>6. ASSUME NEW s \in DOMAIN xs PROVE firstPage[s] \in Nat \ {0}
  <2>1. s - 1 \in 0..Len(xs)
    BY <1>4
  <2>2. LastPages(xs)[s - 1] \in Nat
    BY <1>5, <2>1
  <2>3. firstPage[s] = 1 + (IF d[s].restarts THEN 0 ELSE LastPages(xs)[s - 1])
    BY <1>1, <1>3 DEF xs
  <2> QED
    BY <2>2, <2>3
<1> QED
  BY <1>1, <1>3, <1>6 DEF Numbered

LEMMA NextNumbers ==
  ASSUME Inv, Numbered, [Next]_vars
  PROVE  /\ Numbered'
         /\ \A s \in DOMAIN sections' :
              (s \notin DOMAIN sections \/ sections[s].dirty) /\ ~sections'[s].dirty =>
                firstPage'[s] = IF s = 1 \/ sections'[s].restarts THEN 1
                                ELSE firstPage'[s - 1] + Count(sections'[s - 1].pages)
<1>1. CASE \E xs : Paginate(xs) /\ Kept(xs)
  BY <1>1, PaginateNumbers
<1>2. CASE Quiet
  BY <1>2 DEF Quiet, Numbered
<1>3. CASE DOMAIN sections = {1} /\ \E j : Commit(j)
  <2>1. DOMAIN sections' = {1} /\ firstPage' = [firstPage EXCEPT ![1] = 1]
    BY <1>3 DEF Commit, With
  <2>2. DOMAIN firstPage' = {1} /\ firstPage'[1] = 1
    BY <1>3, <2>1 DEF Numbered
  <2> QED
    BY <2>1, <2>2 DEF Numbered
<1> QED
  BY <1>1, <1>2, <1>3, Preserving DEF Paged

\* A section that is laid out gets the numbers after those of the section before
\* it, whichever of the two an edit touched.
THEOREM NumbersRunOn == Spec => NumbersContinue
<1> DEFINE Continue == \A s \in DOMAIN sections' :
       (s \notin DOMAIN sections \/ sections[s].dirty) /\ ~sections'[s].dirty =>
         firstPage'[s] = IF s = 1 \/ sections'[s].restarts THEN 1
                         ELSE firstPage'[s - 1] + Count(sections'[s - 1].pages)
<1>1. Inv /\ Numbered /\ [Next]_vars => Numbered' /\ [Continue]_vars
  <2> SUFFICES ASSUME Inv, Numbered, [Next]_vars PROVE Numbered' /\ Continue
    OBVIOUS
  <2> QED
    BY NextNumbers
<1> QED
  BY <1>1, InitNumbers, Invariant, PTL DEF Spec, NumbersContinue
=============================================================================
