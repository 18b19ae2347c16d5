---------------------------- MODULE ToJsonProofs ----------------------------
(***************************************************************************)
(* Theorems about ToJson, for every directory of documents, whatever         *)
(* headings, tables and pictures they hold and however many writes fail.    *)
(***************************************************************************)
EXTENDS ToJson, WellFoundedInduction, TLAPS

-----------------------------------------------------------------------------
(* Lists and functions.                                                     *)

LEMMA ListFacts ==
  ASSUME NEW s, IsList(s)
  PROVE  /\ Len(s) \in Nat
         /\ DOMAIN s = 1 .. Len(s)
         /\ s = [k \in 1 .. Len(s) |-> s[k]]
         /\ \A k \in 1 .. Len(s) : s[k] \in ToSet(s)
<1> DEFINE S == ToSet(s)
<1>1. s \in Seq(S)
  BY DEF IsList
<1>2. Len(s) \in Nat /\ DOMAIN s = 1 .. Len(s) /\ s = [k \in 1 .. Len(s) |-> s[k]]
  <2> HIDE DEF S
  <2> QED
    BY <1>1
<1> QED
  BY <1>2 DEF ToSet

LEMMA ListIs ==
  ASSUME NEW n \in Nat, NEW s, s = [k \in 1 .. n |-> s[k]]
  PROVE  IsList(s) /\ Len(s) = n
<1> DEFINE S == ToSet(s)
<1>1. s \in [1 .. n -> S]
  <2>1. \A k \in 1 .. n : s[k] \in S
    BY DEF ToSet
  <2> HIDE DEF S
  <2> QED
    BY <2>1
<1>2. s \in Seq(S) /\ Len(s) = n
  <2> HIDE DEF S
  <2> QED
    BY <1>1
<1> QED
  BY <1>2 DEF IsList

LEMMA ConcatList ==
  ASSUME NEW s, NEW t, IsList(s), IsList(t)
  PROVE  /\ IsList(s \o t)
         /\ Len(s \o t) = Len(s) + Len(t)
         /\ \A k \in 1 .. Len(s) : (s \o t)[k] = s[k]
         /\ \A k \in 1 .. Len(t) : (s \o t)[Len(s) + k] = t[k]
<1> DEFINE S == ToSet(s) \cup ToSet(t)
<1>1. s \in Seq(S) /\ t \in Seq(S)
  <2>1. \A T, U : T \subseteq U => \A x \in Seq(T) : x \in Seq(U)
    OBVIOUS
  <2>2. ToSet(s) \subseteq S /\ ToSet(t) \subseteq S
    OBVIOUS
  <2> HIDE DEF S
  <2> QED
    BY <2>1, <2>2 DEF IsList
<1> HIDE DEF S
<1>2. /\ s \o t \in Seq(S)
      /\ Len(s \o t) = Len(s) + Len(t)
      /\ \A k \in 1 .. Len(s) : (s \o t)[k] = s[k]
      /\ \A k \in 1 .. Len(t) : (s \o t)[Len(s) + k] = t[k]
  BY <1>1
<1> DEFINE u == s \o t
<1>3. Len(u) \in Nat /\ u = [k \in 1 .. Len(u) |-> u[k]]
  <2>1. u \in Seq(S)
    BY <1>2
  <2> HIDE DEF u
  <2> QED
    BY <2>1
<1>4. IsList(s \o t)
  <2> HIDE DEF u
  <2>1. IsList(u)
    BY <1>3, ListIs
  <2> QED
    BY <2>1 DEF u
<1> QED
  BY <1>2, <1>4

LEMMA AppendList ==
  ASSUME NEW s, NEW x, IsList(s)
  PROVE  /\ IsList(Append(s, x))
         /\ Len(Append(s, x)) = Len(s) + 1
         /\ \A k \in 1 .. Len(s) : Append(s, x)[k] = s[k]
         /\ Append(s, x)[Len(s) + 1] = x
<1> DEFINE S == ToSet(s) \cup {x}
<1>1. s \in Seq(S) /\ x \in S
  <2>1. \A T, U : T \subseteq U => \A y \in Seq(T) : y \in Seq(U)
    OBVIOUS
  <2>2. ToSet(s) \subseteq S /\ x \in S
    OBVIOUS
  <2> HIDE DEF S
  <2> QED
    BY <2>1, <2>2 DEF IsList
<1> HIDE DEF S
<1>2. /\ Append(s, x) \in Seq(S)
      /\ Len(Append(s, x)) = Len(s) + 1
      /\ \A k \in 1 .. Len(s) : Append(s, x)[k] = s[k]
      /\ Append(s, x)[Len(s) + 1] = x
  BY <1>1
<1> DEFINE u == Append(s, x)
<1>3. Len(u) \in Nat /\ u = [k \in 1 .. Len(u) |-> u[k]]
  <2>1. u \in Seq(S)
    BY <1>2
  <2> HIDE DEF u
  <2> QED
    BY <2>1
<1>4. IsList(Append(s, x))
  <2> HIDE DEF u
  <2>1. IsList(u)
    BY <1>3, ListIs
  <2> QED
    BY <2>1 DEF u
<1> QED
  BY <1>2, <1>4

LEMMA FrontList ==
  ASSUME NEW s, IsList(s), NEW n \in 0 .. Len(s)
  PROVE  /\ IsList(SubSeq(s, 1, n))
         /\ Len(SubSeq(s, 1, n)) = n
         /\ \A k \in 1 .. n : SubSeq(s, 1, n)[k] = s[k]
<1> DEFINE S == ToSet(s)
<1>1. s \in Seq(S)
  BY DEF IsList
<1> HIDE DEF S
<1>2. /\ SubSeq(s, 1, n) \in Seq(S)
      /\ Len(SubSeq(s, 1, n)) = n
      /\ \A k \in 1 .. n : SubSeq(s, 1, n)[k] = s[k]
  BY <1>1
<1>3. n \in Nat /\ SubSeq(s, 1, n) = [k \in 1 .. n |-> SubSeq(s, 1, n)[k]]
  BY <1>2
<1>4. IsList(SubSeq(s, 1, n))
  BY <1>3, ListIs
<1> QED
  BY <1>2, <1>4

LEMMA EmptyList == IsList(<< >>) /\ Len(<< >>) = 0 /\ DOMAIN << >> = {}
<1> DEFINE e == << >>
<1>1. e = [k \in 1 .. 0 |-> e[k]] /\ 1 .. 0 = {}
  OBVIOUS
<1> HIDE DEF e
<1>2. IsList(e) /\ Len(e) = 0
  BY <1>1, ListIs
<1> QED
  BY <1>1, <1>2, ListFacts DEF e

\* g is f but for the value v at x.
IsSet(g, f, x, v) ==
  /\ DOMAIN g = DOMAIN f \cup {x}
  /\ g[x] = v
  /\ \A y \in DOMAIN f : y # x => g[y] = f[y]

LEMMA SetIs ==
  ASSUME NEW f, NEW x, NEW v
  PROVE  IsSet(Set(f, x, v), f, x, v)
  BY DEF Set, IsSet

\* A non-empty set of natural numbers has a least element.
LEMMA Least ==
  ASSUME NEW T, T \subseteq Nat, T # {}
  PROVE  \E x \in T : \A y \in T : ~(y < x)
<1>1. \E x \in T : \A y \in T : ~(<<y, x>> \in OpToRel(<, Nat))
  BY NatLessThanWellFounded, WFMin
<1>2. ASSUME NEW x \in T, NEW y \in T, y < x
      PROVE  <<y, x>> \in OpToRel(<, Nat)
  <2>1. <<y, x>> \in Nat \X Nat
    BY <1>2
  <2> DEFINE s == <<y, x>>
  <2>2. s[1] < s[2]
    BY <1>2
  <2> QED
    BY <2>1, <2>2, <1>2 DEF OpToRel
<1> QED
  BY <1>1, <1>2
-----------------------------------------------------------------------------
(* Where the run is.                                                        *)

\* While a document is converted, para and ctl point into it or behind it.
PlaceInv ==
  /\ tree \in Trees
  /\ shared \in BOOLEAN /\ overwrite \in BOOLEAN /\ anyError \in BOOLEAN
  /\ at \in 1 .. (Len(tree) + 1)
  /\ pc \in {"next", "convert", "write"}
  /\ pc # "next" => at <= Len(tree)
  /\ pc = "convert" =>
       /\ para \in Nat \ {0} /\ ctl \in Nat \ {0}
       /\ para <= Len(Doc.paras) => ctl = 1 \/ ctl <= Len(Para.controls)

LEMMA TreeFacts ==
  ASSUME tree \in Trees
  PROVE  /\ Len(tree) \in Nat
         /\ DOMAIN tree = 1 .. Len(tree)
         /\ \A n \in 1 .. Len(tree) : IsDocument(tree[n])
<1>1. IsList(tree) /\ \A d \in ToSet(tree) : IsDocument(d)
  BY TreeAssumption
<1> QED
  BY <1>1, ListFacts

\* The paragraph and the control that the Converter is at.
LEMMA PlaceFacts ==
  ASSUME PlaceInv, InPara
  PROVE  /\ Para.level \in 0 .. 6
         /\ IsList(Para.controls)
         /\ Para.controls # << >> => ctl \in 1 .. Len(Para.controls) /\ IsControl(Ctl)
<1>1. at \in 1 .. Len(tree)
  BY TreeFacts DEF PlaceInv, InPara
<1>2. IsDocument(Doc)
  BY <1>1, TreeFacts DEF PlaceInv, Doc
<1>3. para \in 1 .. Len(Doc.paras) /\ IsList(Doc.paras)
  <2>1. IsList(Doc.paras)
    BY <1>2 DEF IsDocument
  <2> QED
    BY <2>1, ListFacts DEF PlaceInv, InPara
<1>4. Para \in ToSet(Doc.paras)
  BY <1>3, ListFacts DEF Para
<1>5. /\ Para.level \in 0 .. 6
      /\ IsList(Para.controls) /\ \A c \in ToSet(Para.controls) : IsControl(c)
  BY <1>2, <1>4 DEF IsDocument
<1>6. ASSUME Para.controls # << >> PROVE ctl \in 1 .. Len(Para.controls) /\ IsControl(Ctl)
  <2> DEFINE s == Para.controls
  <2>1. Len(s) \in Nat /\ s = [k \in 1 .. Len(s) |-> s[k]]
    BY <1>5, ListFacts
  <2>2. Len(s) # 0
    <3> HIDE DEF s
    <3>1. Len(s) = 0 => s = << >>
      BY <2>1
    <3> QED
      BY <1>6, <3>1 DEF s
  <2>3. ctl \in 1 .. Len(s)
    BY <2>1, <2>2 DEF PlaceInv, InPara
  <2>4. s[ctl] \in ToSet(s)
    BY <1>5, <2>3, ListFacts
  <2> QED
    BY <1>5, <2>3, <2>4 DEF Ctl
<1> QED
  BY <1>5, <1>6

\* The steps of the Converter.
Converts == TextParagraph \/ Note \/ OtherControl \/ Table \/ PictureWritten \/ PictureNotWritten

LEMMA ConvertsPlace ==
  ASSUME PlaceInv, Converts
  PROVE  /\ PlaceInv' /\ InPara /\ Advance
         /\ UNCHANGED <<tree, shared, overwrite, at, pc, jsons, anyError>>
<1>1. /\ InPara /\ Advance
      /\ UNCHANGED <<tree, shared, overwrite, at, pc, jsons, anyError>>
  BY DEF Converts, TextParagraph, Note, OtherControl, Table, PictureWritten,
         PictureNotWritten, Picture, AtControl
<1>2. pc = "convert" /\ para \in Nat \ {0} /\ ctl \in Nat \ {0} /\ Len(Para.controls) \in Nat
  BY <1>1, PlaceFacts, ListFacts DEF InPara, PlaceInv
<1>3. CASE ctl < Len(Para.controls)
  <2>1. ctl' = ctl + 1 /\ para' = para /\ Doc' = Doc /\ Para' = Para
    BY <1>1, <1>3 DEF Advance, Doc, Para
  <2>2. ctl' \in Nat \ {0} /\ ctl' <= Len(Para.controls)
    BY <1>2, <1>3, <2>1
  <2> QED
    BY <1>1, <1>2, <2>1, <2>2 DEF PlaceInv
<1>4. CASE ~(ctl < Len(Para.controls))
  <2>1. ctl' = 1 /\ para' \in Nat \ {0}
    BY <1>1, <1>2, <1>4 DEF Advance
  <2> QED
    BY <1>1, <2>1 DEF PlaceInv
<1> QED
  BY <1>1, <1>3, <1>4

\* The steps between the conversions.
LEMMA NextPlace == PlaceInv /\ [Next]_vars => PlaceInv'
<1> SUFFICES ASSUME PlaceInv, [Next]_vars PROVE PlaceInv'
  OBVIOUS
<1>0. Len(tree) \in Nat
  BY TreeFacts DEF PlaceInv
<1>1. ASSUME ToNext, at <= Len(tree), UNCHANGED <<tree, shared, overwrite>>,
             anyError' \in BOOLEAN
      PROVE  PlaceInv'
  BY <1>0, <1>1 DEF PlaceInv, ToNext
<1>2. CASE Skip \/ Unreadable
  BY <1>1, <1>2 DEF Skip, Unreadable, Begins, PlaceInv
<1>3. CASE Begin
  BY <1>3 DEF Begin, Begins, PlaceInv
<1>4. CASE Converts
  BY <1>4, ConvertsPlace
<1>5. CASE FillNearText
  BY <1>5 DEF FillNearText, PlaceInv
<1>6. CASE WriteJson \/ WriteJsonFails
  BY <1>1, <1>6 DEF WriteJson, WriteJsonFails, PlaceInv
<1>7. CASE UNCHANGED vars
  BY <1>7 DEF vars, converter, PlaceInv, Doc, Para
<1> QED
  BY <1>2, <1>3, <1>4, <1>5, <1>6, <1>7 DEF Next, Converts, Done

LEMMA InitPlace == Init => PlaceInv
<1> SUFFICES ASSUME Init PROVE PlaceInv
  OBVIOUS
<1>1. Len(tree) \in Nat
  BY TreeFacts DEF Init
<1> QED
  <2>1. shared \in BOOLEAN /\ overwrite \in BOOLEAN
    BY TreeAssumption, Zenon DEF Init
  <2>2. /\ tree \in Trees /\ pc = "next" /\ at \in 1 .. (Len(tree) + 1)
        /\ anyError = FALSE
    BY <1>1 DEF Init
  <2> QED
    BY <2>1, <2>2 DEF PlaceInv
-----------------------------------------------------------------------------
(* What is on disk.                                                         *)

\* The assets as are those of document d, and their files hold their images
\* unless writing them failed.
Right(d, as) == \A i \in DOMAIN as :
  /\ as[i].path = <<d.name, i>>
  /\ \/ as[i].path \in failed
     \/ as[i].path \in DOMAIN files /\ files[as[i].path] = as[i].sha

\* The documents that are done.
Past == 1 .. at - 1

FileInv ==
  /\ \A x \in DOMAIN jsons : \E n \in Past : tree[n].name = x
  /\ ~anyError => \A n \in Past : Single(n) =>
       tree[n].name \in DOMAIN jsons /\ jsons[tree[n].name].of = n
  /\ ~shared =>
       /\ pc # "next" => Right(Doc, assets)
       /\ \A n \in Past : Single(n) /\ tree[n].name \in DOMAIN jsons =>
            Right(tree[n], jsons[tree[n].name].assets)

\* A document whose name no other has has no JSON file before its turn.
LEMMA NotYet ==
  ASSUME PlaceInv, FileInv, at <= Len(tree), Single(at)
  PROVE  /\ Doc.name \notin DOMAIN jsons
         /\ \A n \in Past : tree[n].name # Doc.name
<1>1. at \in 1 .. Len(tree) /\ Len(tree) \in Nat /\ DOMAIN tree = 1 .. Len(tree)
  BY TreeFacts DEF PlaceInv
<1>2. \A n \in Past : n \in DOMAIN tree /\ n # at
  BY <1>1 DEF Past
<1> QED
  BY <1>1, <1>2 DEF FileInv, Single, Doc

\* The turn of a document ends: of the JSON files only its own may have changed.
LEMMA TurnEnds ==
  ASSUME PlaceInv, FileInv, at <= Len(tree), ToNext,
         UNCHANGED <<tree, shared, files, failed>>,
         DOMAIN jsons \subseteq DOMAIN jsons',
         DOMAIN jsons' \subseteq DOMAIN jsons \cup {Doc.name},
         \A x \in DOMAIN jsons : x # Doc.name => jsons'[x] = jsons[x],
         ~anyError' => ~anyError,
         ~anyError' /\ Single(at) => Doc.name \in DOMAIN jsons' /\ jsons'[Doc.name].of = at,
         ~shared /\ Single(at) /\ Doc.name \in DOMAIN jsons' =>
           Right(Doc, jsons'[Doc.name].assets)
  PROVE  FileInv'
<1>1. at \in 1 .. Len(tree) /\ Len(tree) \in Nat /\ DOMAIN tree = 1 .. Len(tree)
  BY TreeFacts DEF PlaceInv
<1>2. Past' = Past \cup {at}
  BY <1>1 DEF Past, ToNext
<1>3. \A n : Single(n)' <=> Single(n)
  BY DEF Single
<1>4. \A d, as : Right(d, as)' <=> Right(d, as)
  BY DEF Right
<1>5. ASSUME NEW n \in Past, Single(n)
      PROVE  /\ tree[n].name # Doc.name
             /\ tree[n].name \in DOMAIN jsons <=> tree[n].name \in DOMAIN jsons'
             /\ tree[n].name \in DOMAIN jsons => jsons'[tree[n].name] = jsons[tree[n].name]
  <2>1. at \in DOMAIN tree /\ at # n
    BY <1>1 DEF Past
  <2>2. tree[n].name # Doc.name
    BY <1>5, <2>1 DEF Single, Doc
  <2> QED
    BY <2>2
<1>6. \A x \in DOMAIN jsons' : \E n \in Past' : tree'[n].name = x
  BY <1>2 DEF FileInv, Doc
<1>7. ASSUME ~anyError', NEW n \in Past', Single(n)'
      PROVE  tree'[n].name \in DOMAIN jsons' /\ jsons'[tree'[n].name].of = n
  <2>1. CASE n = at
    BY <1>3, <1>7, <2>1 DEF Doc
  <2>2. CASE n \in Past
    <3>1. tree[n].name \in DOMAIN jsons /\ jsons[tree[n].name].of = n
      BY <1>3, <1>7, <2>2 DEF FileInv
    <3> QED
      BY <1>3, <1>5, <1>7, <2>2, <3>1
  <2> QED
    BY <1>2, <2>1, <2>2
<1>8. ASSUME ~shared', NEW n \in Past', Single(n)', tree'[n].name \in DOMAIN jsons'
      PROVE  Right(tree[n], jsons'[tree[n].name].assets)
  <2>1. CASE n = at
    BY <1>3, <1>8, <2>1 DEF Doc
  <2>2. CASE n \in Past
    <3>1. tree[n].name \in DOMAIN jsons /\ jsons'[tree[n].name] = jsons[tree[n].name]
      BY <1>3, <1>5, <1>8, <2>2
    <3> QED
      BY <1>3, <1>8, <2>2, <3>1 DEF FileInv
  <2> QED
    BY <1>2, <2>1, <2>2
<1>9. pc' = "next"
  BY DEF ToNext
<1>10. ~shared' => \A n \in Past' : Single(n)' /\ tree'[n].name \in DOMAIN jsons' =>
         Right(tree[n], jsons[tree[n].name].assets)'
  <2> SUFFICES ASSUME ~shared', NEW n \in Past', Single(n)', tree'[n].name \in DOMAIN jsons'
               PROVE  Right(tree[n], jsons[tree[n].name].assets)'
    OBVIOUS
  <2>1. Right(tree[n], jsons'[tree[n].name].assets)
    BY <1>8
  <2> QED
    BY <2>1 DEF Right
<1> QED
  BY <1>6, <1>7, <1>9, <1>10 DEF FileInv

\* A picture writes to a file that no asset has yet, in the directory of its
\* document.
LEMMA PictureFiles ==
  ASSUME PlaceInv, FileInv, NEW writes \in BOOLEAN, Picture(writes)
  PROVE  FileInv'
<1>0. /\ UNCHANGED <<tree, shared, at, pc, jsons, anyError>>
      /\ pc = "convert" /\ at \in 1 .. Len(tree) /\ DOMAIN tree = 1 .. Len(tree)
      /\ Past' = Past
  BY TreeFacts DEF Picture, AtControl, InPara, PlaceInv, Past
<1>1. CASE ~NewAsset
  <2>1. UNCHANGED <<assets, files, failed>>
    BY <1>1 DEF Picture
  <2> QED
    BY <1>0, <2>1 DEF FileInv, Right, Single, Doc
<1>2. CASE shared
  BY <1>0, <1>2 DEF FileInv, Single
<1>3. CASE NewAsset /\ ~shared
  <2> DEFINE path == <<Doc.name, Ctl.image>>
             content == Doc.images[Ctl.image]
  <2>1. /\ Ctl.image \notin DOMAIN assets
        /\ assets' = Set(assets, Ctl.image, [path |-> path, sha |-> content])
        /\ \/ files' = Set(files, path, content) /\ failed' = failed
           \/ /\ files' = files \/ files' = Set(files, path, Partial)
              /\ failed' = failed \cup {path}
    BY <1>3 DEF Picture, NewAsset, ImagesOf
  <2>2. /\ DOMAIN files \subseteq DOMAIN files' /\ failed \subseteq failed'
        /\ \A f \in DOMAIN files : f # path => files'[f] = files[f]
        /\ path \in failed' \/ (path \in DOMAIN files' /\ files'[path] = content)
    <3> HIDE DEF path, content
    <3>1. \/ IsSet(files', files, path, content) /\ failed' = failed
          \/ /\ files' = files \/ IsSet(files', files, path, Partial)
             /\ failed' = failed \cup {path}
      BY <2>1, SetIs
    <3> QED
      BY <3>1 DEF IsSet
  <2>3. ASSUME NEW d, NEW as, Right(d, as), \A i \in DOMAIN as : as[i].path # path
        PROVE  \A i \in DOMAIN as :
                 /\ as[i].path = <<d.name, i>>
                 /\ \/ as[i].path \in failed'
                    \/ as[i].path \in DOMAIN files' /\ files'[as[i].path] = as[i].sha
    BY <2>2, <2>3 DEF Right
  <2>4. Right(Doc, assets)'
    <3>1. Right(Doc, assets)
      BY <1>0, <1>3 DEF FileInv
    <3>2. \A i \in DOMAIN assets : assets[i].path # path
      BY <2>1, <3>1 DEF Right
    <3>3. /\ DOMAIN assets' = DOMAIN assets \cup {Ctl.image}
          /\ assets'[Ctl.image] = [path |-> path, sha |-> content]
          /\ \A i \in DOMAIN assets : assets'[i] = assets[i]
      <4> DEFINE asset == [path |-> path, sha |-> content]
                 i == Ctl.image
      <4>1. i \notin DOMAIN assets /\ assets' = Set(assets, i, asset)
        BY <2>1
      <4> HIDE DEF path, content, asset, i
      <4>2. IsSet(assets', assets, i, asset)
        BY <4>1, SetIs
      <4>3. /\ DOMAIN assets' = DOMAIN assets \cup {i}
            /\ assets'[i] = asset
            /\ \A k \in DOMAIN assets : assets'[k] = assets[k]
        BY <4>1, <4>2 DEF IsSet
      <4> QED
        BY <4>3 DEF i, asset
    <3>4. Doc' = Doc
      BY <1>0 DEF Doc
    <3>5. \A i \in DOMAIN assets :
            /\ assets[i].path = <<Doc.name, i>>
            /\ \/ assets[i].path \in failed'
               \/ assets[i].path \in DOMAIN files' /\ files'[assets[i].path] = assets[i].sha
      BY <2>3, <3>1, <3>2
    <3>6. \A i \in DOMAIN assets' :
            /\ assets'[i].path = <<Doc.name, i>>
            /\ \/ assets'[i].path \in failed'
               \/ assets'[i].path \in DOMAIN files' /\ files'[assets'[i].path] = assets'[i].sha
      <4> SUFFICES ASSUME NEW i \in DOMAIN assets'
                   PROVE  /\ assets'[i].path = <<Doc.name, i>>
                          /\ \/ assets'[i].path \in failed'
                             \/ /\ assets'[i].path \in DOMAIN files'
                                /\ files'[assets'[i].path] = assets'[i].sha
        OBVIOUS
      <4>1. CASE i \in DOMAIN assets
        BY <3>3, <3>5, <4>1
      <4>2. CASE i = Ctl.image
        <5>1. assets'[i].path = path /\ assets'[i].sha = content
          BY <3>3, <4>2, SMTT(30)
        <5> QED
          BY <2>2, <4>2, <5>1
      <4> QED
        BY <3>3, <4>1, <4>2
    <3> QED
      BY <3>4, <3>6 DEF Right
  <2>5. ASSUME NEW n \in Past, Single(n), tree[n].name \in DOMAIN jsons
        PROVE  Right(tree[n], jsons[tree[n].name].assets)'
    <3> DEFINE as == jsons[tree[n].name].assets
    <3>1. Right(tree[n], as)
      BY <1>3, <2>5 DEF FileInv
    <3>2. tree[n].name # Doc.name
      <4>1. at \in DOMAIN tree /\ at # n
        BY <1>0 DEF Past
      <4> QED
        BY <2>5, <4>1 DEF Single, Doc
    <3>3. \A i \in DOMAIN as : as[i].path # path
      BY <3>1, <3>2 DEF Right
    <3>4. \A i \in DOMAIN as :
            /\ as[i].path = <<tree[n].name, i>>
            /\ \/ as[i].path \in failed'
               \/ as[i].path \in DOMAIN files' /\ files'[as[i].path] = as[i].sha
      <4> DEFINE d == tree[n]
      <4>1. Right(d, as) /\ \A i \in DOMAIN as : as[i].path # path
        BY <3>1, <3>3
      <4> HIDE DEF as, d, path
      <4>2. \A i \in DOMAIN as :
              /\ as[i].path = <<d.name, i>>
              /\ \/ as[i].path \in failed'
                 \/ as[i].path \in DOMAIN files' /\ files'[as[i].path] = as[i].sha
        BY <2>3, <4>1
      <4> QED
        BY <4>2 DEF d
    <3> QED
      BY <1>0, <3>4 DEF Right
  <2>6. \A n : Single(n)' <=> Single(n)
    BY <1>0 DEF Single
  <2> HIDE DEF path, content
  <2> QED
    BY <1>0, <2>4, <2>5, <2>6 DEF FileInv
<1> QED
  BY <1>1, <1>2, <1>3

LEMMA NextFiles == PlaceInv /\ FileInv /\ [Next]_vars => FileInv'
<1> SUFFICES ASSUME PlaceInv, FileInv, [Next]_vars PROVE FileInv'
  OBVIOUS
<1>1. CASE Skip
  <2>1. ~Single(at)
    BY <1>1, NotYet DEF Skip
  <2> QED
    BY <1>1, <2>1, TurnEnds DEF Skip
<1>2. CASE Unreadable
  <2>1. Single(at) => Doc.name \notin DOMAIN jsons
    BY <1>2, NotYet DEF Unreadable, Begins
  <2> QED
    BY <1>2, <2>1, TurnEnds DEF Unreadable, Begins
<1>3. CASE Begin
  <2>1. /\ UNCHANGED <<tree, shared, at, jsons, files, failed, anyError>>
        /\ DOMAIN assets' = {}
    BY <1>3, EmptyList DEF Begin
  <2> QED
    BY <2>1 DEF FileInv, Right, Single, Past
<1>4. CASE TextParagraph \/ Note \/ OtherControl \/ Table \/ FillNearText
  <2>1. /\ UNCHANGED <<tree, shared, at, assets, jsons, files, failed, anyError>>
        /\ pc # "next"
    BY <1>4 DEF TextParagraph, Note, OtherControl, Table, FillNearText, AtControl, InPara
  <2> QED
    BY <2>1 DEF FileInv, Right, Single, Past, Doc
<1>5. CASE PictureWritten \/ PictureNotWritten
  BY <1>5, PictureFiles DEF PictureWritten, PictureNotWritten
<1>6. CASE WriteJson
  <2> DEFINE new == [of |-> at, assets |-> assets]
  <2>1. /\ jsons' = Set(jsons, Doc.name, new) /\ pc = "write" /\ ToNext
        /\ UNCHANGED <<tree, shared, files, failed, anyError>>
    BY <1>6 DEF WriteJson
  <2>2. /\ DOMAIN jsons' = DOMAIN jsons \cup {Doc.name}
        /\ jsons'[Doc.name].of = at /\ jsons'[Doc.name].assets = assets
        /\ \A x \in DOMAIN jsons : x # Doc.name => jsons'[x] = jsons[x]
    <3>1. new.of = at /\ new.assets = assets
      OBVIOUS
    <3> HIDE DEF new
    <3>2. IsSet(jsons', jsons, Doc.name, new)
      BY <2>1, SetIs
    <3> QED
      BY <3>1, <3>2 DEF IsSet
  <2>3. at <= Len(tree) /\ (~shared => Right(Doc, assets))
    BY <2>1 DEF PlaceInv, FileInv
  <2> QED
    BY <2>1, <2>2, <2>3, TurnEnds
<1>7. CASE WriteJsonFails
  <2> DEFINE none == [of |-> 0, assets |-> << >>]
  <2>1. /\ jsons' = jsons \/ jsons' = Set(jsons, Doc.name, none)
        /\ pc = "write" /\ ToNext /\ anyError' = TRUE
        /\ UNCHANGED <<tree, shared, files, failed>>
    BY <1>7 DEF WriteJsonFails
  <2>2. at <= Len(tree)
    BY <2>1 DEF PlaceInv
  <2>3. CASE jsons' = jsons
    <3>1. Single(at) => Doc.name \notin DOMAIN jsons
      BY <2>2, NotYet
    <3> QED
      BY <2>1, <2>2, <2>3, <3>1, TurnEnds
  <2>4. CASE jsons' = Set(jsons, Doc.name, none)
    <3>1. none.assets = << >>
      OBVIOUS
    <3> HIDE DEF none
    <3>2. /\ DOMAIN jsons' = DOMAIN jsons \cup {Doc.name}
          /\ jsons'[Doc.name].assets = << >>
          /\ \A x \in DOMAIN jsons : x # Doc.name => jsons'[x] = jsons[x]
      <4>1. IsSet(jsons', jsons, Doc.name, none)
        BY <2>4, SetIs
      <4> QED
        BY <3>1, <4>1 DEF IsSet
    <3>3. Right(Doc, << >>)
      BY EmptyList DEF Right
    <3> QED
      BY <2>1, <2>2, <3>2, <3>3, TurnEnds
  <2> QED
    BY <2>1, <2>3, <2>4
<1>8. CASE UNCHANGED vars
  BY <1>8 DEF vars, converter, FileInv, Right, Single, Past, Doc
<1> QED
  BY <1>1, <1>2, <1>3, <1>4, <1>5, <1>6, <1>7, <1>8 DEF Next, Done

LEMMA InitFiles == Init => FileInv
<1> SUFFICES ASSUME Init PROVE FileInv
  OBVIOUS
<1>1. DOMAIN jsons = {} /\ Past = {} /\ pc = "next"
  BY EmptyList DEF Init, Past
<1> QED
  BY <1>1 DEF FileInv

LEMMA FilesMean == PlaceInv /\ FileInv => FilesMatch
<1> SUFFICES ASSUME PlaceInv, FileInv PROVE FilesMatch
  OBVIOUS
<1>1. Len(tree) \in Nat /\ DOMAIN tree = 1 .. Len(tree)
  BY TreeFacts DEF PlaceInv
<1>2. ASSUME NEW n \in DOMAIN tree, Single(n), tree[n].name \in DOMAIN jsons
      PROVE  n \in Past
  <2>1. PICK m \in Past : tree[m].name = tree[n].name
    BY <1>2 DEF FileInv
  <2>2. m \in DOMAIN tree
    BY <1>1 DEF Past, PlaceInv
  <2> QED
    BY <1>2, <2>1, <2>2 DEF Single
<1>3. ImagesMatch
  <2> SUFFICES ASSUME ~shared, NEW n \in DOMAIN tree, Single(n), tree[n].name \in DOMAIN jsons
               PROVE  Right(tree[n], jsons[tree[n].name].assets)
    BY DEF ImagesMatch, Right, Asset
  <2> QED
    BY <1>2 DEF FileInv
<1>4. ExitZeroConverts
  <2> SUFFICES ASSUME Finished, ~anyError, NEW n \in DOMAIN tree, Single(n)
               PROVE  n \in Past
    BY DEF ExitZeroConverts, FileInv
  <2>1. at = Len(tree) + 1
    BY <1>1 DEF Finished, PlaceInv
  <2> QED
    BY <1>1, <2>1 DEF Past
<1> QED
  BY <1>3, <1>4 DEF FilesMatch

\* Without --image-dir every JSON file has its own images to the end of the run,
\* and a run that exits 0 has written one for every document that shares its name
\* with no other.
THEOREM FilesAgree == Spec => []FilesMatch
<1>1. Init => PlaceInv /\ FileInv
  BY InitPlace, InitFiles
<1>2. (PlaceInv /\ FileInv) /\ [Next]_vars => (PlaceInv /\ FileInv)'
  BY NextPlace, NextFiles
<1> QED
  BY <1>1, <1>2, FilesMean, PTL DEF Spec
-----------------------------------------------------------------------------
(* The grid of a table.                                                     *)

\* The text of the cell that starts at a slot, if any.
FirstText(t, r, k) ==
  LET first == {n \in DOMAIN t.cells : t.cells[n].row = r /\ t.cells[n].col = k}
  IN IF first = {} THEN "" ELSE t.cells[CHOOSE n \in first : TRUE].text

\* Of cells that do not overlap, a slot has the text of the one that starts
\* there.
LEMMA SlotIs ==
  ASSUME NEW t, IsControl(t), t.kind = "table", Apart(t),
         NEW r \in 0 .. t.rows - 1, NEW k \in 0 .. t.cols - 1
  PROVE  Slot(t, r, k) = FirstText(t, r, k)
<1> DEFINE first == {n \in DOMAIN t.cells : t.cells[n].row = r /\ t.cells[n].col = k}
           here == {n \in DOMAIN t.cells : IF t.gridded THEN Spans(t.cells[n], r, k)
                                                        ELSE Fills(t.cells[n], r, k)}
           last == CHOOSE n \in here : \A m \in here : m <= n
<1>1. /\ DOMAIN t.cells \subseteq Nat
      /\ \A n \in DOMAIN t.cells : IsCell(t.cells[n])
  <2>1. IsList(t.cells) /\ \A c \in ToSet(t.cells) : IsCell(c)
    BY DEF IsControl
  <2> QED
    BY <2>1, ListFacts
<1>2. \A n \in DOMAIN t.cells :
        /\ n \in first <=> Fills(t.cells[n], r, k)
        /\ Fills(t.cells[n], r, k) => Spans(t.cells[n], r, k)
  <2> SUFFICES ASSUME NEW n \in DOMAIN t.cells
               PROVE  /\ n \in first <=> Fills(t.cells[n], r, k)
                      /\ Fills(t.cells[n], r, k) => Spans(t.cells[n], r, k)
    OBVIOUS
  <2> DEFINE c == t.cells[n]
  <2>1. IsCell(c) /\ (n \in first <=> c.row = r /\ c.col = k)
    BY <1>1
  <2> HIDE DEF c, first
  <2>2. c.row = r /\ c.col = k => Spans(c, r, k)
    BY <2>1 DEF Spans, IsCell
  <2> QED
    BY <2>1, <2>2 DEF Fills, c
<1>3. \A m, n \in DOMAIN t.cells :
        Spans(t.cells[m], r, k) /\ Spans(t.cells[n], r, k) => m = n
  BY DEF Apart
<1>4. \A n \in here : n \in DOMAIN t.cells /\ Spans(t.cells[n], r, k)
  BY <1>2
<1>5. \A m, n \in here : m = n
  BY <1>3, <1>4
<1>6. first \subseteq here
  BY <1>2
<1>7. Slot(t, r, k) = IF here = {} \/ ~Fills(t.cells[last], r, k) THEN "" ELSE t.cells[last].text
  BY DEF Slot
<1>8. ASSUME NEW x \in here PROVE last = x
  <2>1. here = {x} /\ x \in Nat
    BY <1>1, <1>4, <1>5, <1>8
  <2> HIDE DEF here
  <2>2. \E n \in here : \A m \in here : m <= n
    BY <2>1
  <2> QED
    BY <2>1, <2>2
<1>9. CASE first = {}
  <2>1. here # {} => ~Fills(t.cells[last], r, k)
    BY <1>2, <1>4, <1>8, <1>9
  <2> QED
    BY <1>7, <1>9, <2>1 DEF FirstText
<1>10. CASE first # {}
  <2>1. PICK x \in first : TRUE
    BY <1>10
  <2>2. last = x /\ x \in here /\ Fills(t.cells[x], r, k)
    BY <1>2, <1>6, <1>8
  <2>3. (CHOOSE n \in first : TRUE) = x
    BY <1>5, <1>6, <2>1
  <2>4. FirstText(t, r, k) = IF first = {} THEN "" ELSE t.cells[CHOOSE n \in first : TRUE].text
    BY DEF FirstText
  <2> HIDE DEF first, here, last
  <2> QED
    BY <1>7, <1>10, <2>2, <2>3, <2>4
<1> QED
  BY <1>9, <1>10
-----------------------------------------------------------------------------
(* The blocks so far.                                                       *)

\* A table's block is of a table of the document, and has its slots.
Gridded(b) == b.type = "table" =>
  /\ IsControl(b.of) /\ b.of.kind = "table"
  /\ b.grid = [r \in 1 .. b.of.rows |-> [k \in 1 .. b.of.cols |-> Slot(b.of, r - 1, k - 1)]]

\* What may be read of a block whatever its type.
Shaped(b) ==
  /\ b.type = "heading" => b.level \in Nat
  /\ b.type = "image" => b = [x \in DOMAIN b |-> b[x]] /\ {"type", "id", "path"} \subseteq DOMAIN b

Fine(i) == Gridded(blocks[i]) /\ Shaped(blocks[i]) /\ UnderHeadings(i) /\ Refers(i)

\* The stack of headings is that of the headings over whatever comes next, from
\* the highest level to the lowest.
Stacks(list, above) ==
  /\ list \in [1 .. Len(headings) -> above]
  /\ \A h \in above : \E k \in 1 .. Len(headings) : list[k] = h
  /\ \A k, l \in 1 .. Len(headings) : k < l => list[k] < list[l]
  /\ \A k \in 1 .. Len(headings) :
       /\ headings[k].text = blocks[list[k]].text
       /\ headings[k].level = blocks[list[k]].level

StackInv ==
  /\ IsList(headings)
  /\ \A k \in 1 .. Len(headings) : headings[k].level \in Nat
  /\ \A k, l \in 1 .. Len(headings) : k < l => headings[k].level < headings[l].level
  /\ \E list : Stacks(list, Above(counter))

Ids == {blocks[n].id : n \in DOMAIN blocks}

BlockInv ==
  /\ IsList(blocks)
  /\ counter = Len(blocks)
  /\ Ids = 1 .. counter
  /\ \A i \in 1 .. counter : Fine(i)
  /\ StackInv

\* The blocks there were stay, but for what an image is told of its
\* surroundings.
Alike(b, c) ==
  /\ b.type = c.type /\ b.id = c.id /\ b.path = c.path
  /\ b.type # "image" => b = c
  /\ Shaped(c)

Extends ==
  /\ IsList(blocks') /\ Len(blocks) <= Len(blocks')
  /\ \A n \in 1 .. Len(blocks) : Alike(blocks[n], blocks'[n])

\* Nothing that comes later changes what a block is under or refers to.
LEMMA StayFine ==
  ASSUME BlockInv, Extends
  PROVE  /\ \A i \in 1 .. Len(blocks) : Fine(i)'
         /\ \A i \in 0 .. Len(blocks) : Above(i)' = Above(i)
<1>1. Len(blocks) \in Nat /\ DOMAIN blocks = 1 .. Len(blocks)
      /\ Len(blocks') \in Nat /\ DOMAIN blocks' = 1 .. Len(blocks')
  BY ListFacts DEF BlockInv, Extends
<1>2. \A n \in 1 .. Len(blocks) :
        /\ n \in 1 .. Len(blocks')
        /\ blocks'[n].type = blocks[n].type /\ blocks'[n].id = blocks[n].id
        /\ blocks'[n].path = blocks[n].path
        /\ blocks[n].type # "image" => blocks'[n] = blocks[n]
        /\ Shaped(blocks'[n])
  BY <1>1 DEF Extends, Alike
<1>3. ASSUME NEW i \in 0 .. Len(blocks) PROVE Above(i)' = Above(i)
  <2>1. ASSUME NEW h \in 1 .. i PROVE Over(h, i)' <=> Over(h, i)
    <3>1. h \in 1 .. Len(blocks) /\ \A n \in (h + 1) .. i : n \in 1 .. Len(blocks)
      BY <1>1, <2>1
    <3>2. /\ blocks'[h].type = "heading" <=> blocks[h].type = "heading"
          /\ blocks[h].type = "heading" => blocks'[h].level = blocks[h].level
      BY <1>2, <3>1
    <3>3. \A n \in (h + 1) .. i :
            /\ blocks'[n].type = "heading" <=> blocks[n].type = "heading"
            /\ blocks[n].type = "heading" => blocks'[n].level = blocks[n].level
      BY <1>2, <3>1
    <3> QED
      BY <3>2, <3>3 DEF Over
  <2> QED
    BY <2>1 DEF Above
<1>4. ASSUME NEW i \in 1 .. Len(blocks) PROVE Fine(i)'
  <2>1. Fine(i) /\ Above(i)' = Above(i)
    BY <1>1, <1>3 DEF BlockInv
  <2>2. \A h \in Above(i) : blocks'[h].text = blocks[h].text
    <3>1. \A h \in Above(i) : h \in 1 .. Len(blocks) /\ blocks[h].type = "heading"
      BY <1>1 DEF Above, Over
    <3> QED
      BY <1>2, <3>1
  <2>3. UnderHeadings(i)'
    <3> SUFFICES ASSUME blocks'[i].type \in {"heading", "paragraph", "table", "image", "caption"}
                 PROVE  Names(blocks[i].path, Above(i))'
      BY DEF UnderHeadings
    <3> DEFINE path == blocks[i].path
    <3>1. Names(path, Above(i)) /\ blocks'[i].path = path
      BY <1>2, <2>1 DEF Fine, UnderHeadings
    <3> DEFINE A == Above(i)
    <3>2. A' = A
      BY <2>1
    <3> HIDE DEF path, A
    <3>3. PICK list \in [DOMAIN path -> A] :
            /\ \A h \in A : \E k \in DOMAIN path : list[k] = h
            /\ \A k, l \in DOMAIN path : k < l => list[k] < list[l]
            /\ \A k \in DOMAIN path : path[k] = blocks[list[k]].text
      BY <3>1 DEF Names, A
    <3>4. \A k \in DOMAIN path : path[k] = blocks'[list[k]].text
      BY <2>2, <3>3 DEF A
    <3>5. path' = path
      BY <3>1 DEF path
    <3>6. Names(path, A)'
      BY <3>2, <3>3, <3>4, <3>5 DEF Names
    <3> QED
      BY <3>6 DEF path, A
  <2>4. Refers(i)'
    <3> SUFFICES ASSUME blocks'[i].type = "caption"
                 PROVE  /\ i + 1 \in DOMAIN blocks'
                        /\ blocks'[i + 1].type \in {"table", "image"}
                        /\ blocks'[i + 1].id = blocks'[i].ref
      BY DEF Refers
    <3>1. blocks[i].type = "caption" /\ blocks'[i] = blocks[i]
      BY <1>2
    <3>2. /\ i + 1 \in 1 .. Len(blocks)
          /\ blocks[i + 1].type \in {"table", "image"}
          /\ blocks[i + 1].id = blocks[i].ref
      BY <1>1, <2>1, <3>1 DEF Fine, Refers
    <3> QED
      BY <1>1, <1>2, <3>1, <3>2
  <2>5. Gridded(blocks'[i]) /\ Shaped(blocks'[i])
    BY <1>2, <2>1 DEF Fine, Gridded
  <2> QED
    BY <2>3, <2>4, <2>5 DEF Fine
<1> QED
  BY <1>3, <1>4

\* The stack gives the path of a block that comes after it.
LEMMA StackNames ==
  ASSUME StackInv'
  PROVE  Names(Titles(headings), Above(counter))'
<1> DEFINE path == Titles(headings')
           above == Above(counter)'
<1>1. /\ Len(headings') \in Nat /\ DOMAIN headings' = 1 .. Len(headings')
      /\ DOMAIN path = 1 .. Len(headings')
      /\ \A k \in 1 .. Len(headings') : path[k] = headings'[k].text
  <2>1. Len(headings') \in Nat /\ DOMAIN headings' = 1 .. Len(headings')
    BY ListFacts DEF StackInv
  <2> QED
    BY <2>1 DEF Titles
<1>2. PICK list : /\ list \in [1 .. Len(headings') -> above]
                  /\ \A h \in above : \E k \in 1 .. Len(headings') : list[k] = h
                  /\ \A k, l \in 1 .. Len(headings') : k < l => list[k] < list[l]
                  /\ \A k \in 1 .. Len(headings') : headings'[k].text = blocks'[list[k]].text
  BY DEF StackInv, Stacks
<1> HIDE DEF path, above
<1>3. \E l \in [DOMAIN path -> above] :
        /\ \A h \in above : \E k \in DOMAIN path : l[k] = h
        /\ \A j, k \in DOMAIN path : j < k => l[j] < l[k]
        /\ \A k \in DOMAIN path : path[k] = blocks'[l[k]].text
  <2>1. list \in [DOMAIN path -> above]
    BY <1>1, <1>2
  <2> WITNESS list \in [DOMAIN path -> above]
  <2> QED
    BY <1>1, <1>2
<1> QED
  BY <1>3 DEF Names, path, above

\* Blocks that are no headings are under what was over the last one before.
LEMMA AboveQuiet ==
  ASSUME NEW n \in Nat, NEW i \in Nat, n <= i,
         \A m \in n + 1 .. i : blocks'[m].type # "heading"
  PROVE  Above(i)' = Above(n)'
<1>1. ASSUME NEW h \in 1 .. i, Over(h, i)' PROVE h \in 1 .. n /\ Over(h, n)'
  <2>1. h \in 1 .. n
    BY <1>1 DEF Over
  <2>2. \A m \in (h + 1) .. n : m \in (h + 1) .. i
    BY <2>1
  <2> QED
    BY <1>1, <2>1, <2>2 DEF Over
<1>2. ASSUME NEW h \in 1 .. n, Over(h, n)' PROVE h \in 1 .. i /\ Over(h, i)'
  <2>1. \A m \in (h + 1) .. i : m \in (h + 1) .. n \/ m \in n + 1 .. i
    OBVIOUS
  <2> QED
    BY <1>2, <2>1 DEF Over
<1> QED
  BY <1>1, <1>2 DEF Above

\* A heading is under those of a higher level.
LEMMA AboveHeading ==
  ASSUME NEW n \in Nat, blocks'[n + 1].type = "heading", blocks'[n + 1].level \in Nat,
         \A h \in Above(n)' : blocks'[h].level \in Nat
  PROVE  Above(n + 1)' = {h \in Above(n)' : blocks'[h].level < blocks'[n + 1].level} \cup {n + 1}
<1> DEFINE i == n + 1
<1>1. ASSUME NEW h \in 1 .. i, Over(h, i)', h # i
      PROVE  h \in 1 .. n /\ Over(h, n)' /\ blocks'[i].level > blocks'[h].level
  <2>1. h \in 1 .. n /\ i \in (h + 1) .. i /\ \A m \in (h + 1) .. n : m \in (h + 1) .. i
    BY <1>1
  <2> QED
    BY <1>1, <2>1 DEF Over
<1>2. ASSUME NEW h \in 1 .. n, Over(h, n)', blocks'[i].level > blocks'[h].level
      PROVE  h \in 1 .. i /\ Over(h, i)'
  <2>1. \A m \in (h + 1) .. i : m \in (h + 1) .. n \/ m = i
    OBVIOUS
  <2> QED
    BY <1>2, <2>1 DEF Over
<1>3. i \in 1 .. i /\ Over(i, i)'
  BY DEF Over
<1>4. \A h \in Above(n)' :
        blocks'[h].level < blocks'[i].level <=> blocks'[i].level > blocks'[h].level
  OBVIOUS
<1> HIDE DEF i
<1>5. \A h : h \in Above(i)' <=> h \in 1 .. i /\ Over(h, i)'
  BY DEF Above
<1>6. \A h : h \in Above(n)' <=> h \in 1 .. n /\ Over(h, n)'
  BY DEF Above
<1>7. \A h : h \in Above(i)' <=> (h \in Above(n)' /\ blocks'[h].level < blocks'[i].level) \/ h = i
  BY <1>1, <1>2, <1>3, <1>4, <1>5, <1>6
<1> QED
  BY <1>7 DEF i

\* The step adds blocks that are no headings.
LEMMA QuietStep ==
  ASSUME BlockInv, Extends, UNCHANGED headings, counter' = Len(blocks'), Ids' = 1 .. counter',
         \A i \in Len(blocks) + 1 .. Len(blocks') :
           /\ blocks'[i].type # "heading"
           /\ blocks'[i].type \in {"paragraph", "table", "image", "caption"} =>
                blocks'[i].path = Titles(headings)
           /\ Gridded(blocks'[i]) /\ Shaped(blocks'[i]) /\ Refers(i)'
  PROVE  BlockInv'
<1>1. PICK n \in Nat : n = Len(blocks) /\ n = counter
  BY ListFacts DEF BlockInv
<1>2. PICK m \in Nat : m = Len(blocks') /\ m = counter' /\ n <= m
  BY <1>1, ListFacts DEF Extends
<1>3. (\A i \in 1 .. n : Fine(i)') /\ Above(n)' = Above(n)
  BY <1>1, StayFine
<1>4. \A i \in n .. m : Above(i)' = Above(n)'
  BY <1>1, <1>2, AboveQuiet
<1>5. Above(counter)' = Above(counter) /\ Above(counter)' = Above(n)'
  <2>1. Above(counter)' = Above(m)'
    BY <1>2 DEF Above
  <2>2. Above(counter) = Above(n)
    BY <1>1
  <2> QED
    BY <1>2, <1>3, <1>4, <2>1, <2>2
<1>6. StackInv'
  <2>1. PICK list : Stacks(list, Above(counter))
    BY DEF BlockInv, StackInv
  <2>2. \A h \in Above(counter) : blocks'[h] = blocks[h]
    <3>1. \A h \in Above(n) : h \in 1 .. n /\ blocks[h].type = "heading"
      BY DEF Above, Over
    <3> QED
      BY <1>1, <3>1 DEF Extends, Alike
  <2> DEFINE A == Above(counter)
  <2>3. A' = A
    BY <1>5
  <2> HIDE DEF A
  <2>4. Stacks(list, A)'
    BY <2>1, <2>2, <2>3 DEF Stacks, A
  <2>5. \E l : Stacks(l, Above(counter))'
    BY <2>4 DEF A
  <2> QED
    BY <2>5 DEF StackInv, BlockInv
<1>7. ASSUME NEW i \in n + 1 .. m PROVE Fine(i)'
  <2>1. Names(Titles(headings), Above(counter))'
    BY <1>6, StackNames
  <2>2. Above(i)' = Above(counter)' /\ Titles(headings)' = Titles(headings)
    BY <1>4, <1>5, <1>7 DEF Titles
  <2>3. UnderHeadings(i)'
    <3> SUFFICES ASSUME blocks'[i].type \in {"heading", "paragraph", "table", "image", "caption"}
                 PROVE  Names(blocks[i].path, Above(i))'
      BY DEF UnderHeadings
    <3>1. blocks'[i].path = Titles(headings)'
      BY <1>1, <1>2, <2>2
    <3> QED
      BY <2>1, <2>2, <3>1 DEF Names
  <2> QED
    BY <1>1, <1>2, <2>3 DEF Fine
<1>8. \A i \in 1 .. counter' : Fine(i)'
  BY <1>2, <1>3, <1>7
<1> QED
  BY <1>6, <1>8 DEF BlockInv, Extends

\* The headings that a new one leaves in place are those of a higher level.
LEMMA PushedIs ==
  ASSUME StackInv, NEW level \in Nat, NEW text
  PROVE  \E k \in 0 .. Len(headings) :
           /\ \A j \in 1 .. k : headings[j].level < level
           /\ \A j \in k + 1 .. Len(headings) : ~(headings[j].level < level)
           /\ IsList(Pushed(level, text)) /\ Len(Pushed(level, text)) = k + 1
           /\ \A j \in 1 .. k : Pushed(level, text)[j] = headings[j]
           /\ Pushed(level, text)[k + 1] = [level |-> level, text |-> text]
<1> DEFINE kept == {k \in 0 .. Len(headings) :
                      \A j \in (k + 1) .. Len(headings) : Ends(headings[j], level)}
           least == CHOOSE k \in kept : \A j \in kept : k <= j
<1>1. /\ Len(headings) \in Nat
      /\ \A k \in 1 .. Len(headings) : headings[k].level \in Nat
      /\ \A k, l \in 1 .. Len(headings) : k < l => headings[k].level < headings[l].level
  BY ListFacts DEF StackInv
<1>2. Len(headings) \in kept /\ kept \subseteq Nat
  BY <1>1
<1>3. \E k \in kept : \A j \in kept : k <= j
  <2>1. \E k \in kept : \A j \in kept : ~(j < k)
    BY <1>2, Least
  <2> HIDE DEF kept
  <2> QED
    BY <1>2, <2>1
<1>4. least \in kept /\ \A j \in kept : least <= j
  <2> HIDE DEF kept
  <2> QED
    BY <1>3
<1>5. Pushed(level, text) = Append(SubSeq(headings, 1, least), [level |-> level, text |-> text])
  BY DEF Pushed
<1>6. PICK k : k = least
  OBVIOUS
<1>7. k \in 0 .. Len(headings) /\ \A j \in (k + 1) .. Len(headings) : headings[j].level >= level
  BY <1>4, <1>6 DEF Ends
<1>8. k # 0 => headings[k].level < level
  <2> SUFFICES ASSUME k # 0, ~(headings[k].level < level) PROVE FALSE
    OBVIOUS
  <2>1. k \in 1 .. Len(headings) /\ headings[k].level >= level
    BY <1>1, <1>7
  <2>2. k - 1 \in 0 .. Len(headings) /\ \A j \in k .. Len(headings) : j = k \/ j \in (k + 1) .. Len(headings)
    BY <1>1, <2>1
  <2>3. \A j \in ((k - 1) + 1) .. Len(headings) : headings[j].level >= level
    BY <1>7, <2>1, <2>2
  <2>4. k - 1 \in kept
    BY <2>2, <2>3 DEF Ends
  <2> QED
    BY <1>4, <1>6, <2>1, <2>4, SMTT(60)
<1>9. \A j \in 1 .. k : headings[j].level < level
  BY <1>1, <1>7, <1>8, SMTT(30)
<1>10. \A j \in k + 1 .. Len(headings) : ~(headings[j].level < level)
  BY <1>1, <1>7
<1> DEFINE front == SubSeq(headings, 1, k)
           new == [level |-> level, text |-> text]
<1>11. IsList(front) /\ Len(front) = k /\ \A j \in 1 .. k : front[j] = headings[j]
  BY <1>7, FrontList DEF StackInv
<1>12. Pushed(level, text) = Append(front, new)
  BY <1>5, <1>6
<1> HIDE DEF front, new
<1>13. /\ IsList(Append(front, new)) /\ Len(Append(front, new)) = k + 1
       /\ \A j \in 1 .. k : Append(front, new)[j] = headings[j]
       /\ Append(front, new)[k + 1] = new
  BY <1>11, AppendList
<1> QED
  BY <1>7, <1>9, <1>10, <1>12, <1>13 DEF new

\* One block more, with the next number.
LEMMA OneMore ==
  ASSUME BlockInv, NEW b, blocks' = Append(blocks, b), counter' = counter + 1,
         b.id = counter + 1, Shaped(b)
  PROVE  /\ Extends /\ Ids' = 1 .. counter'
         /\ Len(blocks') = Len(blocks) + 1 /\ counter' = Len(blocks')
         /\ blocks'[Len(blocks) + 1] = b
<1>1. IsList(blocks) /\ Len(blocks) \in Nat /\ DOMAIN blocks = 1 .. Len(blocks)
      /\ counter = Len(blocks)
  BY ListFacts DEF BlockInv
<1>2. /\ IsList(blocks') /\ Len(blocks') = Len(blocks) + 1
      /\ \A k \in 1 .. Len(blocks) : blocks'[k] = blocks[k]
      /\ blocks'[Len(blocks) + 1] = b
  BY <1>1, AppendList
<1>3. DOMAIN blocks' = 1 .. Len(blocks) + 1
  BY <1>2, ListFacts
<1>4. Extends
  <2>1. \A k \in 1 .. Len(blocks) : Shaped(blocks[k])
    BY <1>1 DEF BlockInv, Fine
  <2> QED
    BY <1>1, <1>2, <2>1 DEF Extends, Alike
<1>5. Ids' = Ids \cup {counter + 1}
  BY <1>1, <1>2, <1>3 DEF Ids
<1>6. 1 .. counter' = (1 .. counter) \cup {counter + 1}
  BY <1>1
<1> QED
  BY <1>1, <1>2, <1>4, <1>5, <1>6 DEF BlockInv

\* The heading of a paragraph.
LEMMA HeadingStep ==
  ASSUME BlockInv, NEW level \in Nat, NEW text, headings' = Pushed(level, text),
         counter' = NextId,
         blocks' = Append(blocks, [type |-> "heading", id |-> NextId, text |-> text,
                                   level |-> level, path |-> Titles(headings')])
  PROVE  BlockInv'
<1> DEFINE b == [type |-> "heading", id |-> NextId, text |-> text, level |-> level,
                 path |-> Titles(headings')]
<1>1. /\ b.type = "heading" /\ b.id = NextId /\ b.text = text /\ b.level = level
      /\ b.path = Titles(headings')
  OBVIOUS
<1>2. blocks' = Append(blocks, b) /\ NextId = counter + 1
  BY DEF NextId
<1> HIDE DEF b
<1>3. Shaped(b) /\ Gridded(b)
  BY <1>1 DEF Shaped, Gridded
<1>4. /\ Extends /\ Ids' = 1 .. counter'
      /\ Len(blocks') = Len(blocks) + 1 /\ counter' = Len(blocks')
      /\ blocks'[Len(blocks) + 1] = b
  BY <1>1, <1>2, <1>3, OneMore
<1>5. PICK n \in Nat : n = Len(blocks) /\ n = counter
  BY ListFacts DEF BlockInv
<1>6. (\A i \in 1 .. n : Fine(i)') /\ Above(n)' = Above(n)
  BY <1>4, <1>5, StayFine
<1>7. blocks'[n + 1] = b /\ counter' = n + 1
  BY <1>4, <1>5
<1>8. \A h \in Above(n) : h \in 1 .. n /\ blocks[h].type = "heading" /\ blocks'[h] = blocks[h]
                         /\ blocks[h].level \in Nat
  <2>1. \A h \in Above(n) : h \in 1 .. n /\ blocks[h].type = "heading"
    BY DEF Above, Over
  <2>2. \A h \in 1 .. n : Alike(blocks[h], blocks'[h]) /\ Shaped(blocks[h])
    BY <1>4, <1>5 DEF Extends, BlockInv, Fine
  <2> QED
    BY <2>1, <2>2 DEF Alike, Shaped
<1>9. Above(n + 1)' = {h \in Above(n) : blocks'[h].level < level} \cup {n + 1}
  <2>1. \A h \in Above(n)' : blocks'[h].level \in Nat
    BY <1>6, <1>8
  <2>2. Above(n + 1)' = {h \in Above(n)' : blocks'[h].level < blocks'[n + 1].level} \cup {n + 1}
    BY <1>1, <1>7, <2>1, AboveHeading
  <2> QED
    BY <1>1, <1>6, <1>7, <2>2
<1>10. Above(counter)' = Above(n + 1)'
  BY <1>7 DEF Above
<1>11. PICK list : Stacks(list, Above(n))
  BY <1>5 DEF BlockInv, StackInv
<1>12. PICK k \in 0 .. Len(headings) :
         /\ \A j \in 1 .. k : headings[j].level < level
         /\ \A j \in k + 1 .. Len(headings) : ~(headings[j].level < level)
         /\ IsList(headings') /\ Len(headings') = k + 1
         /\ \A j \in 1 .. k : headings'[j] = headings[j]
         /\ headings'[k + 1] = [level |-> level, text |-> text]
  BY PushedIs DEF BlockInv
<1>13. Len(headings) \in Nat /\ k \in Nat /\ \A j \in 1 .. k : j \in 1 .. Len(headings)
  BY <1>12, ListFacts DEF BlockInv, StackInv
<1>14. /\ headings'[k + 1].level = level /\ headings'[k + 1].text = text
       /\ \A j \in 1 .. k + 1 : j \in 1 .. k \/ j = k + 1
  BY <1>12, <1>13
<1>15. /\ \A j \in 1 .. k + 1 : headings'[j].level \in Nat
       /\ \A i, j \in 1 .. k + 1 : i < j => headings'[i].level < headings'[j].level
  <2>1. /\ \A j \in 1 .. Len(headings) : headings[j].level \in Nat
        /\ \A i, j \in 1 .. Len(headings) : i < j => headings[i].level < headings[j].level
    BY DEF BlockInv, StackInv
  <2>2. \A i, j \in 1 .. k + 1 : i < j => i \in 1 .. k
    BY <1>13
  <2> QED
    <3>1. \A j \in 1 .. k : headings'[j] = headings[j] /\ j \in 1 .. Len(headings)
      BY <1>12, <1>13
    <3>2. \A j \in 1 .. k + 1 : headings'[j].level \in Nat
      BY <1>14, <2>1, <3>1
    <3>3. ASSUME NEW i \in 1 .. k + 1, NEW j \in 1 .. k + 1, i < j
          PROVE  headings'[i].level < headings'[j].level
      <4>1. i \in 1 .. k /\ (j \in 1 .. k \/ j = k + 1)
        BY <1>14, <2>2, <3>3
      <4>2. CASE j \in 1 .. k
        BY <2>1, <3>1, <3>3, <4>1, <4>2
      <4>3. CASE j = k + 1
        BY <1>12, <1>14, <3>1, <4>1, <4>3
      <4> QED
        BY <4>1, <4>2, <4>3
    <3> QED
      BY <3>2, <3>3
<1>16. \E l : Stacks(l, Above(n + 1))'
  <2> DEFINE A == Above(n + 1)'
             new == [j \in 1 .. k + 1 |-> IF j = k + 1 THEN n + 1 ELSE list[j]]
  <2>1. /\ list \in [1 .. Len(headings) -> Above(n)]
        /\ \A h \in Above(n) : \E j \in 1 .. Len(headings) : list[j] = h
        /\ \A i, j \in 1 .. Len(headings) : i < j => list[i] < list[j]
        /\ \A j \in 1 .. Len(headings) :
             /\ headings[j].text = blocks[list[j]].text
             /\ headings[j].level = blocks[list[j]].level
    BY <1>11 DEF Stacks
  <2>2. new[k + 1] = n + 1 /\ \A j \in 1 .. k : new[j] = list[j]
    BY <1>13
  <2>3. \A j \in 1 .. Len(headings) :
          /\ list[j] \in Above(n) /\ list[j] \in 1 .. n
          /\ blocks'[list[j]] = blocks[list[j]]
          /\ blocks'[list[j]].level = headings[j].level
    BY <1>8, <2>1
  <2>4. \A j \in 1 .. k : list[j] \in A
    BY <1>9, <1>12, <1>13, <2>3
  <2>5. new \in [1 .. k + 1 -> A]
    <3>1. n + 1 \in A
      BY <1>9
    <3> HIDE DEF A
    <3> QED
      BY <1>13, <1>14, <2>4, <3>1
  <2> HIDE DEF new
  <2>6. ASSUME NEW h \in A PROVE \E j \in 1 .. k + 1 : new[j] = h
    <3>1. CASE h = n + 1
      <4>1. k + 1 \in 1 .. k + 1
        BY <1>13
      <4> QED
        BY <2>2, <3>1, <4>1
    <3>2. CASE h \in Above(n) /\ blocks'[h].level < level
      <4>1. PICK j \in 1 .. Len(headings) : list[j] = h
        BY <2>1, <3>2
      <4>2. headings[j].level < level
        BY <2>3, <3>2, <4>1
      <4>3. j \in 1 .. k
        BY <1>12, <1>13, <4>2
      <4> QED
        BY <2>2, <1>13, <4>1, <4>3
    <3> QED
      BY <1>9, <2>6, <3>1, <3>2
  <2>7. ASSUME NEW i \in 1 .. k + 1, NEW j \in 1 .. k + 1, i < j PROVE new[i] < new[j]
    <3>1. i \in 1 .. k /\ new[i] = list[i] /\ list[i] \in 1 .. n
      <4>1. i \in 1 .. k
        BY <1>13, <2>7
      <4> QED
        BY <1>13, <2>2, <2>3, <4>1
    <3>2. CASE j = k + 1
      BY <1>5, <2>2, <3>1, <3>2
    <3>3. CASE j \in 1 .. k
      BY <1>13, <2>1, <2>2, <2>7, <3>1, <3>3
    <3> QED
      BY <1>14, <3>2, <3>3
  <2>8. ASSUME NEW j \in 1 .. k + 1
        PROVE  /\ headings'[j].text = blocks'[new[j]].text
               /\ headings'[j].level = blocks'[new[j]].level
    <3>1. CASE j = k + 1
      <4>1. blocks'[new[k + 1]] = b
        BY <1>7, <2>2
      <4> QED
        BY <1>1, <1>14, <3>1, <4>1
    <3>2. CASE j \in 1 .. k
      <4>1. new[j] = list[j] /\ headings'[j] = headings[j] /\ j \in 1 .. Len(headings)
        BY <1>12, <1>13, <2>2, <3>2
      <4>2. /\ headings[j].text = blocks[list[j]].text
            /\ headings[j].level = blocks[list[j]].level
            /\ blocks'[list[j]] = blocks[list[j]]
        BY <2>1, <2>3, <4>1
      <4> QED
        BY <4>1, <4>2
    <3> QED
      BY <1>14, <3>1, <3>2
  <2> HIDE DEF A
  <2>9. Stacks(new, Above(n + 1))'
    BY <1>12, <2>5, <2>6, <2>7, <2>8 DEF Stacks, A
  <2> QED
    BY <2>9
<1>17. StackInv'
  <2> DEFINE A == Above(counter)'
  <2>1. A = Above(n + 1)'
    BY <1>10
  <2>2. PICK l : Stacks(l, Above(n + 1))'
    BY <1>16
  <2> HIDE DEF A
  <2>3. /\ l \in [1 .. Len(headings') -> A]
        /\ \A h \in A : \E j \in 1 .. Len(headings') : l[j] = h
        /\ \A i, j \in 1 .. Len(headings') : i < j => l[i] < l[j]
        /\ \A j \in 1 .. Len(headings') :
             /\ headings'[j].text = blocks'[l[j]].text
             /\ headings'[j].level = blocks'[l[j]].level
    BY <2>1, <2>2 DEF Stacks
  <2>4. Stacks(l, Above(counter))'
    BY <2>3 DEF Stacks, A
  <2>5. \E j : Stacks(j, Above(counter))'
    BY <2>4
  <2> QED
    BY <1>12, <1>15, <2>5 DEF StackInv
<1>18. Fine(n + 1)'
  <2>1. Names(Titles(headings), Above(counter))'
    BY <1>17, StackNames
  <2>2. UnderHeadings(n + 1)'
    <3>1. blocks'[n + 1].path = Titles(headings)'
      BY <1>1, <1>7 DEF Titles
    <3> DEFINE path == blocks[n + 1].path
               titles == Titles(headings)
               above == Above(counter)
               over == Above(n + 1)
    <3>2. path' = titles' /\ over' = above' /\ Names(titles, above)'
      BY <1>10, <2>1, <3>1
    <3> HIDE DEF path, titles, above, over
    <3>3. Names(path, over)'
      BY <3>2, ZenonT(60) DEF Names
    <3> QED
      BY <3>3 DEF UnderHeadings, path, over
  <2>3. Refers(n + 1)'
    BY <1>1, <1>7 DEF Refers
  <2> QED
    BY <1>3, <1>7, <2>2, <2>3 DEF Fine
<1>19. \A i \in 1 .. counter' : Fine(i)'
  <2>1. \A i \in 1 .. counter' : i \in 1 .. n \/ i = n + 1
    BY <1>7
  <2> QED
    BY <1>6, <1>18, <2>1
<1> QED
  BY <1>4, <1>17, <1>19 DEF BlockInv, Extends

LEMMA SameBlocks ==
  ASSUME BlockInv, UNCHANGED <<blocks, counter, headings>>
  PROVE  BlockInv'
<1>1. \A i : Above(i)' = Above(i)
  BY DEF Above, Over
<1>2. \A i : Fine(i)' <=> Fine(i)
  BY <1>1 DEF Fine, UnderHeadings, Names, Refers
<1>3. Above(counter)' = Above(counter) /\ \A l, A : Stacks(l, A)' <=> Stacks(l, A)
  BY <1>1 DEF Stacks, Above, Over
<1>4. StackInv'
  <2>1. PICK l : Stacks(l, Above(counter))
    BY DEF BlockInv, StackInv
  <2> DEFINE A == Above(counter)
  <2>2. A' = A /\ Stacks(l, A)
    BY <1>3, <2>1
  <2> HIDE DEF A
  <2>3. Stacks(l, A)'
    BY <2>2 DEF Stacks
  <2>4. \E j : Stacks(j, Above(counter))'
    BY <2>3 DEF A
  <2> QED
    BY <2>4 DEF BlockInv, StackInv
<1> QED
  BY <1>2, <1>4 DEF BlockInv, Ids

\* A text becomes one block, or none if it is empty.
LEMMA TextStep ==
  ASSUME BlockInv, NEW type \in {"paragraph", "header", "footer", "footnote"}, NEW text, NEW path,
         type = "paragraph" => path = Titles(headings),
         EmitText(type, text, path), UNCHANGED headings
  PROVE  BlockInv'
<1>1. CASE text = ""
  BY <1>1, SameBlocks DEF EmitText
<1>2. CASE text # ""
  <2> DEFINE b == [type |-> type, id |-> NextId, text |-> text, level |-> 0, path |-> path]
  <2>1. b.type = type /\ b.id = counter + 1 /\ b.path = path
    BY DEF NextId
  <2>2. blocks' = Append(blocks, b) /\ counter' = counter + 1
    BY <1>2 DEF EmitText, NextId
  <2> HIDE DEF b
  <2>3. Shaped(b) /\ Gridded(b)
    BY <2>1 DEF Shaped, Gridded
  <2>4. /\ Extends /\ Ids' = 1 .. counter'
        /\ Len(blocks') = Len(blocks) + 1 /\ counter' = Len(blocks')
        /\ blocks'[Len(blocks) + 1] = b
    BY <2>1, <2>2, <2>3, OneMore
  <2>5. \A i \in Len(blocks) + 1 .. Len(blocks') : i = Len(blocks) + 1
    BY <2>4, ListFacts DEF BlockInv
  <2>6. \A i \in Len(blocks) + 1 .. Len(blocks') :
          /\ blocks'[i].type # "heading"
          /\ blocks'[i].type \in {"paragraph", "table", "image", "caption"} =>
               blocks'[i].path = Titles(headings)
          /\ Gridded(blocks'[i]) /\ Shaped(blocks'[i]) /\ Refers(i)'
    BY <2>1, <2>3, <2>4, <2>5 DEF Refers
  <2> QED
    BY <2>4, <2>6, QuietStep
<1> QED
  BY <1>1, <1>2

\* A table or picture, after its caption if it has one.
LEMMA CaptionStep ==
  ASSUME BlockInv, NEW block, NEW caption, EmitWithCaption(block, caption), UNCHANGED headings,
         NEW own, own = [block EXCEPT !.id = NextId],
         own.type \in {"table", "image"}, own.id = NextId, own.path = Titles(headings),
         Shaped(own), Gridded(own)
  PROVE  BlockInv'
<1>0. Len(blocks) \in Nat /\ IsList(blocks) /\ counter = Len(blocks) /\ NextId = counter + 1
      /\ DOMAIN blocks = 1 .. Len(blocks)
  BY ListFacts DEF BlockInv, NextId
<1>1. CASE caption = ""
  <2>1. blocks' = Append(blocks, own) /\ counter' = counter + 1
    BY <1>0, <1>1 DEF EmitWithCaption
  <2>2. /\ Extends /\ Ids' = 1 .. counter'
        /\ Len(blocks') = Len(blocks) + 1 /\ counter' = Len(blocks')
        /\ blocks'[Len(blocks) + 1] = own
    BY <1>0, <2>1, OneMore
  <2>3. \A i \in Len(blocks) + 1 .. Len(blocks') : i = Len(blocks) + 1
    BY <1>0, <2>2
  <2>4. \A i \in Len(blocks) + 1 .. Len(blocks') :
          /\ blocks'[i].type # "heading"
          /\ blocks'[i].type \in {"paragraph", "table", "image", "caption"} =>
               blocks'[i].path = Titles(headings)
          /\ Gridded(blocks'[i]) /\ Shaped(blocks'[i]) /\ Refers(i)'
    BY <2>2, <2>3 DEF Refers
  <2> QED
    BY <2>2, <2>4, QuietStep
<1>2. CASE caption # ""
  <2> DEFINE c == [type |-> "caption", id |-> NextId + 1, text |-> caption,
                   ref |-> RefOf(NextId), path |-> Titles(headings)]
  <2>0. PICK n \in Nat : n = Len(blocks)
    BY <1>0
  <2>1. c.type = "caption" /\ c.id = n + 2 /\ c.ref = n + 1 /\ c.path = Titles(headings)
        /\ own.id = n + 1
    BY <1>0, <2>0 DEF RefOf
  <2>2. blocks' = blocks \o <<c, own>> /\ counter' = n + 2
    <3>1. /\ counter' = NextId + 1
          /\ blocks' = blocks \o <<c, [block EXCEPT !.id = NextId]>>
      BY <1>2 DEF EmitWithCaption
    <3> HIDE DEF c
    <3> QED
      BY <1>0, <2>0, <3>1
  <2> HIDE DEF c
  <2>3. IsList(<<c, own>>) /\ Len(<<c, own>>) = 2 /\ <<c, own>>[1] = c /\ <<c, own>>[2] = own
    <3> DEFINE t == <<c, own>>
    <3>1. t = [k \in 1 .. 2 |-> t[k]] /\ t[1] = c /\ t[2] = own
      OBVIOUS
    <3> HIDE DEF t
    <3>2. IsList(t) /\ Len(t) = 2
      BY <3>1, ListIs
    <3> QED
      BY <3>1, <3>2 DEF t
  <2>4. /\ IsList(blocks') /\ Len(blocks') = n + 2
        /\ \A k \in 1 .. n : blocks'[k] = blocks[k]
        /\ blocks'[n + 1] = c /\ blocks'[n + 2] = own
    <3> DEFINE t == <<c, own>>
    <3>1. IsList(t) /\ Len(t) = 2 /\ t[1] = c /\ t[2] = own /\ blocks' = blocks \o t
      BY <2>2, <2>3
    <3> HIDE DEF t
    <3>2. /\ IsList(blocks \o t)
          /\ Len(blocks \o t) = Len(blocks) + Len(t)
          /\ \A k \in 1 .. Len(blocks) : (blocks \o t)[k] = blocks[k]
          /\ \A k \in 1 .. Len(t) : (blocks \o t)[Len(blocks) + k] = t[k]
      <4>1. IsList(blocks) /\ IsList(t)
        BY <1>0, <3>1
      <4> QED
        BY <4>1, ConcatList
    <3>3. 1 \in 1 .. Len(t) /\ 2 \in 1 .. Len(t)
      BY <3>1
    <3> QED
      BY <2>0, <3>1, <3>2, <3>3
  <2>5. DOMAIN blocks' = 1 .. n + 2
    BY <2>4, ListFacts
  <2>6. Shaped(c) /\ Gridded(c)
    BY <2>1 DEF Shaped, Gridded
  <2>7. Extends
    <3>1. \A k \in 1 .. n : Shaped(blocks[k])
      BY <1>0, <2>0 DEF BlockInv, Fine
    <3> QED
      BY <1>0, <2>0, <2>4, <3>1 DEF Extends, Alike
  <2>8. Ids' = 1 .. counter'
    <3>1. \A k \in 1 .. n + 2 : k \in 1 .. n \/ k = n + 1 \/ k = n + 2
      BY <1>0
    <3>2. n + 1 \in 1 .. n + 2 /\ n + 2 \in 1 .. n + 2 /\ \A k \in 1 .. n : k \in 1 .. n + 2
      BY <1>0
    <3>3. Ids' = {blocks'[k].id : k \in 1 .. n + 2}
      BY <2>5 DEF Ids
    <3>4. Ids = {blocks[k].id : k \in 1 .. n} /\ Ids = 1 .. n
      BY <1>0, <2>0 DEF Ids, BlockInv
    <3>5. ASSUME NEW x \in Ids' PROVE x \in 1 .. n + 2
      <4>1. PICK k \in 1 .. n + 2 : x = blocks'[k].id
        BY <3>3
      <4>2. CASE k \in 1 .. n
        BY <2>4, <3>2, <3>4, <4>1, <4>2
      <4>3. CASE k = n + 1
        BY <2>1, <2>4, <3>2, <4>1, <4>3
      <4>4. CASE k = n + 2
        BY <2>1, <2>4, <3>2, <4>1, <4>4
      <4> QED
        BY <3>1, <4>2, <4>3, <4>4
    <3>6. ASSUME NEW x \in 1 .. n + 2 PROVE x \in Ids'
      <4>1. CASE x \in 1 .. n
        <5>1. PICK k \in 1 .. n : x = blocks[k].id
          BY <3>4, <4>1
        <5> QED
          BY <2>4, <3>2, <3>3, <5>1
      <4>2. blocks'[n + 1].id \in Ids' /\ blocks'[n + 2].id \in Ids'
        BY <3>2, <3>3
      <4>3. n + 1 \in Ids' /\ n + 2 \in Ids'
        BY <2>1, <2>4, <4>2
      <4> QED
        BY <3>1, <4>1, <4>3
    <3> QED
      BY <2>2, <3>5, <3>6
  <2>9. Refers(n + 1)'
    <3>1. n + 1 + 1 = n + 2 /\ n + 2 \in 1 .. n + 2
      BY <1>0
    <3>2. /\ blocks'[n + 1].ref = n + 1
          /\ n + 1 + 1 \in DOMAIN blocks'
          /\ blocks'[n + 1 + 1].type \in {"table", "image"}
          /\ blocks'[n + 1 + 1].id = n + 1
      BY <2>1, <2>4, <2>5, <3>1
    <3> QED
      BY <3>2 DEF Refers
  <2>10. Refers(n + 2)'
    BY <2>4 DEF Refers
  <2>11. \A i \in Len(blocks) + 1 .. Len(blocks') : i = n + 1 \/ i = n + 2
    BY <2>0, <2>4
  <2>12. \A i \in Len(blocks) + 1 .. Len(blocks') :
          /\ blocks'[i].type # "heading"
          /\ blocks'[i].type \in {"paragraph", "table", "image", "caption"} =>
               blocks'[i].path = Titles(headings)
          /\ Gridded(blocks'[i]) /\ Shaped(blocks'[i]) /\ Refers(i)'
    <3>1. ASSUME NEW i \in {n + 1, n + 2}
          PROVE  /\ blocks'[i].type # "heading" /\ blocks'[i].path = Titles(headings)
                 /\ Gridded(blocks'[i]) /\ Shaped(blocks'[i]) /\ Refers(i)'
      <4>1. CASE i = n + 1
        BY <2>1, <2>4, <2>6, <2>9, <4>1
      <4>2. CASE i = n + 2
        BY <2>4, <2>10, <4>2
      <4> QED
        BY <4>1, <4>2
    <3> QED
      BY <2>11, <3>1
  <2> QED
    BY <2>2, <2>4, <2>7, <2>8, <2>12, QuietStep
<1> QED
  BY <1>1, <1>2

LEMMA FillStep ==
  ASSUME BlockInv, FillNearText
  PROVE  BlockInv'
<1>1. Len(blocks) \in Nat /\ DOMAIN blocks = 1 .. Len(blocks) /\ counter = Len(blocks)
  BY ListFacts DEF BlockInv
<1>2. /\ blocks' = [i \in 1 .. Len(blocks) |-> blocks'[i]]
      /\ \A i \in 1 .. Len(blocks) : blocks'[i] =
           IF blocks[i].type # "image" THEN blocks[i]
           ELSE [blocks[i] EXCEPT !.before = TextBefore(i), !.after = TextAfter(i)]
      /\ UNCHANGED <<counter, headings>>
  BY <1>1 DEF FillNearText
<1>3. IsList(blocks') /\ Len(blocks') = Len(blocks)
  BY <1>1, <1>2, ListIs
<1>4. ASSUME NEW i \in 1 .. Len(blocks) PROVE Alike(blocks[i], blocks'[i])
  <2>1. Shaped(blocks[i])
    BY <1>1 DEF BlockInv, Fine
  <2>2. CASE blocks[i].type # "image"
    BY <1>2, <2>1, <2>2 DEF Alike
  <2>3. CASE blocks[i].type = "image"
    <3> DEFINE b == blocks[i]
               x == TextBefore(i)
               y == TextAfter(i)
               c == [b EXCEPT !.before = x, !.after = y]
    <3>1. {"type", "id", "path"} \subseteq DOMAIN b
      BY <2>1, <2>3 DEF Shaped
    <3>2. blocks'[i] = c
      BY <1>2, <2>3
    <3> HIDE DEF b, x, y
    <3>3. /\ DOMAIN c = DOMAIN b /\ c = [z \in DOMAIN c |-> c[z]]
          /\ c.type = b.type /\ c.id = b.id /\ c.path = b.path
      BY <3>1
    <3> HIDE DEF c
    <3>4. b.type = "image"
      BY <2>3 DEF b
    <3>5. Alike(b, c)
      BY <3>1, <3>3, <3>4 DEF Alike, Shaped
    <3> QED
      BY <3>2, <3>5 DEF b
  <2> QED
    BY <2>2, <2>3
<1>5. Extends
  BY <1>1, <1>3, <1>4 DEF Extends
<1>6. Ids' = 1 .. counter'
  <2>1. DOMAIN blocks' = 1 .. Len(blocks)
    BY <1>3, ListFacts
  <2>2. \A i \in 1 .. Len(blocks) : blocks'[i].id = blocks[i].id
    BY <1>4 DEF Alike
  <2>3. Ids' = Ids
    BY <1>1, <2>1, <2>2 DEF Ids
  <2> QED
    BY <1>2, <2>3 DEF BlockInv
<1>7. \A i \in Len(blocks) + 1 .. Len(blocks') : FALSE
  BY <1>1, <1>3
<1> QED
  BY <1>1, <1>2, <1>3, <1>5, <1>6, <1>7, QuietStep

LEMMA EmptyBlocks ==
  ASSUME blocks' = << >>, headings' = << >>, counter' = 0
  PROVE  BlockInv'
<1>1. IsList(blocks') /\ Len(blocks') = 0 /\ DOMAIN blocks' = {}
  BY EmptyList
<1>2. IsList(headings') /\ Len(headings') = 0
  BY EmptyList
<1>3. Ids' = {} /\ 1 .. 0 = {}
  BY <1>1 DEF Ids
<1>4. Stacks(<< >>, Above(counter))'
  <2> DEFINE e == << >>
             A == Above(counter)
  <2>1. A' = {}
    BY <1>3 DEF Above
  <2>2. e \in [1 .. 0 -> A']
    BY <1>3
  <2> HIDE DEF e, A
  <2>3. Stacks(e, A)'
    BY <1>2, <1>3, <2>1, <2>2 DEF Stacks
  <2> QED
    BY <2>3 DEF e, A
<1>5. \E l : Stacks(l, Above(counter))'
  BY <1>4
<1>6. StackInv'
  BY <1>2, <1>3, <1>5 DEF StackInv
<1> QED
  BY <1>1, <1>3, <1>6 DEF BlockInv

LEMMA NextBlocks == PlaceInv /\ BlockInv /\ [Next]_vars => BlockInv'
<1> SUFFICES ASSUME PlaceInv, BlockInv, [Next]_vars PROVE BlockInv'
  OBVIOUS
<1>1. CASE UNCHANGED <<blocks, counter, headings>>
  BY <1>1, SameBlocks
<1>2. CASE Begin
  BY <1>2, EmptyBlocks DEF Begin
<1>3. CASE TextParagraph
  <2>1. CASE Para.level # 0 /\ Para.text # ""
    <3>1. Para.level \in Nat
      <4>1. InPara
        BY <1>3 DEF TextParagraph
      <4>2. Para.level \in 0 .. 6
        BY <4>1, PlaceFacts
      <4> QED
        BY <4>2
    <3>2. /\ headings' = Pushed(Para.level, Para.text)
          /\ counter' = NextId
          /\ blocks' = Append(blocks, [type |-> "heading", id |-> NextId,
                                       text |-> Para.text, level |-> Para.level,
                                       path |-> Titles(headings')])
      BY <1>3, <2>1 DEF TextParagraph
    <3> QED
      BY <3>1, <3>2, HeadingStep
  <2>2. CASE ~(Para.level # 0 /\ Para.text # "")
    <3>1. EmitText("paragraph", Para.text, Titles(headings)) /\ UNCHANGED headings
      BY <1>3, <2>2 DEF TextParagraph
    <3> QED
      BY <3>1, TextStep
  <2> QED
    BY <2>1, <2>2
<1>4. CASE Note
  <2> DEFINE type == IF Ctl.kind = "endnote" THEN "footnote" ELSE Ctl.kind
  <2>1. EmitText(type, Ctl.text, << >>) /\ UNCHANGED headings
    BY <1>4 DEF Note
  <2>2. type \in {"header", "footer", "footnote"}
    BY <1>4 DEF Note, AtControl
  <2> HIDE DEF type
  <2> QED
    BY <2>1, <2>2, TextStep
<1>5. CASE OtherControl
  BY <1>5, TextStep DEF OtherControl
<1>6. CASE Table
  <2> DEFINE grid == [r \in 1 .. Ctl.rows |-> [k \in 1 .. Ctl.cols |-> Slot(Ctl, r - 1, k - 1)]]
             block == [type |-> "table", id |-> 0, path |-> Titles(headings),
                       grid |-> grid, rows |-> RowsOf(grid), of |-> Ctl]
             own == [block EXCEPT !.id = NextId]
  <2>1. /\ UNCHANGED headings
        /\ UNCHANGED <<blocks, counter>> \/ EmitWithCaption(block, Ctl.caption)
    BY <1>6 DEF Table
  <2>2. InPara /\ Para.controls # << >> /\ Ctl.kind = "table"
    BY <1>6 DEF Table, AtControl
  <2>3. IsControl(Ctl)
    BY <2>2, PlaceFacts
  <2>4. /\ own.type = "table" /\ own.id = NextId /\ own.path = Titles(headings)
        /\ own.of = Ctl /\ own.grid = grid
    <3> HIDE DEF grid
    <3> QED
      OBVIOUS
  <2>5. Shaped(own) /\ Gridded(own)
    <3> HIDE DEF own
    <3> QED
      BY <2>2, <2>3, <2>4 DEF Shaped, Gridded
  <2>6. own = [block EXCEPT !.id = NextId]
    OBVIOUS
  <2> HIDE DEF own, block
  <2> QED
    BY <2>1, <2>4, <2>5, <2>6, <1>1, CaptionStep
<1>7. CASE PictureWritten \/ PictureNotWritten
  <2> DEFINE block == ImageBlock
             own == [block EXCEPT !.id = NextId]
  <2>1. UNCHANGED headings /\ EmitWithCaption(block, Ctl.caption)
    BY <1>7 DEF PictureWritten, PictureNotWritten, Picture
  <2>2. /\ own.type = "image" /\ own.id = NextId /\ own.path = Titles(headings)
        /\ own = [x \in DOMAIN own |-> own[x]] /\ {"type", "id", "path"} \subseteq DOMAIN own
    BY DEF ImageBlock
  <2>3. own = [block EXCEPT !.id = NextId]
    OBVIOUS
  <2> HIDE DEF own, block
  <2>4. Shaped(own) /\ Gridded(own)
    BY <2>2 DEF Shaped, Gridded
  <2> QED
    BY <2>1, <2>2, <2>3, <2>4, CaptionStep
<1>8. CASE FillNearText
  BY <1>8, FillStep
<1> QED
  BY <1>1, <1>2, <1>3, <1>4, <1>5, <1>6, <1>7, <1>8
  DEF Next, Skip, Unreadable, WriteJson, WriteJsonFails, Done, vars, converter

\* Image files have the directory and the id of a picture of their document.
PathInv == DOMAIN files \subseteq Paths /\ failed \subseteq Paths

LEMMA NextPaths == PlaceInv /\ PathInv /\ [Next]_vars => PathInv'
<1> SUFFICES ASSUME PlaceInv, PathInv, [Next]_vars PROVE PathInv'
  OBVIOUS
<1>1. CASE UNCHANGED <<tree, files, failed>>
  BY <1>1 DEF PathInv, Paths, PathsOf
<1>2. ASSUME NEW writes \in BOOLEAN, Picture(writes), NewAsset PROVE PathInv'
  <2> DEFINE path == <<ImagesOf(Doc), Ctl.image>>
             content == Doc.images[Ctl.image]
  <2>1. /\ tree' = tree
        /\ \/ files' = Set(files, path, content) /\ failed' = failed
           \/ /\ files' = files \/ files' = Set(files, path, Partial)
              /\ failed' = failed \cup {path}
    BY <1>2 DEF Picture
  <2>2. path \in Paths
    <3>1. at \in DOMAIN tree
      BY <1>2, TreeFacts DEF Picture, AtControl, InPara, PlaceInv
    <3>2. path \in PathsOf(tree[at])
      BY <1>2 DEF NewAsset, PathsOf, ImagesOf, Doc
    <3> QED
      BY <3>1, <3>2 DEF Paths
  <2>3. Paths' = Paths
    BY <2>1 DEF Paths, PathsOf
  <2> HIDE DEF path, content
  <2>4. /\ \A v : IsSet(Set(files, path, v), files, path, v)
    BY SetIs
  <2>5. DOMAIN files' \subseteq DOMAIN files \cup {path}
    BY <2>1, <2>4 DEF IsSet
  <2> QED
    BY <2>1, <2>2, <2>3, <2>5 DEF PathInv
<1>3. CASE PictureWritten \/ PictureNotWritten
  <2>1. PICK writes \in BOOLEAN : Picture(writes)
    BY <1>3 DEF PictureWritten, PictureNotWritten
  <2>2. ~NewAsset => UNCHANGED <<tree, files, failed>>
    BY <2>1 DEF Picture
  <2> QED
    BY <1>1, <1>2, <2>1, <2>2
<1> QED
  BY <1>1, <1>3 DEF Next, Skip, Unreadable, Begin, TextParagraph, Note, OtherControl, Table,
     FillNearText, WriteJson, WriteJsonFails, Done, vars, converter

IInv == PlaceInv /\ FileInv /\ BlockInv /\ PathInv

LEMMA InitInv == Init => IInv
<1> SUFFICES ASSUME Init PROVE IInv
  OBVIOUS
<1>1. BlockInv
  <2>1. IsList(blocks) /\ Len(blocks) = 0 /\ DOMAIN blocks = {}
        /\ IsList(headings) /\ Len(headings) = 0 /\ counter = 0
    BY EmptyList DEF Init
  <2>2. Ids = {} /\ 1 .. 0 = {} /\ Above(counter) = {}
    BY <2>1 DEF Ids, Above
  <2>3. \E l : Stacks(l, Above(counter))
    <3> DEFINE e == << >>
               A == Above(counter)
    <3>1. e \in [1 .. 0 -> A] /\ A = {}
      BY <2>2
    <3> HIDE DEF e, A
    <3>2. Stacks(e, A)
      BY <2>1, <2>2, <3>1 DEF Stacks
    <3> QED
      BY <3>2 DEF A
  <2> QED
    BY <2>1, <2>2, <2>3 DEF BlockInv, StackInv
<1>2. PathInv
  BY EmptyList DEF Init, PathInv
<1> QED
  BY <1>1, <1>2, InitPlace, InitFiles DEF IInv

LEMMA NextInv == IInv /\ [Next]_vars => IInv'
  BY NextPlace, NextFiles, NextBlocks, NextPaths DEF IInv

LEMMA BlocksMean == IInv => BlocksRelate
<1> SUFFICES ASSUME IInv PROVE BlocksRelate
  OBVIOUS
<1>1. /\ Len(tree) \in Nat /\ DOMAIN tree = 1 .. Len(tree)
      /\ Len(blocks) \in Nat /\ DOMAIN blocks = 1 .. Len(blocks) /\ counter = Len(blocks)
  BY TreeFacts, ListFacts DEF IInv, PlaceInv, BlockInv
<1>2. TypeOK
  <2>1. DOMAIN jsons \subseteq {tree[n].name : n \in DOMAIN tree}
    <3>1. Past \subseteq DOMAIN tree
      BY <1>1 DEF Past, IInv, PlaceInv
    <3> QED
      BY <3>1 DEF IInv, FileInv
  <2>2. {blocks[n].id : n \in DOMAIN blocks} = 1 .. counter
    BY DEF IInv, BlockInv, Ids
  <2> QED
    BY <1>1, <2>1, <2>2 DEF TypeOK, IInv, PlaceInv, PathInv
<1>3. \A i \in DOMAIN blocks : Fine(i)
  BY <1>1 DEF IInv, BlockInv
<1>4. CellsOnce
  <2> SUFFICES ASSUME NEW i \in DOMAIN blocks, blocks[i].type = "table", Apart(blocks[i].of),
                      NEW r \in 1 .. blocks[i].of.rows, NEW k \in 1 .. blocks[i].of.cols
               PROVE  LET t == blocks[i].of
                          first == {n \in DOMAIN t.cells : t.cells[n].row = r - 1
                                                           /\ t.cells[n].col = k - 1}
                      IN blocks[i].grid[r][k] =
                           IF first = {} THEN "" ELSE t.cells[CHOOSE n \in first : TRUE].text
    BY DEF CellsOnce
  <2> DEFINE t == blocks[i].of
  <2>1. Gridded(blocks[i])
    BY <1>3 DEF Fine
  <2>2. /\ IsControl(t) /\ t.kind = "table" /\ Apart(t)
        /\ blocks[i].grid = [y \in 1 .. t.rows |-> [x \in 1 .. t.cols |-> Slot(t, y - 1, x - 1)]]
    BY <2>1 DEF Gridded
  <2>3. r \in 1 .. t.rows /\ k \in 1 .. t.cols /\ t.rows \in Nat /\ t.cols \in Nat
    BY <2>2 DEF IsControl
  <2> HIDE DEF t
  <2>4. r - 1 \in 0 .. t.rows - 1 /\ k - 1 \in 0 .. t.cols - 1
    BY <2>3
  <2>5. blocks[i].grid[r][k] = Slot(t, r - 1, k - 1)
    BY <2>2, <2>3
  <2>6. \A y \in 0 .. t.rows - 1, x \in 0 .. t.cols - 1 : Slot(t, y, x) = FirstText(t, y, x)
    BY <2>2, SlotIs
  <2>7. blocks[i].grid[r][k] = FirstText(t, r - 1, k - 1)
    BY <2>4, <2>5, <2>6
  <2> USE DEF t
  <2> QED
    BY <2>7 DEF FirstText
<1> QED
  BY <1>2, <1>3, <1>4 DEF BlocksRelate, Fine

\* Each block has the path of the headings it is under, each caption names the
\* table or image it stands over, the ids count the blocks, and a table's grid
\* has every cell once, at its first slot.
THEOREM BlocksAgree == Spec => []BlocksRelate
  BY InitInv, NextInv, BlocksMean, PTL DEF Spec
=============================================================================
