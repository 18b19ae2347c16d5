--------------------------- MODULE LogCommandsProofs ---------------------------
(***************************************************************************)
(* Theorems about LogCommands, for any number of processes, capsules,       *)
(* commands, failures and kills.                                            *)
(*                                                                          *)
(* A line names only the line before it.  That this line names in turn what *)
(* the one before it was, down to the first, is an argument by the least    *)
(* place at which two logs of one last line would differ (Chain).           *)
(* A checkpoint keeps a root only: that the path of a leaf leads up to it   *)
(* (PathClimbs) and that it tells every line (RootTells) go by the levels of *)
(* the tree, and a recursive definition is unfolded by a function of its own *)
(* equation (IsLevels, IsPlaces, IsClimb).                                   *)
(***************************************************************************)
EXTENDS LogCommands, FiniteSetTheorems, SequenceTheorems, WellFoundedInduction, TLAPS

\* What is known of the log a line was made from: it loads, and it holds no
\* acceptance that the line repeats.
Sound(m) ==
  /\ m.from \in Seq(MadeLines)
  /\ Loads(m.from)
  /\ m.line.seq = Len(m.from)
  /\ m.line.prev = LastLine(m.from)
  /\ m.line # Torn
  /\ MayAdd(m.from, m.line.sha, m.line.verdict)

MadeSound == \A m \in made : Sound(m)
InFlight == \A p \in Procs : pc[p] # "idle" => line[p] \in MadeLines \ {Torn}

TypeInv == TypeOK /\ MadeSound /\ InFlight

\* A ledger's commands write the whole file, those of the anchor log append.
PcOfKind == \A p \in Procs :
  pc[p] \in IF Ledger THEN {"idle", "reread", "truncate", "write"}
                      ELSE {"idle", "append"}

\* Commands that run one at a time: the file is what was reported, but for the
\* moment in which the one that runs has emptied it, and the line in the making
\* continues it.
Continues(p) ==
  /\ line[p].seq = Len(reported)
  /\ line[p].prev = LastLine(reported)
  /\ pc[p] = "append" => seen[p] = reported
  /\ pc[p] \in {"truncate", "write"} => buf[p] = Append(reported, line[p])
  /\ text = IF pc[p] = "write" THEN NoLines ELSE reported

Orderly ==
  /\ Loads(reported)
  /\ \A p, q \in Procs : pc[p] # "idle" /\ pc[q] # "idle" => p = q
  /\ \A p \in Procs : pc[p] # "idle" => Continues(p)
  /\ (\A p \in Procs : pc[p] = "idle") => text = reported

\* A log that was only appended to and loads has each reported line in place.
InPlace == \A i \in 1 .. Len(reported) :
  /\ reported[i].seq + 1 \in 1 .. Len(text)
  /\ text[reported[i].seq + 1] = reported[i]

OrderInv ==
  /\ PcOfKind
  /\ calm => Orderly
  /\ ~Ledger /\ ~deleted /\ Loads(text) => InPlace
-----------------------------------------------------------------------------
(* Sequences and logs.                                                      *)

LEMMA SeqGrows ==
  ASSUME NEW S, NEW T, S \subseteq T, NEW s \in Seq(S)
  PROVE  s \in Seq(T)
  OBVIOUS

\* A non-empty set of natural numbers has a least element.
LEMMA Least ==
  ASSUME NEW T, T \subseteq Nat, T # {}
  PROVE  \E x \in T : \A y \in T : ~(y < x)
<1>1. \E x \in T : \A y \in T : ~(<<y, x>> \in OpToRel(<, Nat))
  BY NatLessThanWellFounded, WFMin
<1>2. ASSUME NEW x \in T, NEW y \in T, y < x
      PROVE  <<y, x>> \in OpToRel(<, Nat)
  <2>1. <<y, x>> \in Nat \X Nat
    BY <1>2
  <2> DEFINE s == <<y, x>>
  <2>2. s[1] < s[2]
    BY <1>2
  <2> QED
    BY <2>1, <2>2, <1>2 DEF OpToRel
<1> QED
  BY <1>1, <1>2

LEMMA Links ==
  ASSUME NEW S, NEW t \in Seq(S), Loads(t), NEW k \in 2 .. Len(t)
  PROVE  t[k].prev = t[k - 1]
  BY DEF Loads

\* A log that ends where the line t[j] says it does is the part of t before j.
LEMMA Chain ==
  ASSUME NEW S, NEW t \in Seq(S), NEW s \in Seq(S), Loads(t), Loads(s),
         NEW j \in 1 .. Len(t), Len(s) = j - 1, t[j].prev = LastLine(s)
  PROVE  \A k \in 1 .. j - 1 : s[k] = t[k]
<1> DEFINE D == {d \in 1 .. j - 1 : s[j - d] # t[j - d]}
<1>1. SUFFICES ASSUME D # {} PROVE FALSE
  <2>1. ASSUME NEW k \in 1 .. j - 1, s[k] # t[k] PROVE FALSE
    <3>1. j - k \in 1 .. j - 1 /\ j - (j - k) = k
      OBVIOUS
    <3> QED
      BY <2>1, <3>1
  <2> QED
    BY <2>1
<1>2. PICK d \in D : \A e \in D : ~(e < d)
  <2>1. D \subseteq Nat
    OBVIOUS
  <2> HIDE DEF D
  <2> QED
    BY <2>1, <1>1, Least
<1>3. CASE d = 1
  <2>1. s # NoLines /\ LastLine(s) = s[j - 1]
    BY <1>3, <1>2 DEF LastLine, NoLines
  <2>2. t[j].prev = t[j - 1]
    BY <1>2 DEF Loads
  <2> QED
    BY <2>1, <2>2, <1>2, <1>3
<1>4. CASE d # 1
  <2>1. d - 1 \in 1 .. j - 1 /\ ~(d - 1 \in D)
    <3>1. d \in 1 .. j - 1
      OBVIOUS
    <3>2. d - 1 < d /\ d - 1 \in 1 .. j - 1
      BY <3>1, <1>4
    <3> HIDE DEF D
    <3> QED
      BY <3>2, <1>2
  <2>2. s[j - d + 1] = t[j - d + 1]
    <3>1. j - (d - 1) = j - d + 1
      BY <2>1
    <3> QED
      BY <2>1, <3>1
  <2>3. j - d + 1 \in 2 .. Len(s) /\ j - d + 1 \in 2 .. Len(t)
    BY <2>1, <1>2
  <2>4. s[j - d + 1].prev = s[j - d] /\ t[j - d + 1].prev = t[j - d]
    <3>1. (j - d + 1) - 1 = j - d
      BY <1>2
    <3>2. s[j - d + 1].prev = s[(j - d + 1) - 1]
      BY <2>3, Links
    <3>3. t[j - d + 1].prev = t[(j - d + 1) - 1]
      BY <2>3, Links
    <3> QED
      BY <3>1, <3>2, <3>3
  <2> QED
    BY <2>2, <2>4, <1>2
<1> QED
  BY <1>3, <1>4

LEMMA OverlayType ==
  ASSUME NEW S, Torn \in S, NEW a \in Seq(S), NEW b \in Seq(S),
         NEW c \in Overlay(a, b)
  PROVE  c \in Seq(S)
<1> DEFINE rest == SubSeq(b, Len(a) + 1, Len(b))
<1>1. rest \in Seq(S)
  OBVIOUS
<1>2. a \o rest \in Seq(S) /\ a \o <<Torn>> \in Seq(S)
  BY <1>1
<1> QED
  BY <1>2 DEF Overlay

LEMMA AppendedType ==
  ASSUME NEW S, Torn \in S, text \in Seq(S), NEW p, NEW new \in S
  PROVE  Appended(p, new) \in Seq(S)
<1>1. text \o <<new>> \in Seq(S)
  OBVIOUS
<1>2. text # NoLines => SubSeq(text, 1, Len(text) - 1) \o <<Torn>> \in Seq(S)
  BY DEF NoLines
<1> QED
  BY <1>1, <1>2 DEF Appended
-----------------------------------------------------------------------------
(* Types, and what every line was made from.                                *)

LEMMA InitType == Init => TypeInv
<1>1. NoLines \in Seq(MadeLines)
  BY DEF NoLines
<1> SUFFICES ASSUME Init PROVE TypeInv
  OBVIOUS
<1>2. MadeSound /\ InFlight
  BY DEF Init, MadeSound, InFlight
<1>3. TypeOK
  <2> DEFINE S == Seq(MadeLines)
  <2>1. NoLines \in S
    BY <1>1
  <2> HIDE DEF S
  <2>2. seen \in [Procs -> S] /\ buf \in [Procs -> S] /\ text \in S /\ reported \in S
    BY <2>1 DEF Init
  <2>3. /\ pc \in [Procs -> {"idle", "reread", "truncate", "write", "append"}]
        /\ line \in [Procs -> MadeLines \cup {Null}]
    BY DEF Init
  <2>4. commands \in 0 .. MaxCommands /\ trouble \in 0 .. MaxTrouble
    BY LogAssumption DEF Init
  <2> QED
    BY <2>2, <2>3, <2>4 DEF Init, TypeOK, S
<1> QED
  BY <1>2, <1>3 DEF TypeInv

\* The states of one process change; what was made stays as it is.
LEMMA SameMade ==
  ASSUME TypeInv, UNCHANGED made,
         text' \in Seq(MadeLines), reported' \in Seq(MadeLines),
         pc' \in [Procs -> {"idle", "reread", "truncate", "write", "append"}],
         seen' \in [Procs -> Seq(MadeLines)], buf' \in [Procs -> Seq(MadeLines)],
         line' \in [Procs -> MadeLines \cup {Null}],
         kind' = kind, commands' \in 0 .. MaxCommands, trouble' \in 0 .. MaxTrouble,
         calm' \in BOOLEAN, deleted' \in BOOLEAN,
         \A p \in Procs : pc'[p] # "idle" => pc[p] # "idle" /\ line'[p] = line[p]
  PROVE  TypeInv'
<1>1. MadeLines' = MadeLines
  BY DEF MadeLines
<1>2. TypeOK'
  BY <1>1 DEF TypeOK, TypeInv
<1>3. MadeSound'
  BY <1>1 DEF TypeInv, MadeSound, Sound
<1>4. InFlight'
  BY <1>1 DEF TypeInv, InFlight
<1> QED
  BY <1>2, <1>3, <1>4 DEF TypeInv

LEMMA LoadType ==
  ASSUME TypeInv, NEW p \in Procs, Load(p)
  PROVE  TypeInv'
<1>0. PICK sha \in Capsules, verdict \in Verdicts :
        \E m : /\ m = [line |-> NewLine(text, sha, verdict, commands'), from |-> text]
              /\ MayAdd(text, sha, verdict)
              /\ line' = [line EXCEPT ![p] = m.line]
              /\ buf' = [buf EXCEPT ![p] = <<m.line>>]
              /\ made' = made \cup {m}
  <2>1. PICK sha \in Capsules, verdict \in Verdicts :
          LET new == NewLine(text, sha, verdict, commands')
          IN /\ MayAdd(text, sha, verdict)
             /\ line' = [line EXCEPT ![p] = new]
             /\ buf' = [buf EXCEPT ![p] = <<new>>]
             /\ made' = made \cup {[line |-> new, from |-> text]}
    BY DEF Load
  <2> WITNESS sha \in Capsules, verdict \in Verdicts
  <2> WITNESS [line |-> NewLine(text, sha, verdict, commands'), from |-> text]
  <2> QED
    BY <2>1
<1>1. PICK m :
        /\ m = [line |-> NewLine(text, sha, verdict, commands'), from |-> text]
        /\ MayAdd(text, sha, verdict)
        /\ line' = [line EXCEPT ![p] = m.line]
        /\ buf' = [buf EXCEPT ![p] = <<m.line>>]
        /\ made' = made \cup {m}
  BY <1>0
<1>2. MadeLines' = MadeLines \cup {m.line}
  BY <1>1 DEF MadeLines
<1>3. m.line # Torn /\ m.line.seq = Len(text) /\ m.line.prev = LastLine(text)
      /\ m.line.sha = sha /\ m.line.verdict = verdict /\ m.from = text
  BY <1>1 DEF NewLine, Torn, TypeInv, TypeOK
<1>4. \A T : T \in Seq(MadeLines) => T \in Seq(MadeLines')
  BY <1>2, SeqGrows
<1>5. TypeOK'
  <2>1. /\ text' \in Seq(MadeLines') /\ reported' \in Seq(MadeLines')
        /\ seen' \in [Procs -> Seq(MadeLines')]
    BY <1>4 DEF Load, TypeInv, TypeOK
  <2>2. <<m.line>> \in Seq(MadeLines')
    BY <1>2
  <2>3. buf' \in [Procs -> Seq(MadeLines')]
    BY <1>1, <1>4, <2>2 DEF TypeInv, TypeOK
  <2>4. line' \in [Procs -> MadeLines' \cup {Null}]
    BY <1>1, <1>2 DEF TypeInv, TypeOK
  <2>5. /\ commands' \in 0 .. MaxCommands
        /\ pc' \in [Procs -> {"idle", "reread", "truncate", "write", "append"}]
    BY LogAssumption DEF Load, TypeInv, TypeOK, AfterLoad, Becomes
  <2> QED
    BY <2>1, <2>3, <2>4, <2>5 DEF Load, TypeInv, TypeOK
<1>6. MadeSound'
  <2>1. Sound(m)'
    <3>1. text \in Seq(MadeLines')
      BY <1>4 DEF TypeInv, TypeOK
    <3> QED
      BY <1>1, <1>3, <3>1 DEF Sound, Load
  <2>2. ASSUME NEW x \in made PROVE Sound(x)'
    BY <1>4 DEF TypeInv, MadeSound, Sound
  <2> QED
    BY <1>1, <2>1, <2>2 DEF MadeSound
<1>7. InFlight'
  <2>1. line'[p] = m.line
    BY <1>1 DEF TypeInv, TypeOK
  <2>2. \A q \in Procs \ {p} : line'[q] = line[q] /\ pc'[q] = pc[q]
    BY <1>1 DEF TypeInv, TypeOK, Load, Becomes
  <2> QED
    BY <1>2, <1>3, <2>1, <2>2 DEF TypeInv, InFlight
<1> QED
  BY <1>5, <1>6, <1>7 DEF TypeInv

LEMMA NextType == TypeInv /\ [Next]_vars => TypeInv'
<1> SUFFICES ASSUME TypeInv, [Next]_vars PROVE TypeInv'
  OBVIOUS
<1> DEFINE S == MadeLines
<1>0. Torn \in S /\ text \in Seq(S) /\ NoLines \in Seq(S)
  BY DEF MadeLines, TypeInv, TypeOK, NoLines
<1>1. ASSUME NEW p \in Procs, Ends(p)
      PROVE  /\ pc' \in [Procs -> {"idle", "reread", "truncate", "write", "append"}]
             /\ seen' \in [Procs -> Seq(S)]
             /\ buf' \in [Procs -> Seq(S)]
             /\ line' \in [Procs -> S \cup {Null}]
             /\ \A q \in Procs : pc'[q] # "idle" => pc[q] # "idle" /\ line'[q] = line[q]
  <2> HIDE DEF S
  <2> QED
    BY <1>0, <1>1 DEF Ends, Becomes, TypeInv, TypeOK, S
<1>2. ASSUME NEW p \in Procs, Refuse(p) PROVE TypeInv'
  <2>1. commands' \in 0 .. MaxCommands
    BY <1>2, LogAssumption DEF Refuse, TypeInv, TypeOK
  <2> QED
    BY <1>2, <2>1, SameMade DEF Refuse, TypeInv, TypeOK
<1>3. ASSUME NEW p \in Procs, Killed(p) PROVE TypeInv'
  <2>1. trouble' \in 0 .. MaxTrouble
    BY <1>3, LogAssumption DEF Killed, TypeInv, TypeOK
  <2> QED
    BY <1>1, <1>3, <2>1, SameMade DEF Killed, TypeInv, TypeOK
<1>4. ASSUME NEW p \in Procs, Reread(p) PROVE TypeInv'
  <2>1. text \o <<line[p]>> \in Seq(S)
    <3>1. line[p] \in S
      BY <1>4 DEF Reread, TypeInv, InFlight
    <3> HIDE DEF S
    <3> QED
      BY <1>0, <3>1
  <2>2. buf' \in [Procs -> Seq(S)]
    BY <1>4, <2>1 DEF Reread, TypeInv, TypeOK
  <2>3. /\ pc' \in [Procs -> {"idle", "reread", "truncate", "write", "append"}]
        /\ \A q \in Procs : pc'[q] # "idle" => pc[q] # "idle"
    BY <1>4 DEF Reread, Becomes, TypeInv, TypeOK
  <2> QED
    BY <1>4, <2>2, <2>3, SameMade DEF Reread, tools, TypeInv, TypeOK
<1>5. ASSUME NEW p \in Procs, RereadFails(p) PROVE TypeInv'
  <2>1. trouble' \in 0 .. MaxTrouble
    BY <1>5, LogAssumption DEF RereadFails, TypeInv, TypeOK
  <2>2. /\ pc' \in [Procs -> {"idle", "reread", "truncate", "write", "append"}]
        /\ \A q \in Procs : pc'[q] # "idle" => pc[q] # "idle"
    BY <1>5 DEF RereadFails, Becomes, TypeInv, TypeOK
  <2> QED
    BY <1>5, <2>1, <2>2, SameMade DEF RereadFails, TypeInv, TypeOK
<1>6. ASSUME NEW p \in Procs, Truncate(p) PROVE TypeInv'
  <2>1. /\ pc' \in [Procs -> {"idle", "reread", "truncate", "write", "append"}]
        /\ \A q \in Procs : pc'[q] # "idle" => pc[q] # "idle"
    BY <1>6 DEF Truncate, Becomes, TypeInv, TypeOK
  <2> QED
    BY <1>0, <1>6, <2>1, SameMade DEF Truncate, tools, TypeInv, TypeOK
<1>7. ASSUME NEW p \in Procs, pc[p] # "idle", reported' = Append(reported, line[p])
      PROVE  reported' \in Seq(S)
  <2>1. line[p] \in S /\ reported \in Seq(S)
    BY <1>7 DEF TypeInv, InFlight, TypeOK
  <2> HIDE DEF S
  <2> QED
    BY <1>7, <2>1
<1>3a. ASSUME NEW p \in Procs, Write(p) PROVE TypeInv'
  <2>1. buf[p] \in Seq(S)
    BY DEF TypeInv, TypeOK
  <2>2. text' \in Seq(S)
    BY <1>0, <1>3a, <2>1, OverlayType DEF Write
  <2> QED
    BY <1>1, <1>7, <1>3a, <2>2, SameMade DEF Write, tools, TypeInv, TypeOK
<1>9. ASSUME NEW p \in Procs, WriteFails(p) PROVE TypeInv'
  <2>1. buf[p] \in Seq(S)
    BY DEF TypeInv, TypeOK
  <2>2. PICK k \in 0 .. Len(buf[p]) - 1, cut \in {NoLines, <<Torn>>} :
          text' \in Overlay(SubSeq(buf[p], 1, k) \o cut, text)
    BY <1>9 DEF WriteFails
  <2>3. SubSeq(buf[p], 1, k) \o cut \in Seq(S)
    <3> HIDE DEF S
    <3>1. SubSeq(buf[p], 1, k) \in Seq(S)
      BY <2>1
    <3>2. <<Torn>> \in Seq(S)
      BY <1>0
    <3>3. CASE cut = NoLines
      BY <1>0, <3>1, <3>3
    <3>4. CASE cut = <<Torn>>
      BY <3>1, <3>2, <3>4
    <3> QED
      BY <3>3, <3>4
  <2>4. text' \in Seq(S)
    BY <1>0, <2>2, <2>3, OverlayType
  <2>5. trouble' \in 0 .. MaxTrouble
    BY <1>9, LogAssumption DEF WriteFails, TypeInv, TypeOK
  <2> QED
    BY <1>1, <1>9, <2>4, <2>5, SameMade DEF WriteFails, TypeInv, TypeOK
<1>10. ASSUME NEW p \in Procs, AppendLine(p) PROVE TypeInv'
  <2>1. line[p] \in S
    BY <1>10 DEF AppendLine, TypeInv, InFlight
  <2>2. text' \in Seq(S)
    BY <1>0, <1>10, <2>1, AppendedType DEF AppendLine
  <2> QED
    BY <1>1, <1>7, <1>10, <2>2, SameMade DEF AppendLine, tools, TypeInv, TypeOK
<1>11. ASSUME NEW p \in Procs, AppendFails(p) PROVE TypeInv'
  <2>1. text' \in Seq(S)
    BY <1>0, <1>11, AppendedType DEF AppendFails
  <2>2. trouble' \in 0 .. MaxTrouble
    BY <1>11, LogAssumption DEF AppendFails, TypeInv, TypeOK
  <2> QED
    BY <1>1, <1>11, <2>1, <2>2, SameMade DEF AppendFails, TypeInv, TypeOK
<1>12. CASE TakeCheckpoint
  BY <1>12, SameMade DEF TakeCheckpoint, TypeInv, TypeOK
<1>13. CASE Delete
  <2>1. trouble' \in 0 .. MaxTrouble
    BY <1>13, LogAssumption DEF Delete, TypeInv, TypeOK
  <2> QED
    BY <1>0, <1>13, <2>1, SameMade DEF Delete, TypeInv, TypeOK
<1>14. CASE UNCHANGED vars
  BY <1>14, SameMade DEF vars, TypeInv, TypeOK
<1> QED
  BY <1>2, <1>3, <1>4, <1>5, <1>6, <1>3a, <1>9, <1>10, <1>11, <1>12, <1>13, <1>14,
     LoadType DEF Next

\* Whatever the processes do to the file, it consists of lines that commands
\* made from a log they had loaded, and of torn ones.
THEOREM TypeCorrect == Spec => []TypeOK
<1>1. TypeInv => TypeOK
  BY DEF TypeInv
<1> QED
  BY InitType, NextType, <1>1, PTL DEF Spec
-----------------------------------------------------------------------------
(* One acceptance of a capsule.                                             *)

\* The lines before a line are those it was made from, so an acceptance does not
\* repeat one that stands before it.
LEMMA NoRepeat ==
  ASSUME TypeInv, Loads(text), NEW sha,
         NEW i \in FindAccepted(text, sha), NEW j \in FindAccepted(text, sha), i < j
  PROVE  FALSE
<1>1. i \in 1 .. Len(text) /\ j \in 1 .. Len(text)
  BY DEF FindAccepted
<1>2. text[j].seq = j - 1 /\ text[j].prev = text[j - 1]
  BY <1>1 DEF Loads, TypeInv, TypeOK
<1>3. text[j] # Torn
  BY <1>1, <1>2 DEF Torn
<1>4. PICK m \in made : m.line = text[j]
  BY <1>1, <1>3 DEF TypeInv, TypeOK, MadeLines
<1>5. Sound(m)
  BY DEF TypeInv, MadeSound
<1> DEFINE s == m.from
<1>6. s \in Seq(MadeLines) /\ Loads(s) /\ Len(s) = j - 1 /\ text[j].prev = LastLine(s)
  BY <1>2, <1>4, <1>5 DEF Sound
<1>7. text \in Seq(MadeLines)
  BY DEF TypeInv, TypeOK
<1> HIDE DEF s
<1>3a. \A k \in 1 .. j - 1 : s[k] = text[k]
  BY <1>1, <1>6, <1>7, Chain
<1>9. i \in 1 .. Len(s) /\ s[i] = text[i]
  BY <1>1, <1>6, <1>3a
<1>10. i \in FindAccepted(s, sha)
  BY <1>9 DEF FindAccepted
<1>11. MayAdd(s, sha, "accepted")
  BY <1>4, <1>5 DEF Sound, FindAccepted, s
<1> QED
  BY <1>10, <1>11 DEF MayAdd

LEMMA OnceInv == TypeInv => AcceptedOnce
<1> SUFFICES ASSUME TypeInv, Loads(text), NEW sha \in Capsules
             PROVE  Cardinality(FindAccepted(text, sha)) <= 1
  BY DEF AcceptedOnce
<1> DEFINE F == FindAccepted(text, sha)
<1>1. ASSUME NEW i \in F, NEW j \in F PROVE i = j
  <2>1. i \in Int /\ j \in Int
    BY DEF FindAccepted
  <2>2. ~(i < j) /\ ~(j < i)
    BY NoRepeat
  <2> QED
    BY <2>1, <2>2
<1> HIDE DEF F
<1>2. CASE F = {}
  BY <1>2, FS_EmptySet DEF F
<1>3. CASE F # {}
  <2>1. PICK x : F = {x}
    BY <1>1, <1>3
  <2> QED
    BY <2>1, FS_Singleton DEF F
<1> QED
  BY <1>2, <1>3

\* Through any interleaving, failure and kill of the commands, a settlement
\* ledger that loads accepts each capsule at most once.
THEOREM AcceptsOnce == Spec => []AcceptedOnce
  BY InitType, NextType, OnceInv, PTL DEF Spec
-----------------------------------------------------------------------------
(* What was reported stays.                                                 *)

LEMMA EmptyEnd ==
  ASSUME NEW S, NEW s \in Seq(S)
  PROVE  s \o <<>> = s
  OBVIOUS

LEMMA LoadsAppend ==
  ASSUME NEW S, NEW t \in Seq(S), NEW l, Loads(t),
         l.seq = Len(t), l.prev = LastLine(t)
  PROVE  Loads(Append(t, l))
<1> SUFFICES ASSUME NEW i \in 1 .. Len(t) + 1
             PROVE  /\ Append(t, l)[i].seq = i - 1
                    /\ Append(t, l)[i].prev = IF i = 1 THEN Null ELSE Append(t, l)[i - 1]
  BY DEF Loads
<1>1. CASE i \in 1 .. Len(t)
  <2>1. Append(t, l)[i] = t[i] /\ (i # 1 => Append(t, l)[i - 1] = t[i - 1])
    BY <1>1
  <2> QED
    BY <1>1, <2>1 DEF Loads
<1>2. CASE i = Len(t) + 1
  <2>1. Append(t, l)[i] = l /\ (i # 1 => Append(t, l)[i - 1] = t[i - 1])
    BY <1>2
  <2>2. l.prev = IF i = 1 THEN Null ELSE t[i - 1]
    BY <1>2 DEF LastLine, NoLines
  <2> QED
    BY <1>2, <2>1, <2>2
<1> QED
  BY <1>1, <1>2

LEMMA LoadsFront ==
  ASSUME NEW S, NEW t \in Seq(S), NEW l, Loads(t \o <<l>>)
  PROVE  Loads(t) /\ l.seq = Len(t)
<1>1. Len(t \o <<l>>) = Len(t) + 1 /\ (t \o <<l>>)[Len(t) + 1] = l
  OBVIOUS
<1>2. \A i \in 1 .. Len(t) : (t \o <<l>>)[i] = t[i]
  OBVIOUS
<1>3. l.seq = Len(t)
  BY <1>1 DEF Loads
<1>4. ASSUME NEW i \in 1 .. Len(t)
      PROVE  t[i].seq = i - 1 /\ t[i].prev = IF i = 1 THEN Null ELSE t[i - 1]
  <2>1. i \in 1 .. Len(t \o <<l>>)
    BY <1>1
  <2>2. i # 1 => (t \o <<l>>)[i - 1] = t[i - 1]
    BY <1>2
  <2> QED
    BY <1>2, <2>1, <2>2 DEF Loads
<1> QED
  BY <1>3, <1>4 DEF Loads

LEMMA TornEnds ==
  ASSUME NEW S, NEW t \in Seq(S)
  PROVE  ~Loads(t \o <<Torn>>)
<1> SUFFICES ASSUME Loads(t \o <<Torn>>) PROVE FALSE
  OBVIOUS
<1>1. Torn.seq = Len(t)
  BY LoadsFront
<1> QED
  BY <1>1 DEF Torn

LEMMA NextPcOfKind == TypeInv /\ PcOfKind /\ [Next]_vars => PcOfKind'
  BY ZenonT(30) DEF TypeInv, TypeOK, PcOfKind, Ledger, Next, vars, tools, Becomes, Ends, Refuse,
         Load, AfterLoad, Killed, Reread, RereadFails, Truncate, Write, WriteFails,
         AppendLine, AppendFails, TakeCheckpoint, Delete

LEMMA NextInPlace ==
  ASSUME TypeInv, OrderInv, [Next]_vars, ~Ledger', ~deleted', Loads(text)'
  PROVE  InPlace'
<1>1. ~Ledger /\ ~deleted
  <2>1. kind' = kind
    BY DEF Next, vars, tools, Refuse, Load, Killed, Reread, RereadFails, Truncate,
           Write, WriteFails, AppendLine, AppendFails, TakeCheckpoint, Delete
  <2>2. deleted' = deleted \/ deleted' = TRUE
    BY DEF Next, vars, tools, Refuse, Load, Killed, Reread, RereadFails, Truncate,
           Write, WriteFails, AppendLine, AppendFails, TakeCheckpoint, Delete
  <2>3. deleted' \in BOOLEAN /\ deleted \in BOOLEAN
    BY NextType DEF TypeInv, TypeOK
  <2> QED
    BY <2>1, <2>2, <2>3 DEF Ledger
<1>2. text \in Seq(MadeLines) /\ reported \in Seq(MadeLines)
  BY DEF TypeInv, TypeOK
<1>3. CASE UNCHANGED <<text, reported>>
  BY <1>1, <1>3 DEF OrderInv, InPlace
<1>3a. text # NoLines => ~Loads(SubSeq(text, 1, Len(text) - 1) \o <<Torn>>)
  <2>1. text # NoLines => SubSeq(text, 1, Len(text) - 1) \in Seq(MadeLines)
    BY <1>2 DEF NoLines
  <2> QED
    BY <2>1, TornEnds
<1>4. ASSUME NEW p \in Procs, AppendLine(p) PROVE InPlace'
  <2>1. text' = text \o <<line[p]>>
    BY <1>4, <1>3a DEF AppendLine, Appended
  <2>2. Loads(text) /\ line[p].seq = Len(text)
    BY <1>2, <2>1, LoadsFront
  <2>3. InPlace
    BY <1>1, <2>2 DEF OrderInv
  <2>4. reported' = Append(reported, line[p])
    BY <1>4 DEF AppendLine
  <2> SUFFICES ASSUME NEW i \in 1 .. Len(reported')
               PROVE  /\ reported'[i].seq + 1 \in 1 .. Len(text')
                      /\ text'[reported'[i].seq + 1] = reported'[i]
    BY DEF InPlace
  <2>5. CASE i \in 1 .. Len(reported)
    <3>1. reported'[i] = reported[i]
      BY <1>2, <2>4, <2>5
    <3>2. /\ reported[i].seq + 1 \in 1 .. Len(text)
          /\ text[reported[i].seq + 1] = reported[i]
      BY <2>3, <2>5 DEF InPlace
    <3> QED
      BY <1>2, <2>1, <3>1, <3>2
  <2>6. CASE i = Len(reported) + 1
    <3>1. reported'[i] = line[p]
      BY <1>2, <2>4, <2>6
    <3>2. Len(text) \in Nat /\ Len(text') = Len(text) + 1 /\ text'[Len(text) + 1] = line[p]
      BY <1>2, <2>1
    <3> QED
      BY <2>2, <3>1, <3>2
  <2> QED
    BY <1>2, <2>4, <2>5, <2>6
<1>5. ASSUME NEW p \in Procs, AppendFails(p) PROVE InPlace'
  <2>1. CASE text' = text
    BY <1>3, <1>5, <2>1 DEF AppendFails
  <2>2. CASE text' = Appended(p, Torn)
    <3>1. ~Loads(text \o <<Torn>>)
      BY <1>2, TornEnds
    <3> QED
      BY <1>3a, <2>2, <3>1 DEF Appended
  <2> QED
    BY <1>5, <2>1, <2>2 DEF AppendFails
<1>6. ASSUME NEW p \in Procs, Truncate(p) \/ Write(p) \/ WriteFails(p) PROVE FALSE
  BY <1>1, <1>6 DEF OrderInv, PcOfKind, Truncate, Write, WriteFails
<1>7. CASE Delete
  BY <1>7 DEF Delete
<1> QED
  BY <1>3, <1>4, <1>5, <1>6, <1>7
  DEF Next, vars, Refuse, Load, Killed, Reread, RereadFails, TakeCheckpoint

\* The step of the only command that runs, or of the first to run.
LEMMA NextOrderly ==
  ASSUME TypeInv, OrderInv, [Next]_vars, calm'
  PROVE  Orderly'
<1>1. calm /\ Orderly
  <2>1. calm' = calm \/ (calm' = (calm /\ \A q \in Procs : pc[q] = "idle")) \/ calm' = FALSE
    BY DEF Next, vars, tools, Refuse, Load, Killed, Reread, RereadFails, Truncate,
           Write, WriteFails, AppendLine, AppendFails, TakeCheckpoint, Delete
  <2> QED
    BY <2>1 DEF OrderInv, TypeInv, TypeOK
<1>2. text \in Seq(MadeLines) /\ reported \in Seq(MadeLines)
  BY DEF TypeInv, TypeOK
<1>3. ASSUME NEW p \in Procs, pc[p] # "idle"
      PROVE  Continues(p) /\ \A q \in Procs : q # p => pc[q] = "idle"
  BY <1>1, <1>3 DEF Orderly
<1>4. CASE UNCHANGED <<pc, text, reported, seen, line, buf>>
  BY <1>1, <1>4 DEF Orderly, Continues
<1>5. ASSUME NEW p \in Procs, Load(p) PROVE Orderly'
  <2>1. \A q \in Procs : pc[q] = "idle"
    BY <1>5 DEF Load, TypeInv, TypeOK
  <2>2. text = reported /\ Loads(reported)
    BY <1>1, <2>1 DEF Orderly
  <2>3. PICK new : /\ seen' = [seen EXCEPT ![p] = text]
                   /\ line' = [line EXCEPT ![p] = new]
                   /\ buf' = [buf EXCEPT ![p] = <<new>>]
                   /\ new.seq = Len(text) /\ new.prev = LastLine(text)
    <3>1. PICK sha \in Capsules, verdict \in Verdicts :
            /\ line' = [line EXCEPT ![p] = NewLine(text, sha, verdict, commands')]
            /\ buf' = [buf EXCEPT ![p] = <<NewLine(text, sha, verdict, commands')>>]
      BY <1>5 DEF Load
    <3>2. /\ NewLine(text, sha, verdict, commands').seq = Len(text)
          /\ NewLine(text, sha, verdict, commands').prev = LastLine(text)
      BY DEF NewLine
    <3>3. seen' = [seen EXCEPT ![p] = text]
      BY <1>5 DEF Load
    <3> QED
      BY <3>1, <3>2, <3>3
  <2>4. pc' = [pc EXCEPT ![p] = AfterLoad(text)] /\ UNCHANGED <<text, reported>>
    BY <1>5 DEF Load, Becomes
  <2>5. /\ \A q \in Procs : q # p => pc'[q] = "idle"
        /\ pc'[p] = AfterLoad(text) /\ seen'[p] = text /\ line'[p] = new /\ buf'[p] = <<new>>
    BY <2>1, <2>3, <2>4 DEF TypeInv, TypeOK
  <2>6. AfterLoad(text) \in {"append", "truncate", "reread"}
        /\ (AfterLoad(text) = "truncate" => text = NoLines)
    BY DEF AfterLoad
  <2>7. text = NoLines => <<new>> = Append(reported, new)
    BY <2>2 DEF NoLines
  <2>8. Continues(p)'
    BY <2>2, <2>3, <2>4, <2>5, <2>6, <2>7 DEF Continues
  <2> QED
    BY <2>2, <2>4, <2>5, <2>6, <2>8 DEF Orderly
<1>6. ASSUME NEW p \in Procs, Reread(p) \/ Truncate(p) PROVE Orderly'
  <2>1. Continues(p) /\ \A q \in Procs : q # p => pc[q] = "idle"
    BY <1>3, <1>6 DEF Reread, Truncate
  <2>2. /\ \A q \in Procs : q # p => pc'[q] = "idle"
        /\ pc'[p] = (IF pc[p] = "reread" THEN "truncate" ELSE "write")
        /\ UNCHANGED <<line, seen, reported>>
    BY <1>6, <2>1 DEF Reread, Truncate, Becomes, TypeInv, TypeOK
  <2>3. CASE Reread(p)
    <3>1. buf'[p] = text \o <<line[p]>> /\ text' = text /\ text = reported
      BY <2>1, <2>3 DEF Reread, Continues, TypeInv, TypeOK
    <3>2. text \o <<line[p]>> = Append(text, line[p])
      BY <1>2
    <3>3. Continues(p)'
      BY <2>1, <2>2, <2>3, <3>1, <3>2 DEF Continues, Reread
    <3> QED
      BY <1>1, <2>2, <2>3, <3>3 DEF Orderly, Reread
  <2>4. CASE Truncate(p)
    <3>1. Continues(p)'
      BY <2>1, <2>2, <2>4 DEF Continues, Truncate
    <3> QED
      BY <1>1, <2>2, <2>4, <3>1 DEF Orderly, Truncate
  <2> QED
    BY <1>6, <2>3, <2>4
<1>7. ASSUME NEW p \in Procs, Write(p) \/ AppendLine(p) PROVE Orderly'
  <2>1. Continues(p) /\ \A q \in Procs : q # p => pc[q] = "idle"
    BY <1>3, <1>7 DEF Write, AppendLine
  <2>2. \A q \in Procs : pc'[q] = "idle"
    BY <1>7, <2>1 DEF Write, AppendLine, Ends, Becomes, TypeInv, TypeOK
  <2>3. reported' = Append(reported, line[p])
    BY <1>7 DEF Write, AppendLine
  <2>4. Loads(reported')
    BY <1>1, <1>2, <2>1, <2>3, LoadsAppend DEF Orderly, Continues
  <2>5. text' = reported'
    <3>1. CASE Write(p)
      <4>1. text = NoLines /\ buf[p] = reported'
        BY <2>1, <2>3, <3>1 DEF Write, Continues
      <4>2. buf[p] \in Seq(MadeLines)
        BY DEF TypeInv, TypeOK
      <4>3. Len(NoLines) = 0 /\ Len(buf[p]) + 1 > 0
        BY <4>2 DEF NoLines
      <4>4. SubSeq(NoLines, Len(buf[p]) + 1, Len(NoLines)) = <<>>
        BY <4>3 DEF NoLines
      <4>5. buf[p] \o SubSeq(NoLines, Len(buf[p]) + 1, Len(NoLines)) = buf[p]
        BY <4>2, <4>4, EmptyEnd
      <4> QED
        BY <3>1, <4>1, <4>5 DEF Write, Overlay
    <3>2. CASE AppendLine(p)
      <4>1. text = reported /\ seen[p] = reported
        BY <2>1, <3>2 DEF AppendLine, Continues
      <4>2. text \o <<line[p]>> = Append(text, line[p])
        BY <1>2
      <4> QED
        BY <2>3, <3>2, <4>1, <4>2 DEF AppendLine, Appended
    <3> QED
      BY <1>7, <3>1, <3>2
  <2> QED
    BY <2>2, <2>4, <2>5 DEF Orderly
<1>8. ASSUME NEW p \in Procs,
             Killed(p) \/ RereadFails(p) \/ WriteFails(p) \/ AppendFails(p)
      PROVE  FALSE
  BY <1>8 DEF Killed, RereadFails, WriteFails, AppendFails
<1>9. ~Delete
  BY DEF Delete
<1> QED
  BY <1>4, <1>5, <1>6, <1>7, <1>8, <1>9 DEF Next, vars, Refuse, TakeCheckpoint

LEMMA InitOrder == Init => OrderInv
<1> SUFFICES ASSUME Init PROVE OrderInv
  OBVIOUS
<1>1. Loads(NoLines)
  BY DEF Loads, NoLines
<1> QED
  BY <1>1 DEF Init, OrderInv, PcOfKind, Orderly, InPlace, NoLines

LEMMA NextOrder == TypeInv /\ OrderInv /\ [Next]_vars => OrderInv'
  BY NextPcOfKind, NextOrderly, NextInPlace DEF OrderInv

LEMMA OrderMeans == OrderInv => ReportedStays
  BY DEF OrderInv, Orderly, InPlace, ReportedStays

\* Commands that run one at a time leave exactly what they reported, and in an
\* anchor log that nobody deleted and that loads, every reported line is in its
\* place, whatever else ran, failed or was killed.
THEOREM ReportsHold == Spec => []ReportedStays
<1>1. Init => TypeInv /\ OrderInv
  BY InitType, InitOrder
<1>2. (TypeInv /\ OrderInv) /\ [Next]_vars => (TypeInv /\ OrderInv)'
  BY NextType, NextOrder
<1> QED
  BY <1>1, <1>2, OrderMeans, PTL DEF Spec
-----------------------------------------------------------------------------
(* The Merkle tree over the lines of a log.                                 *)

\* s is a sequence of n nodes; what a node is does not matter.
Nodes(s, n) == n \in Nat /\ s = [k \in 1 .. n |-> s[k]] /\ Len(s) = n

LEMMA NodesAre ==
  ASSUME NEW n \in Nat, NEW s, s = [k \in 1 .. n |-> s[k]]
  PROVE  Nodes(s, n)
<1> DEFINE S == {s[k] : k \in 1 .. n}
<1>1. s \in [1 .. n -> S]
  OBVIOUS
<1> HIDE DEF S
<1>2. s \in Seq(S) /\ Len(s) = n
  BY <1>1
<1> QED
  BY <1>2 DEF Nodes

LEMMA LogNodes ==
  ASSUME NEW S, NEW s \in Seq(S)
  PROVE  Nodes(s, Len(s))
<1>1. Len(s) \in Nat /\ s \in [1 .. Len(s) -> S]
  BY LenProperties
<1> QED
  BY <1>1 DEF Nodes

\* The nodes of the level above a level of n nodes.
LEMMA AboveIs ==
  ASSUME NEW n, NEW s, Nodes(s, n)
  PROVE  /\ Nodes(LevelAbove(s), (n + 1) \div 2)
         /\ \A k \in 1 .. (n + 1) \div 2 :
              LevelAbove(s)[k] = <<s[2 * k - 1],
                                   IF 2 * k - 1 < n THEN s[2 * k] ELSE s[2 * k - 1]>>
<1>1. n \in Nat /\ Len(s) = n /\ (n + 1) \div 2 \in Nat
  BY DEF Nodes
<1>2. LevelAbove(s) = [k \in 1 .. (n + 1) \div 2 |-> <<s[2 * k - 1], Sibling(s, 2 * k - 1)>>]
  BY <1>1 DEF LevelAbove
<1>3. Nodes(LevelAbove(s), (n + 1) \div 2)
  BY <1>1, <1>2, NodesAre
<1>4. ASSUME NEW k \in 1 .. (n + 1) \div 2
      PROVE  Sibling(s, 2 * k - 1) = IF 2 * k - 1 < n THEN s[2 * k] ELSE s[2 * k - 1]
  <2>1. (2 * k - 1) % 2 = 1 /\ 2 * k - 1 + 1 = 2 * k
    BY <1>1
  <2> QED
    BY <1>1, <2>1 DEF Sibling
<1> QED
  BY <1>2, <1>3, <1>4

\* Node i goes into the node that it is paired to, on the side of its parity.
LEMMA AbovePlace ==
  ASSUME NEW n, NEW s, Nodes(s, n), NEW i \in 1 .. n
  PROVE  /\ (i + 1) \div 2 \in 1 .. (n + 1) \div 2
         /\ LevelAbove(s)[(i + 1) \div 2] =
              IF i % 2 = 0 THEN <<Sibling(s, i), s[i]>> ELSE <<s[i], Sibling(s, i)>>
<1> DEFINE k == (i + 1) \div 2
<1>1. n \in Nat /\ Len(s) = n
  BY DEF Nodes
<1>2. k \in 1 .. (n + 1) \div 2
  BY <1>1
<1>3. LevelAbove(s)[k] = <<s[2 * k - 1], IF 2 * k - 1 < n THEN s[2 * k] ELSE s[2 * k - 1]>>
  BY <1>2, AboveIs
<1>4. CASE i % 2 = 0
  <2>1. 2 * k = i /\ 2 * k - 1 = i - 1 /\ i - 1 < n
    BY <1>1, <1>4
  <2>2. Sibling(s, i) = s[i - 1]
    BY <1>4 DEF Sibling
  <2> HIDE DEF k
  <2> QED
    BY <1>2, <1>3, <1>4, <2>1, <2>2 DEF k
<1>5. CASE i % 2 # 0
  <2>1. 2 * k = i + 1 /\ 2 * k - 1 = i
    BY <1>1, <1>5
  <2>2. Sibling(s, i) = IF i < n THEN s[i + 1] ELSE s[i]
    BY <1>1, <1>5 DEF Sibling
  <2> HIDE DEF k
  <2> QED
    BY <1>2, <1>3, <1>5, <2>1, <2>2 DEF k
<1> QED
  BY <1>4, <1>5

\* The level above tells every node of the level.
LEMMA AboveTells ==
  ASSUME NEW n, NEW s, NEW t, Nodes(s, n), Nodes(t, n), LevelAbove(s) = LevelAbove(t)
  PROVE  s = t
<1>1. n \in Nat
  BY DEF Nodes
<1>2. ASSUME NEW i \in 1 .. n PROVE s[i] = t[i]
  <2> DEFINE k == (i + 1) \div 2
  <2>1. k \in 1 .. (n + 1) \div 2
    BY AbovePlace
  <2>2. LevelAbove(s)[k] = <<s[2 * k - 1], IF 2 * k - 1 < n THEN s[2 * k] ELSE s[2 * k - 1]>>
    BY <2>1, AboveIs
  <2>3. LevelAbove(t)[k] = <<t[2 * k - 1], IF 2 * k - 1 < n THEN t[2 * k] ELSE t[2 * k - 1]>>
    BY <2>1, AboveIs
  <2>4. i = 2 * k - 1 \/ (i = 2 * k /\ 2 * k - 1 < n)
    BY <1>1
  <2> HIDE DEF k
  <2> QED
    BY <2>2, <2>3, <2>4
<1> QED
  BY <1>2 DEF Nodes

\* f is the levels above leaves, up to level n.
IsLevels(leaves, n, f) ==
  f = [h \in 0 .. n |-> IF h = 0 THEN leaves ELSE LevelAbove(f[h - 1])]

LEMMA LevelsGrow ==
  ASSUME NEW leaves, NEW n \in Nat, n > 0, NEW g, IsLevels(leaves, n - 1, g)
  PROVE  \E f : IsLevels(leaves, n, f)
<1> DEFINE f == [h \in 0 .. n |-> IF h = n THEN LevelAbove(g[n - 1]) ELSE g[h]]
<1>1. \A h \in 0 .. n - 1 : f[h] = g[h]
  OBVIOUS
<1>2. \A h \in 0 .. n - 1 : g[h] = IF h = 0 THEN leaves ELSE LevelAbove(g[h - 1])
  BY DEF IsLevels
<1>3. f[n] = LevelAbove(g[n - 1]) /\ n - 1 \in 0 .. n - 1 /\ f = [h \in 0 .. n |-> f[h]]
  OBVIOUS
<1> HIDE DEF f
<1>4. ASSUME NEW h \in 0 .. n PROVE f[h] = IF h = 0 THEN leaves ELSE LevelAbove(f[h - 1])
  <2>1. CASE h = n
    <3>1. f[n - 1] = g[n - 1]
      BY <1>1, <1>3
    <3>2. f[n] = LevelAbove(f[n - 1]) /\ n # 0
      BY <1>3, <3>1
    <3> QED
      BY <2>1, <3>2
  <2>2. CASE h # n
    <3>1. h \in 0 .. n - 1 /\ (h # 0 => h - 1 \in 0 .. n - 1)
      BY <2>2
    <3> QED
      BY <1>1, <1>2, <3>1
  <2> QED
    BY <2>1, <2>2
<1>5. IsLevels(leaves, n, f)
  BY <1>3, <1>4 DEF IsLevels
<1> QED
  BY <1>5

LEMMA LevelsAre ==
  ASSUME NEW leaves, Len(leaves) \in Nat
  PROVE  IsLevels(leaves, Len(leaves), Levels(leaves))
<1> DEFINE Stops == {n \in Nat : \A f : ~IsLevels(leaves, n, f)}
<1>1. Stops = {}
  <2> SUFFICES ASSUME Stops # {} PROVE FALSE
    OBVIOUS
  <2>1. PICK n \in Stops : \A m \in Stops : ~(m < n)
    BY Least
  <2>2. CASE n = 0
    <3> DEFINE g == [h \in 0 .. 0 |-> leaves]
    <3>1. \A h \in 0 .. 0 : h = 0
      OBVIOUS
    <3>2. IsLevels(leaves, 0, g)
      BY <3>1 DEF IsLevels
    <3> QED
      BY <2>1, <2>2, <3>2
  <2>3. CASE n # 0
    <3>1. n \in Nat /\ n > 0 /\ n - 1 \in Nat /\ n - 1 < n
      BY <2>1, <2>3
    <3>2. PICK g : IsLevels(leaves, n - 1, g)
      BY <2>1, <3>1
    <3> QED
      BY <2>1, <3>1, <3>2, LevelsGrow
  <2> QED
    BY <2>2, <2>3
<1>2. \E f : IsLevels(leaves, Len(leaves), f)
  BY <1>1
<1> QED
  BY <1>2 DEF IsLevels, Levels

\* Every level has nodes, and each is shorter than the one below until there is
\* one of a single node.
LEMMA LevelNodes ==
  ASSUME NEW leaves, NEW n, Nodes(leaves, n), n > 0
  PROVE  /\ Levels(leaves)[0] = leaves
         /\ \A h \in 1 .. n : Levels(leaves)[h] = LevelAbove(Levels(leaves)[h - 1])
         /\ \A h \in 0 .. n : LET l == Levels(leaves)[h] IN
              Nodes(l, Len(l)) /\ Len(l) > 0 /\ (Len(l) = 1 \/ Len(l) + h <= n)
<1> DEFINE L == Levels(leaves)
           Good(h) == Nodes(L[h], Len(L[h])) /\ Len(L[h]) > 0
                      /\ (Len(L[h]) = 1 \/ Len(L[h]) + h <= n)
<1>1. n \in Nat /\ Len(leaves) = n
  BY DEF Nodes
<1>2. L = [h \in 0 .. n |-> IF h = 0 THEN leaves ELSE LevelAbove(L[h - 1])]
  BY <1>1, LevelsAre DEF IsLevels
<1> HIDE DEF L
<1>3. L[0] = leaves /\ \A h \in 1 .. n : L[h] = LevelAbove(L[h - 1])
  <2>1. 0 \in 0 .. n /\ \A h \in 1 .. n : h \in 0 .. n /\ h # 0
    BY <1>1
  <2> QED
    BY <1>2, <2>1
<1> DEFINE Bad == {h \in 0 .. n : ~Good(h)}
<1>4. Bad = {}
  <2> SUFFICES ASSUME Bad # {} PROVE FALSE
    OBVIOUS
  <2>0. Bad \subseteq Nat
    BY <1>1
  <2>1. PICK h \in Bad : \A j \in Bad : ~(j < h)
    BY <2>0, Least
  <2>2. CASE h = 0
    <3>1. Good(0)
      BY <1>1, <1>3
    <3> QED
      BY <2>1, <2>2, <3>1
  <2>3. CASE h # 0
    <3>1. h \in 1 .. n /\ h - 1 \in 0 .. n /\ h - 1 < h
      BY <1>1, <2>1, <2>3
    <3>2. Good(h - 1)
      BY <2>1, <3>1
    <3> DEFINE l == L[h - 1]
               m == Len(l)
    <3>3. Nodes(l, m) /\ m \in Nat /\ m > 0 /\ (m = 1 \/ m + h - 1 <= n)
      BY <3>1, <3>2 DEF Nodes
    <3>4. L[h] = LevelAbove(l)
      BY <1>3, <3>1
    <3> HIDE DEF l, m
    <3>5. Nodes(L[h], (m + 1) \div 2)
      BY <3>3, <3>4, AboveIs
    <3>6. Len(L[h]) = (m + 1) \div 2
      BY <3>5 DEF Nodes
    <3>7. (m + 1) \div 2 > 0 /\ ((m + 1) \div 2 = 1 \/ (m + 1) \div 2 + h <= n)
      BY <1>1, <3>1, <3>3
    <3>8. Good(h)
      BY <3>5, <3>6, <3>7
    <3> QED
      BY <2>1, <3>8
  <2> QED
    BY <2>2, <2>3
<1>5. \A h \in 0 .. n : Good(h)
  BY <1>4
<1> QED
  BY <1>3, <1>5 DEF L

LEMMA HeightIs ==
  ASSUME NEW leaves, NEW n, Nodes(leaves, n), n > 0
  PROVE  /\ Height(leaves) \in 0 .. n
         /\ Len(Levels(leaves)[Height(leaves)]) = 1
         /\ \A k \in 0 .. Height(leaves) - 1 : Len(Levels(leaves)[k]) > 1
<1> DEFINE Width(h) == Len(Levels(leaves)[h])
           Ends1 == {h \in 0 .. n : Width(h) = 1}
<1>1. n \in Nat /\ Len(leaves) = n
  BY DEF Nodes
<1>2. \A h \in 0 .. n : Width(h) \in Nat /\ Width(h) > 0 /\ (Width(h) = 1 \/ Width(h) + h <= n)
  BY LevelNodes DEF Nodes
<1> HIDE DEF Width
<1>3. n \in Ends1 /\ Ends1 \subseteq Nat
  BY <1>1, <1>2
<1>4. PICK h \in Ends1 : \A k \in Ends1 : ~(k < h)
  BY <1>3, Least
<1>5. h \in 0 .. n /\ Width(h) = 1 /\ \A k \in 0 .. h - 1 : Width(k) > 1
  <2>1. ASSUME NEW k \in 0 .. h - 1 PROVE Width(k) > 1
    <3>1. k \in 0 .. n /\ k < h
      BY <1>1, <1>4
    <3> QED
      BY <1>2, <1>4, <3>1
  <2> QED
    BY <1>4, <2>1
<1> QED
  BY <1>1, <1>5 DEF Height, Width

\* f is the places of leaf i, up to level n.
IsPlaces(i, n, f) ==
  f = [h \in 0 .. n |-> IF h = 0 THEN i ELSE (f[h - 1] + 1) \div 2]

LEMMA PlacesGrow ==
  ASSUME NEW i, NEW n \in Nat, n > 0, NEW g, IsPlaces(i, n - 1, g)
  PROVE  \E f : IsPlaces(i, n, f)
<1> DEFINE Value(x, h) == (x + 1) \div 2
           f == [h \in 0 .. n |-> IF h = n THEN Value(g[n - 1], n) ELSE g[h]]
<1>1. \A h \in 0 .. n - 1 : f[h] = g[h]
  OBVIOUS
<1>2. \A h \in 0 .. n - 1 : g[h] = IF h = 0 THEN i ELSE Value(g[h - 1], h)
  BY DEF IsPlaces
<1>3. f[n] = Value(g[n - 1], n) /\ n - 1 \in 0 .. n - 1 /\ f = [h \in 0 .. n |-> f[h]]
  OBVIOUS
<1> HIDE DEF f, Value
<1>4. ASSUME NEW h \in 0 .. n PROVE f[h] = IF h = 0 THEN i ELSE Value(f[h - 1], h)
  <2>1. CASE h = n
    <3>1. f[n - 1] = g[n - 1]
      BY <1>1, <1>3
    <3>2. f[n] = Value(f[n - 1], n) /\ n # 0
      BY <1>3, <3>1
    <3> QED
      BY <2>1, <3>2
  <2>2. CASE h # n
    <3>1. h \in 0 .. n - 1 /\ (h # 0 => h - 1 \in 0 .. n - 1)
      BY <2>2
    <3> QED
      BY <1>1, <1>2, <3>1
  <2> QED
    BY <2>1, <2>2
<1>5. IsPlaces(i, n, f)
  BY <1>3, <1>4 DEF IsPlaces, Value
<1> QED
  BY <1>5

LEMMA PlacesAre ==
  ASSUME NEW i, NEW n \in Nat
  PROVE  IsPlaces(i, n, Places(i, n))
<1> DEFINE Stops == {k \in Nat : \A f : ~IsPlaces(i, k, f)}
<1>1. Stops = {}
  <2> SUFFICES ASSUME Stops # {} PROVE FALSE
    OBVIOUS
  <2>1. PICK k \in Stops : \A m \in Stops : ~(m < k)
    BY Least
  <2>2. CASE k = 0
    <3> DEFINE g == [h \in 0 .. 0 |-> i]
    <3>1. \A h \in 0 .. 0 : h = 0
      OBVIOUS
    <3>2. IsPlaces(i, 0, g)
      BY <3>1 DEF IsPlaces
    <3> QED
      BY <2>1, <2>2, <3>2
  <2>3. CASE k # 0
    <3>1. k \in Nat /\ k > 0 /\ k - 1 \in Nat /\ k - 1 < k
      BY <2>1, <2>3
    <3>2. PICK g : IsPlaces(i, k - 1, g)
      BY <2>1, <3>1
    <3> QED
      BY <2>1, <3>1, <3>2, PlacesGrow
  <2> QED
    BY <2>2, <2>3
<1>2. \E f : IsPlaces(i, n, f)
  BY <1>1
<1> QED
  BY <1>2 DEF IsPlaces, Places

\* f is the digests from the leaf along the path, up to level n.
IsClimb(leaf, path, n, f) ==
  f = [h \in 0 .. n |-> IF h = 0 THEN leaf ELSE IF path[h].left THEN <<path[h].node, f[h - 1]>> ELSE <<f[h - 1], path[h].node>>]

LEMMA ClimbGrow ==
  ASSUME NEW leaf, NEW path, NEW n \in Nat, n > 0, NEW g, IsClimb(leaf, path, n - 1, g)
  PROVE  \E f : IsClimb(leaf, path, n, f)
<1> DEFINE Value(x, h) == IF path[h].left THEN <<path[h].node, x>> ELSE <<x, path[h].node>>
           f == [h \in 0 .. n |-> IF h = n THEN Value(g[n - 1], n) ELSE g[h]]
<1>1. \A h \in 0 .. n - 1 : f[h] = g[h]
  OBVIOUS
<1>2. \A h \in 0 .. n - 1 : g[h] = IF h = 0 THEN leaf ELSE Value(g[h - 1], h)
  BY DEF IsClimb
<1>3. f[n] = Value(g[n - 1], n) /\ n - 1 \in 0 .. n - 1 /\ f = [h \in 0 .. n |-> f[h]]
  OBVIOUS
<1> HIDE DEF f, Value
<1>4. ASSUME NEW h \in 0 .. n PROVE f[h] = IF h = 0 THEN leaf ELSE Value(f[h - 1], h)
  <2>1. CASE h = n
    <3>1. f[n - 1] = g[n - 1]
      BY <1>1, <1>3
    <3>2. f[n] = Value(f[n - 1], n) /\ n # 0
      BY <1>3, <3>1
    <3> QED
      BY <2>1, <3>2
  <2>2. CASE h # n
    <3>1. h \in 0 .. n - 1 /\ (h # 0 => h - 1 \in 0 .. n - 1)
      BY <2>2
    <3> QED
      BY <1>1, <1>2, <3>1
  <2> QED
    BY <2>1, <2>2
<1>5. IsClimb(leaf, path, n, f)
  BY <1>3, <1>4 DEF IsClimb, Value
<1> QED
  BY <1>5

LEMMA ClimbIs ==
  ASSUME NEW leaf, NEW path, Len(path) \in Nat
  PROVE  IsClimb(leaf, path, Len(path), Climb(leaf, path))
<1> DEFINE Stops == {k \in Nat : \A f : ~IsClimb(leaf, path, k, f)}
<1>1. Stops = {}
  <2> SUFFICES ASSUME Stops # {} PROVE FALSE
    OBVIOUS
  <2>1. PICK k \in Stops : \A m \in Stops : ~(m < k)
    BY Least
  <2>2. CASE k = 0
    <3> DEFINE g == [h \in 0 .. 0 |-> leaf]
    <3>1. \A h \in 0 .. 0 : h = 0
      OBVIOUS
    <3>2. IsClimb(leaf, path, 0, g)
      BY <3>1 DEF IsClimb
    <3> QED
      BY <2>1, <2>2, <3>2
  <2>3. CASE k # 0
    <3>1. k \in Nat /\ k > 0 /\ k - 1 \in Nat /\ k - 1 < k
      BY <2>1, <2>3
    <3>2. PICK g : IsClimb(leaf, path, k - 1, g)
      BY <2>1, <3>1
    <3> QED
      BY <2>1, <3>1, <3>2, ClimbGrow
  <2> QED
    BY <2>2, <2>3
<1>2. \E f : IsClimb(leaf, path, Len(path), f)
  BY <1>1
<1> QED
  BY <1>2 DEF IsClimb, Climb

\* The path of a leaf leads from that leaf to the root.
LEMMA PathClimbs ==
  ASSUME NEW leaves, NEW n, Nodes(leaves, n), NEW i \in 1 .. n
  PROVE  LET path == MerklePath(leaves, i)
         IN Climb(leaves[i], path)[Len(path)] = MerkleRoot(leaves)
<1> DEFINE L == Levels(leaves)
           H == Height(leaves)
           place == Places(i, n)
           path == MerklePath(leaves, i)
           acc == Climb(leaves[i], path)
<1>1. n \in Nat /\ Len(leaves) = n /\ n > 0
  BY DEF Nodes
<1>2. H \in 0 .. n /\ Len(L[H]) = 1
  BY <1>1, HeightIs
<1>3. /\ L[0] = leaves
      /\ \A h \in 1 .. n : L[h] = LevelAbove(L[h - 1])
      /\ \A h \in 0 .. n : Nodes(L[h], Len(L[h]))
  BY <1>1, LevelNodes
<1>4. \A h \in 0 .. n : place[h] = IF h = 0 THEN i ELSE (place[h - 1] + 1) \div 2
  BY <1>1, PlacesAre DEF IsPlaces
<1>5. path = [h \in 1 .. H |-> [node |-> Sibling(L[h - 1], place[h - 1]),
                               left |-> place[h - 1] % 2 = 0]]
  BY <1>1 DEF MerklePath
<1>6. MerkleRoot(leaves) = L[H][1]
  BY DEF MerkleRoot
<1> HIDE DEF L, H, place, path
<1>7. Len(path) = H
  BY <1>2, <1>5, NodesAre DEF Nodes
<1>8. \A h \in 0 .. H : acc[h] = IF h = 0 THEN leaves[i]
                                ELSE IF path[h].left THEN <<path[h].node, acc[h - 1]>>
                                ELSE <<acc[h - 1], path[h].node>>
  <2>1. IsClimb(leaves[i], path, H, acc)
    BY <1>2, <1>7, ClimbIs
  <2> HIDE DEF acc
  <2> QED
    BY <2>1 DEF IsClimb
<1> HIDE DEF acc
<1> DEFINE Good(h) == place[h] \in 1 .. Len(L[h]) /\ acc[h] = L[h][place[h]]
           Bad == {h \in 0 .. H : ~Good(h)}
<1>9. Bad = {}
  <2> SUFFICES ASSUME Bad # {} PROVE FALSE
    OBVIOUS
  <2>0. Bad \subseteq Nat
    BY <1>2
  <2>1. PICK h \in Bad : \A j \in Bad : ~(j < h)
    BY <2>0, Least
  <2>2. CASE h = 0
    <3>1. 0 \in 0 .. H /\ 0 \in 0 .. n
      BY <1>1, <1>2
    <3>2. place[0] = i /\ acc[0] = leaves[i]
      BY <1>4, <1>8, <3>1
    <3> QED
      BY <1>1, <1>3, <2>1, <2>2, <3>2
  <2>3. CASE h # 0
    <3>1. h \in 1 .. H /\ h \in 1 .. n /\ h - 1 \in 0 .. H /\ h - 1 \in 0 .. n /\ h - 1 < h
      BY <1>1, <1>2, <2>1, <2>3
    <3> DEFINE l == L[h - 1]
               k == place[h - 1]
    <3>2. Good(h - 1)
      BY <2>1, <3>1
    <3>3. k \in 1 .. Len(l) /\ acc[h - 1] = l[k] /\ Nodes(l, Len(l))
      BY <1>3, <3>1, <3>2
    <3>4. path[h].node = Sibling(l, k) /\ (path[h].left <=> k % 2 = 0)
      BY <1>5, <3>1
    <3>5. place[h] = (k + 1) \div 2 /\ L[h] = LevelAbove(l)
      BY <1>3, <1>4, <3>1, <2>3
    <3>6. acc[h] = IF path[h].left THEN <<path[h].node, acc[h - 1]>>
                   ELSE <<acc[h - 1], path[h].node>>
      BY <1>8, <3>1, <2>3
    <3> HIDE DEF l, k
    <3>7. /\ (k + 1) \div 2 \in 1 .. (Len(l) + 1) \div 2
          /\ LevelAbove(l)[(k + 1) \div 2] =
               IF k % 2 = 0 THEN <<Sibling(l, k), l[k]>> ELSE <<l[k], Sibling(l, k)>>
      BY <3>3, AbovePlace
    <3>8. Len(L[h]) = (Len(l) + 1) \div 2
      <4>1. Nodes(LevelAbove(l), (Len(l) + 1) \div 2)
        BY <3>3, AboveIs
      <4> QED
        BY <3>5, <4>1 DEF Nodes
    <3>9. acc[h] = L[h][place[h]]
      BY <3>3, <3>4, <3>5, <3>6, <3>7
    <3> QED
      BY <2>1, <3>5, <3>7, <3>8, <3>9
  <2> QED
    BY <2>2, <2>3
<1>10. Good(H)
  BY <1>2, <1>9
<1>11. place[H] = 1
  BY <1>2, <1>10
<1> QED
  BY <1>6, <1>7, <1>10, <1>11 DEF path, acc

\* Two logs of one length and one root are the same.
LEMMA RootTells ==
  ASSUME NEW s, NEW t, NEW n, Nodes(s, n), Nodes(t, n), n > 0,
         MerkleRoot(s) = MerkleRoot(t)
  PROVE  s = t
<1> DEFINE S == Levels(s)
           T == Levels(t)
           H == Height(s)
<1>1. n \in Nat
  BY DEF Nodes
<1>2. /\ S[0] = s
      /\ \A h \in 1 .. n : S[h] = LevelAbove(S[h - 1])
      /\ \A h \in 0 .. n : Nodes(S[h], Len(S[h]))
  BY LevelNodes
<1>3. /\ T[0] = t
      /\ \A h \in 1 .. n : T[h] = LevelAbove(T[h - 1])
      /\ \A h \in 0 .. n : Nodes(T[h], Len(T[h]))
  BY LevelNodes
<1>4. /\ H \in 0 .. n /\ Len(S[H]) = 1
      /\ \A k \in 0 .. H - 1 : Len(S[k]) > 1
  BY HeightIs
<1>5. /\ Height(t) \in 0 .. n /\ Len(T[Height(t)]) = 1
      /\ \A k \in 0 .. Height(t) - 1 : Len(T[k]) > 1
  BY HeightIs
<1>6. MerkleRoot(s) = S[H][1] /\ MerkleRoot(t) = T[Height(t)][1]
  BY DEF MerkleRoot
<1> HIDE DEF S, T, H
<1> DEFINE Bad == {h \in 0 .. n : Len(S[h]) # Len(T[h])}
<1>7. Bad = {}
  <2> SUFFICES ASSUME Bad # {} PROVE FALSE
    OBVIOUS
  <2>0. Bad \subseteq Nat
    BY <1>1
  <2>1. PICK h \in Bad : \A j \in Bad : ~(j < h)
    BY <2>0, Least
  <2>2. CASE h = 0
    BY <1>2, <1>3, <2>1, <2>2 DEF Nodes
  <2>3. CASE h # 0
    <3>1. h \in 1 .. n /\ h - 1 \in 0 .. n /\ h - 1 < h
      BY <1>1, <2>1, <2>3
    <3>2. Len(S[h - 1]) = Len(T[h - 1])
      BY <2>1, <3>1
    <3>3. Nodes(S[h], (Len(S[h - 1]) + 1) \div 2)
      BY <1>2, <3>1, AboveIs
    <3>4. Nodes(T[h], (Len(T[h - 1]) + 1) \div 2)
      BY <1>3, <3>1, AboveIs
    <3> QED
      BY <2>1, <3>2, <3>3, <3>4 DEF Nodes
  <2> QED
    BY <2>2, <2>3
<1>8. Height(t) = H
  <2>1. Len(S[Height(t)]) = 1 /\ Len(T[H]) = 1
    BY <1>4, <1>5, <1>7
  <2>2. Height(t) < H => Height(t) \in 0 .. H - 1
    BY <1>1, <1>4, <1>5
  <2>3. H < Height(t) => H \in 0 .. Height(t) - 1
    BY <1>1, <1>4, <1>5
  <2> QED
    <3> DEFINE J == Height(t)
    <3>1. H \in Int /\ J \in Int
      BY <1>1, <1>4, <1>5
    <3>2. ASSUME J < H PROVE FALSE
      <4>1. Len(S[J]) = 1 /\ Len(S[J]) > 1
        BY <1>4, <2>1, <2>2, <3>2
      <4> QED
        BY <4>1
    <3>3. ASSUME H < J PROVE FALSE
      <4>1. Len(T[H]) = 1 /\ Len(T[H]) > 1
        BY <1>5, <2>1, <2>3, <3>3
      <4> QED
        BY <4>1
    <3> HIDE DEF J
    <3>4. J = H
      BY <3>1, <3>2, <3>3
    <3> QED
      BY <3>4 DEF J
<1> DEFINE Off == {d \in 0 .. H : S[H - d] # T[H - d]}
<1>9. Off = {}
  <2> SUFFICES ASSUME Off # {} PROVE FALSE
    OBVIOUS
  <2>0. Off \subseteq Nat
    BY <1>4
  <2>1. PICK d \in Off : \A e \in Off : ~(e < d)
    BY <2>0, Least
  <2>2. CASE d = 0
    <3>1. Nodes(S[H], 1) /\ Nodes(T[H], 1) /\ S[H][1] = T[H][1]
      BY <1>2, <1>3, <1>4, <1>5, <1>6, <1>8
    <3>2. H - d = H
      BY <1>4, <2>2
    <3>3. S[H] = T[H]
      BY <3>1 DEF Nodes
    <3> QED
      BY <2>1, <3>2, <3>3
  <2>3. CASE d # 0
    <3> DEFINE h == H - d
    <3>1. /\ d - 1 \in 0 .. H /\ d - 1 < d /\ H - (d - 1) = h + 1
          /\ h + 1 \in 1 .. n /\ h \in 0 .. n /\ (h + 1) - 1 = h
      BY <1>1, <1>4, <2>1, <2>3
    <3>2. S[h + 1] = T[h + 1]
      BY <2>1, <3>1
    <3>3. S[h + 1] = LevelAbove(S[h]) /\ T[h + 1] = LevelAbove(T[h])
      BY <1>2, <1>3, <3>1
    <3>4. Nodes(S[h], Len(S[h])) /\ Nodes(T[h], Len(S[h]))
      BY <1>2, <1>3, <1>7, <3>1
    <3>5. S[h] = T[h]
      BY <3>2, <3>3, <3>4, AboveTells
    <3> QED
      BY <2>1, <3>5
  <2> QED
    BY <2>2, <2>3
<1>10. H \in 0 .. H /\ H - H = 0
  BY <1>4
<1> QED
  BY <1>2, <1>3, <1>9, <1>10
-----------------------------------------------------------------------------
(* What a checkpoint proves.                                                *)

\* A checkpoint is of the log that was noted with it.
NotedInv == checkpoint # Null =>
  /\ noted \in Seq(MadeLines)
  /\ noted # NoLines
  /\ checkpoint = [upToSeq |-> Len(noted) - 1, merkleRoot |-> MerkleRoot(noted)]

LEMMA NextNoted == TypeInv /\ NotedInv /\ [Next]_vars => NotedInv'
<1> SUFFICES ASSUME TypeInv, NotedInv, [Next]_vars PROVE NotedInv'
  OBVIOUS
<1>1. ASSUME made \subseteq made', UNCHANGED <<checkpoint, noted>> PROVE NotedInv'
  <2>1. MadeLines \subseteq MadeLines'
    BY <1>1 DEF MadeLines
  <2>2. noted \in Seq(MadeLines) => noted \in Seq(MadeLines')
    BY <2>1, SeqGrows
  <2> QED
    BY <1>1, <2>2 DEF NotedInv
<1>2. CASE TakeCheckpoint
  <2>1. MadeLines' = MadeLines /\ noted' = text /\ text # NoLines
        /\ checkpoint' = [upToSeq |-> Len(text) - 1, merkleRoot |-> MerkleRoot(text)]
    BY <1>2 DEF TakeCheckpoint, MadeLines
  <2> QED
    BY <2>1 DEF NotedInv, TypeInv, TypeOK
<1>3. ASSUME NEW p \in Procs, Load(p) PROVE NotedInv'
  <2>1. UNCHANGED <<checkpoint, noted>> /\ made \subseteq made'
    BY <1>3 DEF Load
  <2> QED
    BY <1>1, <2>1
<1>4. CASE UNCHANGED <<checkpoint, noted, made>>
  BY <1>1, <1>4
<1> QED
  BY <1>2, <1>3, <1>4 DEF Next, vars, tools, Refuse, Killed, Reread, RereadFails,
     Truncate, Write, WriteFails, AppendLine, AppendFails, Delete

LEMMA NotedMeans == TypeInv /\ NotedInv => CheckpointProves
<1> SUFFICES ASSUME TypeInv, NotedInv, checkpoint # Null, NEW sha \in Capsules,
                    FirstOf(text, sha) # 0
             PROVE  InCheckpoint(text, FirstOf(text, sha))
                      <=> /\ FirstOf(text, sha) <= Len(noted)
                          /\ Len(noted) <= Len(text)
                          /\ SubSeq(text, 1, Len(noted)) = noted
  BY DEF CheckpointProves
<1> DEFINE i == FirstOf(text, sha)
           end == Len(noted)
           leaves == SubSeq(text, 1, end)
<1>1. text \in Seq(MadeLines) /\ noted \in Seq(MadeLines) /\ noted # NoLines
  BY DEF TypeInv, TypeOK, NotedInv
<1>2. end \in Nat /\ end > 0 /\ Len(text) \in Nat /\ Nodes(noted, end)
  BY <1>1, LogNodes DEF NoLines
<1>3. checkpoint.upToSeq + 1 = end /\ checkpoint.merkleRoot = MerkleRoot(noted)
  BY <1>2 DEF NotedInv
<1>4. i \in 1 .. Len(text)
  <2> DEFINE lines == {j \in 1 .. Len(text) : text[j].sha = sha}
  <2>1. lines # {} /\ i = CHOOSE j \in lines : \A k \in lines : j <= k
    BY DEF FirstOf
  <2>2. \E j \in lines : \A k \in lines : ~(k < j)
    <3>1. lines \subseteq Nat
      OBVIOUS
    <3> HIDE DEF lines
    <3> QED
      BY <2>1, <3>1, Least
  <2>3. \E j \in lines : \A k \in lines : j <= k
    BY <1>2, <2>2
  <2> HIDE DEF i
  <2> QED
    BY <2>1, <2>3
<1>5. InCheckpoint(text, i)
        <=> /\ i <= end
            /\ end <= Len(text)
            /\ MerkleVerify(text[i], MerklePath(leaves, i), MerkleRoot(noted))
  BY <1>3 DEF InCheckpoint
<1> HIDE DEF i, end
<1>6. ASSUME i <= end, end <= Len(text)
      PROVE  MerkleVerify(text[i], MerklePath(leaves, i), MerkleRoot(noted))
               <=> leaves = noted
  <2>1. leaves \in Seq(MadeLines) /\ Len(leaves) = end /\ leaves[i] = text[i] /\ i \in 1 .. end
    BY <1>1, <1>2, <1>4, <1>6
  <2>2. Nodes(leaves, end)
    BY <2>1, LogNodes
  <2> HIDE DEF leaves
  <2>3. MerkleVerify(leaves[i], MerklePath(leaves, i), MerkleRoot(noted))
          <=> MerkleRoot(leaves) = MerkleRoot(noted)
    BY <2>1, <2>2, PathClimbs DEF MerkleVerify
  <2>4. MerkleRoot(leaves) = MerkleRoot(noted) => leaves = noted
    BY <1>2, <2>2, RootTells
  <2> QED
    BY <2>1, <2>3, <2>4
<1> QED
  BY <1>5, <1>6 DEF i, end

\* `anchor verify` confirms a capsule against a checkpoint exactly when the log
\* still begins with the lines the checkpoint was taken of, whatever was added,
\* torn, overwritten or issued again since.
THEOREM CheckpointsProve == Spec => []CheckpointProves
<1>1. Init => TypeInv /\ NotedInv
  <2>1. Init => NotedInv
    BY DEF Init, NotedInv
  <2> QED
    BY <2>1, InitType
<1>2. (TypeInv /\ NotedInv) /\ [Next]_vars => (TypeInv /\ NotedInv)'
  BY NextType, NextNoted
<1> QED
  BY <1>1, <1>2, NotedMeans, PTL DEF Spec
=============================================================================
