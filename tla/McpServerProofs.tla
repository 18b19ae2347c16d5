--------------------------- MODULE McpServerProofs ---------------------------
(***************************************************************************)
(* Theorems about McpServer, for every workspace, every client and every    *)
(* number of failures.                                                      *)
(***************************************************************************)
EXTENDS McpServer, FiniteSetTheorems, SequenceTheorems, WellFoundedInduction, TLAPS

IsSeq(s) == \E S : s \in Seq(S)

\* The pipes are sequences, and the payload is written before the wait.
TypeInv ==
  /\ TypeOK
  /\ IsSeq(inbox) /\ IsSeq(outbox)
  /\ nextId \in Nat \ {0}
  /\ pc = "waiting" => left = 0

\* The scan has kept the smallest of the paths it has come to.
Visited == Paths \ todo
ScanInv ==
  /\ found \subseteq Visited
  /\ \A p \in found, q \in Visited \ found : p < q
  /\ found # Visited => Cardinality(found) = ScanCap
  /\ truncated <=> found # Visited
  /\ pc \notin {"scanning", "failed"} => todo = {}

\* The calls that answered an error and changed their document all the same.
Halves == {k \in DOMAIN journal :
             journal[k].says = "error" /\ journal[k].before # journal[k].after}

\* Every entry of the journal is of a handle that was opened.
JournalInv ==
  /\ IsSeq(journal)
  /\ \A k \in DOMAIN journal : journal[k].doc \in DOMAIN opened
  /\ JournalExplains
-----------------------------------------------------------------------------
(* Sequences and sets of numbers.                                           *)

LEMMA Lengths ==
  ASSUME NEW s, IsSeq(s)
  PROVE  Len(s) \in Nat /\ DOMAIN s = 1..Len(s)
  BY DEF IsSeq

LEMMA Appended ==
  ASSUME NEW s, IsSeq(s), NEW e
  PROVE  /\ IsSeq(Append(s, e))
         /\ Len(Append(s, e)) = Len(s) + 1
         /\ \A k \in 1..Len(s) : Append(s, e)[k] = s[k]
         /\ Append(s, e)[Len(s) + 1] = e
<1>1. PICK S : s \in Seq(S)
  BY DEF IsSeq
<1>2. s \in Seq(S \cup {e})
  BY <1>1
<1>3. Append(s, e) \in Seq(S \cup {e})
  BY <1>2
<1> QED
  BY <1>2, <1>3 DEF IsSeq

LEMMA Tailed ==
  ASSUME NEW s, IsSeq(s), s # <<>>
  PROVE  IsSeq(Tail(s)) /\ Len(Tail(s)) = Len(s) - 1 /\ Len(s) > 0
<1>1. PICK S : s \in Seq(S)
  BY DEF IsSeq
<1>2. Tail(s) \in Seq(S) /\ Len(Tail(s)) = Len(s) - 1 /\ Len(s) > 0
  BY <1>1
<1> QED
  BY <1>2 DEF IsSeq

\* A non-empty set of natural numbers has a least element.
LEMMA Least ==
  ASSUME NEW T, T \subseteq Nat, T # {}
  PROVE  \E x \in T : \A y \in T : x <= y
<1>1. \E x \in T : \A y \in T : ~(<<y, x>> \in OpToRel(<, Nat))
  BY NatLessThanWellFounded, WFMin
<1>2. ASSUME NEW x \in T, NEW y \in T, y < x
      PROVE  <<y, x>> \in OpToRel(<, Nat)
  <2>1. <<y, x>> \in Nat \X Nat
    BY <1>2
  <2> DEFINE s == <<y, x>>
  <2>2. s[1] < s[2]
    BY <1>2
  <2> QED
    BY <2>1, <2>2, <1>2 DEF OpToRel
<1>3. PICK x \in T : \A y \in T : ~(y < x)
  BY <1>1, <1>2
<1>4. \A y \in T : x <= y
  BY <1>3
<1> QED
  BY <1>4

\* A finite one has a greatest: a smallest set without one would, less any
\* element of it, be a smaller one.
Topless(S) == S # {} /\ \A x \in S : \E y \in S : ~(x >= y)

LEMMA Greatest ==
  ASSUME NEW T, T \subseteq Nat, IsFiniteSet(T), T # {}
  PROVE  Max(T) \in T /\ \A y \in T : Max(T) >= y
<1> DEFINE Sizes == {n \in Nat : \E S \in SUBSET Nat :
                        IsFiniteSet(S) /\ Topless(S) /\ Cardinality(S) = n}
<1>1. Sizes = {}
  <2> SUFFICES ASSUME Sizes # {} PROVE FALSE
    OBVIOUS
  <2>1. PICK n \in Sizes : \A m \in Sizes : n <= m
    BY Least
  <2>2. PICK S \in SUBSET Nat : IsFiniteSet(S) /\ Topless(S) /\ Cardinality(S) = n
    BY <2>1
  <2>3. PICK x \in S : TRUE
    BY <2>2 DEF Topless
  <2> DEFINE R == S \ {x}
  <2>4. IsFiniteSet(R) /\ Cardinality(R) = n - 1 /\ R \in SUBSET Nat /\ n \in Nat
    BY <2>1, <2>2, <2>3, FS_RemoveElement
  <2>5. R # {}
    <3>1. PICK y \in S : ~(x >= y)
      BY <2>2, <2>3 DEF Topless
    <3>2. y # x
      BY <2>2, <2>3, <3>1
    <3> QED
      BY <3>1, <3>2
  <2>6. Topless(R)
    <3> SUFFICES ASSUME NEW u \in R, \A y \in R : u >= y PROVE FALSE
      BY <2>5 DEF Topless
    <3>1. x \in Nat /\ u \in Nat
      BY <2>2, <2>3
    <3>2. CASE u >= x
      BY <2>2, <3>2 DEF Topless
    <3>3. CASE ~(u >= x)
      <4>1. \A y \in S : x >= y
        BY <2>2, <3>1, <3>3
      <4> QED
        BY <2>2, <2>3, <4>1 DEF Topless
    <3> QED
      BY <3>2, <3>3
  <2>7. n - 1 \in Nat
    BY <2>4, FS_CardinalityType
  <2>8. n - 1 \in Sizes
    BY <2>4, <2>6, <2>7
  <2> QED
    BY <2>1, <2>4, <2>8
<1>2. ~Topless(T)
  <2>1. Cardinality(T) \in Nat
    BY FS_CardinalityType
  <2> QED
    BY <1>1, <2>1
<1>3. \E x \in T : \A y \in T : x >= y
  BY <1>2 DEF Topless
<1> QED
  BY <1>3 DEF Max
-----------------------------------------------------------------------------
(* Types.                                                                   *)

LEMMA InitType == Init => TypeInv
<1> SUFFICES ASSUME Init PROVE TypeInv
  OBVIOUS
<1>1. IsSeq(<<>>) /\ Len(<<>>) = 0
  BY DEF IsSeq
<1>2. Cardinality({}) = 0
  BY FS_EmptySet
<1>3. DOMAIN <<>> = {} /\ 1 .. 1 - 1 = {}
  OBVIOUS
<1>4. DOMAIN docs \subseteq 1 .. nextId - 1 /\ DOMAIN opened = 1 .. nextId - 1
  BY <1>3 DEF Init
<1>5. Cardinality(found) <= ScanCap /\ Len(inbox) <= PipeCap /\ Len(outbox) <= PipeCap
  BY <1>1, <1>2, McpAssumption DEF Init
<1>6. DOMAIN disk = Paths /\ pipe \in 0 .. PipeCap /\ trouble \in 0 .. MaxTrouble
  BY McpAssumption DEF Init
<1>7. IsSeq(inbox) /\ IsSeq(outbox)
  BY <1>1 DEF Init
<1>8. TypeOK
  BY <1>4, <1>5, <1>6 DEF Init, TypeOK
<1> QED
  BY <1>7, <1>8 DEF Init, TypeInv

LEMMA FoundFinite ==
  ASSUME TypeOK
  PROVE  IsFiniteSet(found) /\ Cardinality(found) \in Nat /\ found \subseteq Nat
<1>1. IsFiniteSet(found)
  BY McpAssumption, FS_Subset DEF TypeOK
<1> QED
  BY <1>1, FS_CardinalityType, McpAssumption DEF TypeOK

\* What one path does to what the scan keeps.
LEMMA Kept ==
  ASSUME TypeOK, NEW path \in Paths, path \notin found
  PROVE  /\ Cardinality(found) < ScanCap =>
              /\ Keep(found, path) = found \cup {path}
              /\ Cardinality(Keep(found, path)) = Cardinality(found) + 1
         /\ Cardinality(found) = ScanCap =>
              /\ Max(found) \in found /\ \A y \in found : Max(found) >= y
              /\ Keep(found, path) = IF path < Max(found)
                                     THEN (found \ {Max(found)}) \cup {path} ELSE found
              /\ Cardinality(Keep(found, path)) = ScanCap
<1>1. IsFiniteSet(found) /\ Cardinality(found) \in Nat /\ found \subseteq Nat
  BY FoundFinite
<1>2. ScanCap \in Nat \ {0}
  BY McpAssumption
<1>3. CASE Cardinality(found) < ScanCap
  <2>1. Cardinality(found \cup {path}) = Cardinality(found) + 1
    BY <1>1, FS_AddElement
  <2>2. Keep(found, path) = found \cup {path}
    BY <1>3 DEF Keep
  <2> QED
    BY <1>1, <1>2, <1>3, <2>1, <2>2
<1>4. CASE Cardinality(found) = ScanCap
  <2>1. found # {}
    BY <1>2, <1>4, FS_EmptySet
  <2>2. Max(found) \in found /\ \A y \in found : Max(found) >= y
    BY <1>1, <2>1, Greatest
  <2> DEFINE R == found \ {Max(found)}
  <2>3. IsFiniteSet(R) /\ Cardinality(R) = ScanCap - 1
    BY <1>1, <1>4, <2>2, FS_RemoveElement
  <2>4. Cardinality(R \cup {path}) = ScanCap
    BY <1>2, <2>3, FS_AddElement
  <2>5. Keep(found, path) = IF path < Max(found) THEN R \cup {path} ELSE found
    BY <1>2, <1>4 DEF Keep
  <2> QED
    BY <1>2, <1>4, <2>2, <2>4, <2>5
<1> QED
  BY <1>1, <1>2, <1>3, <1>4
-----------------------------------------------------------------------------
(* Steps, by the state they move.                                           *)

\* A tool that changes the document it is called for, and writes the journal.
Changes ==
  \E after, says :
    /\ pc = "called" /\ Doc \in DOMAIN docs
    /\ Puts(after, says)
    /\ UNCHANGED <<nextId, opened>>
    /\ \/ says = "ok" /\ trouble' = trouble
       \/ says = "error" /\ after = docs[Doc] /\ trouble' = trouble
       \/ says = "error" /\ Fails

LEMMA ToolsChange ==
  ASSUME ReplaceText \/ SetCell \/ FillFields \/ Save
  PROVE  Changes /\ UNCHANGED <<todo, found, truncated, process, client, call, answered>>
<1> USE DEF Works, CutShort, Changes
<1>1. CASE ReplaceText
  <2>1. CASE Puts(ReplacedFrom(1, docs[Doc], call.line.find, call.line.to), "ok") /\ UNCHANGED trouble
    BY <1>1, <2>1 DEF ReplaceText, files
  <2>2. CASE \E k \in 2 .. Len(docs[Doc]) + 1 :
               CutShort(ReplacedFrom(k, docs[Doc], call.line.find, call.line.to))
    BY <1>1, <2>2 DEF ReplaceText, files
  <2> QED
    BY <1>1, <2>1, <2>2 DEF ReplaceText
<1>2. CASE SetCell
  <2>1. PICK after, says :
          /\ Puts(after, says)
          /\ \/ says = "ok" /\ trouble' = trouble
             \/ says = "error" /\ after = docs[Doc] /\ trouble' = trouble
             \/ says = "error" /\ Fails
    BY <1>2 DEF SetCell
  <2> QED
    BY <1>2, <2>1 DEF SetCell, files
<1>3. CASE FillFields
  <2>1. PICK after, says :
          /\ Puts(after, says)
          /\ \/ says = "ok" /\ trouble' = trouble
             \/ says = "error" /\ Fails
    BY <1>3 DEF FillFields
  <2> QED
    BY <1>3, <2>1 DEF FillFields, files
<1>4. CASE Save
  BY <1>4 DEF Save
<1> QED
  BY <1>1, <1>2, <1>3, <1>4

\* Everything else leaves the handles and the journal alone ...
LEMMA HandleSteps ==
  ASSUME TypeInv, [Next]_vars
  PROVE  \/ (Open \/ Close) /\ trouble' = trouble
         \/ Changes
         \/ UNCHANGED handles /\ trouble' \in Nat /\ trouble' >= trouble
<1>0. trouble \in Nat
  BY McpAssumption DEF TypeInv, TypeOK
<1>1. CASE Scan \/ ReadLine \/ Garbage \/ Query \/ WriteAnswer \/ NotOpen
  BY <1>0, <1>1 DEF Scan, Visit, Scanned, ScanFails, ReadLine, Garbage, Query, WriteAnswer, NotOpen, Fails
<1>2. CASE Spawn \/ Feed \/ CloseStdin \/ Collect \/ Reap \/ Hangup \/ Send \/ Receive
  BY <1>0, <1>2 DEF Spawn, Feed, CloseStdin, Collect, Reap, Hangup, Send, Receive
<1>3. CASE Child \/ ChildDies
  BY <1>0, <1>3 DEF Child, ChildReads, ChildStarts, ChildWrites, ChildEnds, ChildDies, Fails
<1>4. CASE ReplaceText \/ SetCell \/ FillFields \/ Save
  BY <1>4, ToolsChange
<1>5. CASE Open \/ Close
  BY <1>5 DEF Open, Close
<1>6. CASE UNCHANGED vars
  BY <1>0, <1>6 DEF vars
<1> QED
  BY <1>1, <1>2, <1>3, <1>4, <1>5, <1>6 DEF Next, Server, Session

\* ... and only the scan moves what it has found.
LEMMA ScanSteps ==
  ASSUME [Next]_vars
  PROVE  \/ Visit
         \/ UNCHANGED <<todo, found, truncated>> /\ (Scanned \/ ScanFails)
         \/ UNCHANGED <<todo, found, truncated>> /\ (pc' = pc \/ pc \notin {"scanning", "failed"})
<1> USE DEF files, Answers
<1>1. CASE ReadLine \/ Garbage \/ Query \/ WriteAnswer \/ NotOpen
  BY <1>1 DEF ReadLine, Garbage, Query, WriteAnswer, NotOpen
<1>2. CASE Spawn \/ Feed \/ CloseStdin \/ Collect \/ Reap \/ Hangup \/ Send \/ Receive
  BY <1>2 DEF Spawn, Feed, CloseStdin, Collect, Reap, Hangup, Send, Receive
<1>3. CASE Child \/ ChildDies
  BY <1>3 DEF Child, ChildReads, ChildStarts, ChildWrites, ChildEnds, ChildDies
<1>4. CASE ReplaceText \/ SetCell \/ FillFields \/ Save
  BY <1>4, ToolsChange DEF Changes, Puts
<1>5. CASE Open \/ Close
  BY <1>5 DEF Open, Opens, Close
<1>6. CASE UNCHANGED vars
  BY <1>6 DEF vars
<1>7. CASE Scan
  BY <1>7 DEF Scan, Scanned, ScanFails
<1> QED
  BY <1>1, <1>2, <1>3, <1>4, <1>5, <1>6, <1>7 DEF Next, Server, Session
-----------------------------------------------------------------------------
(* The type invariant.                                                      *)

LEMMA ScanType ==
  ASSUME TypeInv, [Next]_vars
  PROVE  /\ todo' \subseteq Paths /\ found' \subseteq Paths
         /\ Cardinality(found') <= ScanCap /\ truncated' \in BOOLEAN
<1> USE DEF TypeInv, TypeOK
<1>1. CASE Visit
  <2>1. PICK path \in todo : found' = Keep(found, path) /\ todo' = todo \ {path}
    BY <1>1 DEF Visit
  <2>2. truncated' \in BOOLEAN
    BY <1>1 DEF Visit
  <2>3. Cardinality(found) \in Nat /\ ScanCap \in Nat
    BY FoundFinite, McpAssumption
  <2>4. CASE path \in found
    <3>1. Keep(found, path) = found \cup {path} \/ Keep(found, path) = found
            \/ Keep(found, path) = (found \ {Max(found)}) \cup {path}
      BY DEF Keep
    <3>2. IsFiniteSet(found)
      BY FoundFinite
    <3>3. Keep(found, path) \subseteq found
      BY <2>4, <3>1
    <3>4. Cardinality(Keep(found, path)) <= Cardinality(found)
      BY <3>2, <3>3, FS_Subset
    <3>5. IsFiniteSet(Keep(found, path))
      BY <3>2, <3>3, FS_Subset
    <3> QED
      BY <2>1, <2>2, <2>3, <3>3, <3>4, <3>5, FS_CardinalityType
  <2>5. CASE path \notin found
    <3>1. Cardinality(Keep(found, path)) <= ScanCap
      BY <2>1, <2>3, <2>5, Kept
    <3>2. Keep(found, path) \subseteq found \cup {path}
      BY DEF Keep
    <3> QED
      BY <2>1, <2>2, <3>1, <3>2
  <2> QED
    BY <2>4, <2>5
<1>2. CASE UNCHANGED <<todo, found, truncated>>
  BY <1>2
<1> QED
  BY <1>1, <1>2, ScanSteps

\* Handles are numbered as they are opened.
LEMMA HandleType ==
  ASSUME TypeInv, [Next]_vars
  PROVE  /\ DOMAIN docs' \subseteq 1 .. nextId' - 1 /\ DOMAIN opened' = 1 .. nextId' - 1
         /\ nextId' \in Nat \ {0}
<1> USE DEF TypeInv, TypeOK
<1>1. CASE UNCHANGED handles
  BY <1>1 DEF handles
<1>2. CASE Changes
  BY <1>2 DEF Changes, Puts
<1>3. CASE Close
  BY <1>3 DEF Close
<1>4. CASE Open
  <2>1. PICK path : Opens(path)
    BY <1>4 DEF Open
  <2>2. CASE UNCHANGED handles
    BY <1>1, <2>2
  <2>3. CASE ~UNCHANGED handles
    <3>1. /\ DOMAIN docs' = DOMAIN docs \cup {nextId}
          /\ DOMAIN opened' = DOMAIN opened \cup {nextId}
          /\ nextId' = nextId + 1
      BY <2>1, <2>3 DEF Opens, NewId
    <3>2. 1 .. nextId' - 1 = (1 .. nextId - 1) \cup {nextId}
      BY <3>1
    <3> QED
      BY <3>1, <3>2
  <2> QED
    BY <2>2, <2>3
<1> QED
  BY <1>1, <1>2, <1>3, <1>4, HandleSteps

LEMMA PipeType ==
  ASSUME TypeInv, [Next]_vars
  PROVE  /\ IsSeq(inbox') /\ IsSeq(outbox')
         /\ Len(inbox') <= PipeCap /\ Len(outbox') <= PipeCap
<1> USE DEF TypeInv, TypeOK, client
<1>0. /\ PipeCap \in Nat /\ IsSeq(inbox) /\ IsSeq(outbox)
      /\ Len(inbox) \in Nat /\ Len(outbox) \in Nat
      /\ Len(inbox) <= PipeCap /\ Len(outbox) <= PipeCap
  BY Lengths, McpAssumption
<1>1. CASE Send
  <2>1. PICK line : inbox' = Append(inbox, [id |-> Len(sent) + 1, line |-> line])
    BY <1>1 DEF Send
  <2>2. Len(inbox) < PipeCap /\ outbox' = outbox
    BY <1>1 DEF Send
  <2>3. IsSeq(inbox') /\ Len(inbox') = Len(inbox) + 1
    BY <1>0, <2>1, Appended
  <2> QED
    BY <1>0, <2>2, <2>3
<1>2. CASE Receive \/ ReadLine
  <2>1. \/ inbox' = inbox /\ outbox # <<>> /\ outbox' = Tail(outbox)
        \/ outbox' = outbox /\ inbox # <<>> /\ inbox' = Tail(inbox)
    BY <1>2 DEF Receive, ReadLine
  <2>2. CASE inbox' = inbox /\ outbox # <<>> /\ outbox' = Tail(outbox)
    <3>1. IsSeq(outbox') /\ Len(outbox') = Len(outbox) - 1
      BY <1>0, <2>2, Tailed
    <3> QED
      BY <1>0, <2>2, <3>1
  <2>3. CASE outbox' = outbox /\ inbox # <<>> /\ inbox' = Tail(inbox)
    <3>1. IsSeq(inbox') /\ Len(inbox') = Len(inbox) - 1
      BY <1>0, <2>3, Tailed
    <3> QED
      BY <1>0, <2>3, <3>1
  <2> QED
    BY <2>1, <2>2, <2>3
<1>3. CASE WriteAnswer
  <2>1. outbox' = Append(outbox, answer) /\ Len(outbox) < PipeCap /\ inbox' = inbox
    BY <1>3 DEF WriteAnswer
  <2>2. IsSeq(outbox') /\ Len(outbox') = Len(outbox) + 1
    BY <1>0, <2>1, Appended
  <2> QED
    BY <1>0, <2>1, <2>2
<1>4. ASSUME UNCHANGED <<inbox, outbox>>
      PROVE  /\ IsSeq(inbox') /\ IsSeq(outbox')
             /\ Len(inbox') <= PipeCap /\ Len(outbox') <= PipeCap
  BY <1>0, <1>4
<1>5. CASE Scan \/ Garbage \/ Query \/ NotOpen \/ Spawn \/ Feed \/ CloseStdin \/ Collect \/ Reap \/ Hangup
  BY <1>4, <1>5 DEF Scan, Visit, Scanned, ScanFails, Garbage, Query, NotOpen, Spawn, Feed,
     CloseStdin, Collect, Reap, Hangup
<1>6. CASE Child \/ ChildDies
  BY <1>4, <1>6 DEF Child, ChildReads, ChildStarts, ChildWrites, ChildEnds, ChildDies
<1>7. CASE ReplaceText \/ SetCell \/ FillFields \/ Save
  BY <1>4, <1>7, ToolsChange
<1>8. CASE Open \/ Close \/ UNCHANGED vars
  BY <1>4, <1>8 DEF Open, Close, vars
<1> QED
  BY <1>1, <1>2, <1>3, <1>5, <1>6, <1>7, <1>8 DEF Next, Server, Session

\* One child at a time, and its pipe is empty when the server is done with it.
LEMMA ProcessType ==
  ASSUME TypeInv, [Next]_vars
  PROVE  /\ pipe' \in 0 .. PipeCap /\ trouble' \in 0 .. MaxTrouble
         /\ pc' \in {"scanning", "idle", "called", "feeding", "waiting", "answering", "ended", "failed"}
         /\ child' \in {"none", "reading", "working", "exited"}
         /\ pc' \notin {"feeding", "waiting"} =>
              child' = "none" /\ left' = 0 /\ pipe' = 0 /\ swept' = 0 /\ got' = 0
         /\ pc' = "waiting" => left' = 0
         /\ DOMAIN disk' = Paths
<1> USE DEF TypeInv, TypeOK, process, Answers, Fails, files
<1>0. PipeCap \in Nat /\ MaxTrouble \in Nat /\ pipe \in Nat /\ trouble \in Nat
  BY McpAssumption
<1>1. CASE Scan \/ ReadLine \/ Garbage \/ Query \/ WriteAnswer \/ NotOpen
  BY <1>0, <1>1 DEF Scan, Visit, Scanned, ScanFails, ReadLine, Garbage, Query, WriteAnswer, NotOpen
<1>2. CASE Open \/ Close \/ Hangup \/ Send \/ Receive \/ UNCHANGED vars
  BY <1>0, <1>2 DEF Open, Opens, Close, Hangup, Send, Receive, vars
<1>3. CASE ReplaceText \/ SetCell \/ FillFields \/ Save
  <2>1. disk' = disk \/ \E rest : disk' = [disk EXCEPT ![call.line.path] = rest]
    BY <1>3 DEF ReplaceText, SetCell, FillFields, Save
  <2>2. DOMAIN disk' = Paths
    BY <2>1
  <2> QED
    BY <1>0, <1>3, <2>2, ToolsChange DEF Changes, Puts
<1>4. CASE Spawn
  BY <1>0, <1>4 DEF Spawn
<1>5. CASE Feed \/ CloseStdin
  BY <1>0, <1>5 DEF Feed, CloseStdin
<1>6. CASE Collect \/ Reap
  BY <1>0, <1>6 DEF Collect, Reap, OutputEnded
<1>7. CASE Child \/ ChildDies
  BY <1>0, <1>7 DEF Child, ChildReads, ChildStarts, ChildWrites, ChildEnds, ChildDies
<1> QED
  BY <1>1, <1>2, <1>3, <1>4, <1>5, <1>6, <1>7 DEF Next, Server, Session

LEMMA NextType == TypeInv /\ [Next]_vars => TypeInv'
<1> SUFFICES ASSUME TypeInv, [Next]_vars PROVE TypeInv'
  OBVIOUS
<1> QED
  BY ScanType, HandleType, PipeType, ProcessType DEF TypeInv, TypeOK

\* Every reachable state of the server is well typed: the scan keeps no more
\* than its cap, no handle is given twice, no pipe holds more than it can, and
\* a child leaves nothing behind in its pipe.
THEOREM TypeCorrect == Spec => []TypeOK
  BY InitType, NextType, PTL DEF Spec, TypeInv
-----------------------------------------------------------------------------
(* The workspace.                                                           *)

LEMMA VisitKeepsSmallest ==
  ASSUME TypeInv, ScanInv, Visit
  PROVE  ScanInv'
<1>1. PICK path \in todo : found' = Keep(found, path) /\ todo' = todo \ {path}
  BY DEF Visit
<1>2. /\ pc = "scanning" /\ pc' = pc
      /\ truncated' <=> truncated \/ Cardinality(found) = ScanCap
  BY DEF Visit, TypeInv, TypeOK
<1>3. path \in Paths /\ path \notin found /\ Visited' = Visited \cup {path} /\ path \notin Visited
  BY <1>1 DEF TypeInv, TypeOK, ScanInv, Visited
<1>4. /\ Cardinality(found) \in Nat /\ ScanCap \in Nat /\ Cardinality(found) <= ScanCap
      /\ found \subseteq Nat /\ Visited \subseteq Nat /\ path \in Nat
  BY <1>3, FoundFinite, McpAssumption DEF TypeInv, TypeOK, Visited
<1>5. CASE Cardinality(found) < ScanCap
  <2>1. found = Visited /\ found' = found \cup {path}
    BY <1>1, <1>3, <1>4, <1>5, Kept DEF ScanInv, TypeInv
  <2>2. ~truncated'
    BY <1>2, <1>4, <1>5, <2>1 DEF ScanInv
  <2> QED
    BY <1>2, <1>3, <2>1, <2>2 DEF ScanInv
<1>6. CASE Cardinality(found) = ScanCap
  <2> DEFINE m == Max(found)
  <2>1. /\ m \in found /\ \A y \in found : m >= y
        /\ found' = IF path < m THEN (found \ {m}) \cup {path} ELSE found
        /\ Cardinality(found') = ScanCap
    BY <1>1, <1>3, <1>6, Kept DEF TypeInv
  <2> HIDE DEF m
  <2>2. \A p \in found, q \in Visited \ found : p < q
    BY DEF ScanInv
  <2>3. found \subseteq Visited
    BY DEF ScanInv
  <2>4. truncated'
    BY <1>2, <1>6
  <2>5. CASE path < m
    <3>1. found' = (found \ {m}) \cup {path} /\ m \in Visited' /\ m \notin found'
      BY <1>3, <2>1, <2>3, <2>5
    <3>2. ASSUME NEW p \in found', NEW q \in Visited' \ found' PROVE p < q
      <4>1. q = m \/ q \in Visited \ found
        BY <1>3, <3>1
      <4>2. p = path \/ (p \in found /\ p # m)
        BY <3>1
      <4>3. q \in Visited \ found => m < q
        BY <2>1, <2>2
      <4>4. p \in Nat /\ q \in Nat /\ m \in Nat
        BY <1>3, <1>4, <2>1, <3>1
      <4>5. CASE p = path
        BY <1>4, <2>5, <4>1, <4>3, <4>4, <4>5
      <4>6. CASE p \in found /\ p # m
        <5>1. p < m
          BY <2>1, <4>4, <4>6
        <5> QED
          BY <2>2, <4>1, <4>6, <5>1
      <4> QED
        BY <4>2, <4>5, <4>6
    <3>3. found' \subseteq Visited'
      BY <1>3, <2>3, <3>1
    <3> QED
      BY <1>2, <2>1, <2>4, <3>1, <3>2, <3>3 DEF ScanInv
  <2>6. CASE ~(path < m)
    <3>1. found' = found
      BY <2>1, <2>6
    <3>2. ASSUME NEW p \in found', NEW q \in Visited' \ found' PROVE p < q
      <4>1. q = path \/ q \in Visited \ found
        BY <1>3, <3>1
      <4>2. p \in found /\ m >= p /\ path # p
        BY <1>3, <2>1, <3>1
      <4> QED
        BY <1>3, <1>4, <2>1, <2>2, <2>6, <4>1, <4>2
    <3> QED
      BY <1>2, <1>3, <2>1, <2>3, <2>4, <3>1, <3>2 DEF ScanInv
  <2> QED
    BY <2>5, <2>6
<1> QED
  BY <1>4, <1>5, <1>6

LEMMA NextScan == TypeInv /\ ScanInv /\ [Next]_vars => ScanInv'
<1> SUFFICES ASSUME TypeInv, ScanInv, [Next]_vars PROVE ScanInv'
  OBVIOUS
<1>1. CASE Visit
  BY <1>1, VisitKeepsSmallest
<1>2. CASE UNCHANGED <<todo, found, truncated>>
           /\ (Scanned \/ ScanFails \/ pc' = pc \/ pc \notin {"scanning", "failed"})
  <2>1. pc' \notin {"scanning", "failed"} => todo = {}
    BY <1>2 DEF Scanned, ScanFails, ScanInv
  <2> QED
    BY <1>2, <2>1 DEF ScanInv, Visited
<1> QED
  BY <1>1, <1>2, ScanSteps

\* What the scan keeps of all paths, up to its cap, are the smallest.
LEMMA KeepsSmallest == TypeInv /\ ScanInv => WorkspaceIds
<1> SUFFICES ASSUME TypeInv, ScanInv, pc \notin {"scanning", "failed"}
             PROVE  found = Smallest /\ (truncated <=> found # Paths)
  BY DEF WorkspaceIds
<1>1. Visited = Paths
  BY DEF ScanInv, Visited
<1>2. /\ IsFiniteSet(found) /\ Cardinality(found) \in Nat /\ Cardinality(found) <= ScanCap
      /\ found \subseteq Paths /\ Paths \subseteq Nat /\ IsFiniteSet(Paths) /\ ScanCap \in Nat
  BY FoundFinite, McpAssumption DEF TypeInv, TypeOK
<1> DEFINE Below(p) == {q \in Paths : q < p}
<1>3. ASSUME NEW p \in found PROVE Cardinality(Below(p)) < ScanCap
  <2>1. Below(p) \subseteq found \ {p}
    <3> SUFFICES ASSUME NEW q \in Paths, q < p PROVE q \in found \ {p}
      OBVIOUS
    <3>1. p \in Nat /\ q \in Nat /\ p # q
      BY <1>2
    <3>2. q \in Visited \ found => p < q
      BY DEF ScanInv
    <3> QED
      BY <1>1, <3>1, <3>2
  <2>2. IsFiniteSet(found \ {p}) /\ Cardinality(found \ {p}) = Cardinality(found) - 1
    BY <1>2, FS_RemoveElement
  <2>3. /\ IsFiniteSet(Below(p)) /\ Cardinality(Below(p)) <= Cardinality(found \ {p})
        /\ Cardinality(Below(p)) \in Nat
    BY <2>1, <2>2, FS_Subset, FS_CardinalityType
  <2> HIDE DEF Below
  <2> QED
    BY <1>2, <2>2, <2>3
<1>4. ASSUME NEW p \in Paths \ found PROVE ~(Cardinality(Below(p)) < ScanCap)
  <2>1. Cardinality(found) = ScanCap
    BY <1>1 DEF ScanInv
  <2>2. found \subseteq Below(p)
    BY <1>1, <1>2 DEF ScanInv
  <2>3. IsFiniteSet(Below(p))
    BY <1>2, FS_Subset
  <2>4. Cardinality(found) <= Cardinality(Below(p)) /\ Cardinality(Below(p)) \in Nat
    BY <2>2, <2>3, FS_Subset, FS_CardinalityType
  <2> HIDE DEF Below
  <2> QED
    BY <1>2, <2>1, <2>4
<1>5. found = Smallest
  BY <1>2, <1>3, <1>4 DEF Smallest
<1> QED
  BY <1>1, <1>5 DEF ScanInv

\* However the directories of a workspace are listed, its w1, w2, ... are its
\* smallest paths, up to the cap, and what is left out is told.
THEOREM SameIds == Spec => []WorkspaceIds
<1>1. Init => ScanInv
  BY DEF Init, ScanInv, Visited
<1> QED
  BY <1>1, InitType, NextType, NextScan, KeepsSmallest, PTL DEF Spec
-----------------------------------------------------------------------------
(* The journal.                                                             *)

LEMMA MaxIs ==
  ASSUME NEW S, NEW n \in S, \A y \in S : y \in Nat /\ n >= y
  PROVE  Max(S) = n
<1>1. \E x \in S : \A y \in S : x >= y
  OBVIOUS
<1>2. Max(S) \in S /\ \A y \in S : Max(S) >= y
  BY <1>1 DEF Max
<1> QED
  BY <1>2

\* What a handle held before entry k depends on the entries before k only.
LEMMA HeldStays ==
  ASSUME NEW d, NEW k \in Nat, opened'[d] = opened[d],
         \A j \in 1 .. k - 1 : journal'[j] = journal[j]
  PROVE  Held(d, k)' = Held(d, k)
<1> DEFINE E == {j \in 1 .. k - 1 : journal[j].doc = d}
           F == {j \in 1 .. k - 1 : journal'[j].doc = d}
<1>1. E = F
  OBVIOUS
<1>2. Max(E) \in E \/ E = {}
  <2>1. E \subseteq Nat /\ IsFiniteSet(E)
    <3>1. IsFiniteSet(1 .. k - 1)
      BY FS_Interval
    <3> QED
      BY <3>1, FS_Subset
  <2> QED
    BY <2>1, Greatest
<1>3. E # {} => journal'[Max(E)] = journal[Max(E)]
  BY <1>2
<1>4. /\ Held(d, k) = IF E = {} THEN opened[d] ELSE journal[Max(E)].after
      /\ Held(d, k)' = IF F = {} THEN opened'[d] ELSE journal'[Max(F)].after
  BY DEF Held
<1> HIDE DEF E, F
<1> QED
  BY <1>1, <1>3, <1>4

\* After an entry its handle holds what the entry left, and any other what it
\* held before.
LEMMA HeldMoves ==
  ASSUME NEW n \in Nat \ {0}, NEW d
  PROVE  /\ journal'[n].doc = d => Held(d, n + 1)' = journal'[n].after
         /\ journal'[n].doc # d => Held(d, n + 1)' = Held(d, n)'
<1> DEFINE E == {j \in 1 .. n - 1 : journal'[j].doc = d}
           F == {j \in 1 .. (n + 1) - 1 : journal'[j].doc = d}
<1>1. /\ Held(d, n)' = IF E = {} THEN opened'[d] ELSE journal'[Max(E)].after
      /\ Held(d, n + 1)' = IF F = {} THEN opened'[d] ELSE journal'[Max(F)].after
  BY DEF Held
<1>2. 1 .. (n + 1) - 1 = (1 .. n - 1) \cup {n}
  OBVIOUS
<1>3. CASE journal'[n].doc = d
  <2>1. n \in F /\ \A y \in F : y \in Nat /\ n >= y
    BY <1>3
  <2> HIDE DEF F
  <2>2. Max(F) = n
    BY <2>1, MaxIs
  <2> QED
    BY <1>1, <1>3, <2>1, <2>2
<1>4. CASE journal'[n].doc # d
  <2>1. F = E
    BY <1>2, <1>4
  <2> HIDE DEF E, F
  <2> QED
    BY <1>1, <1>4, <2>1
<1> QED
  BY <1>3, <1>4

LEMMA HalvesFinite == ASSUME IsSeq(journal) PROVE IsFiniteSet(Halves) /\ Cardinality(Halves) \in Nat
<1>1. IsFiniteSet(DOMAIN journal)
  BY Lengths, FS_Interval
<1>2. Halves \subseteq DOMAIN journal
  BY DEF Halves
<1> QED
  BY <1>1, <1>2, FS_Subset, FS_CardinalityType

\* A handle is given a number no entry has.
LEMMA OpenExplains ==
  ASSUME TypeInv, JournalInv, Open, trouble' = trouble
  PROVE  JournalInv'
<1>1. PICK path : Opens(path)
  BY DEF Open
<1>2. /\ nextId \notin DOMAIN opened /\ DOMAIN docs \subseteq DOMAIN opened
      /\ IsSeq(journal) /\ Len(journal) \in Nat /\ DOMAIN journal = 1 .. Len(journal)
  BY Lengths DEF TypeInv, TypeOK, JournalInv
<1>3. CASE UNCHANGED handles
  BY <1>3 DEF JournalInv, JournalExplains, Held, handles
<1>4. CASE ~UNCHANGED handles
  <2>1. /\ docs' = [d \in DOMAIN docs \cup {nextId} |-> IF d = nextId THEN disk[path] ELSE docs[d]]
        /\ opened' = [d \in DOMAIN opened \cup {nextId} |->
                        IF d \in DOMAIN opened THEN opened[d] ELSE disk[path]]
        /\ journal' = journal
    BY <1>1, <1>4 DEF Opens, NewId
  <2>2. \A d \in DOMAIN opened : opened'[d] = opened[d]
    BY <2>1
  <2>3. \A d \in DOMAIN opened, k \in Nat : Held(d, k)' = Held(d, k)
    BY <2>1, <2>2, HeldStays
  <2>4. ASSUME NEW d \in DOMAIN docs', NEW k, k = Len(journal) + 1
        PROVE  docs'[d] = Held(d, k)'
    <3>1. k \in Nat
      BY <1>2, <2>4
    <3>2. CASE d \in DOMAIN docs
      <4>1. docs[d] = Held(d, k)
        BY <2>4, <3>2 DEF JournalInv, JournalExplains
      <4>2. d # nextId
        BY <1>2, <3>2
      <4> QED
        BY <1>2, <2>1, <2>3, <3>1, <3>2, <4>1, <4>2
    <3>3. CASE d \notin DOMAIN docs
      <4>1. d = nextId /\ docs'[d] = disk[path] /\ opened'[d] = disk[path]
        BY <1>2, <2>1, <3>3
      <4>2. \A j \in 1 .. k - 1 : journal'[j].doc # d
        BY <1>2, <2>1, <2>4, <4>1 DEF JournalInv
      <4> QED
        BY <4>1, <4>2 DEF Held
    <3> QED
      BY <3>2, <3>3
  <2>5. \A k \in DOMAIN journal : journal[k].before = Held(journal[k].doc, k)
    BY DEF JournalInv, JournalExplains
  <2>6. ASSUME NEW k \in DOMAIN journal', NEW d, d = journal'[k].doc
        PROVE  journal'[k].before = Held(d, k)'
    <3>1. k \in Nat /\ d \in DOMAIN opened /\ k \in DOMAIN journal
      BY <1>2, <2>1, <2>6 DEF JournalInv
    <3> QED
      BY <2>1, <2>3, <2>5, <2>6, <3>1
  <2>7. \A k \in DOMAIN journal' : journal'[k].doc \in DOMAIN opened'
    BY <2>1 DEF JournalInv
  <2>8. JournalExplains'
    BY <2>1, <2>4, <2>6 DEF JournalInv, JournalExplains
  <2> QED
    BY <1>2, <2>1, <2>7, <2>8 DEF JournalInv
<1> QED
  BY <1>3, <1>4

\* A change is entered with what the handle held and what it holds then.
LEMMA ChangeExplains ==
  ASSUME TypeInv, JournalInv, Changes
  PROVE  JournalInv'
<1>1. PICK after, says :
        /\ Doc \in DOMAIN docs
        /\ Puts(after, says)
        /\ opened' = opened
        /\ \/ says = "ok" /\ trouble' = trouble
           \/ says = "error" /\ after = docs[Doc] /\ trouble' = trouble
           \/ says = "error" /\ Fails
  BY DEF Changes
<1>2. PICK d0, n, e : /\ d0 = Doc /\ n = Len(journal) + 1
                      /\ e = [doc |-> d0, before |-> docs[d0], after |-> after, says |-> says]
  OBVIOUS
<1>3. /\ d0 \in DOMAIN docs /\ docs' = [docs EXCEPT ![d0] = after] /\ opened' = opened
      /\ journal' = Append(journal, e)
  BY <1>1, <1>2 DEF Puts, Journal
<1>4. /\ IsSeq(journal) /\ DOMAIN journal = 1 .. Len(journal) /\ Len(journal) \in Nat
      /\ n \in Nat \ {0} /\ n + 1 \in Nat
      /\ DOMAIN docs \subseteq DOMAIN opened
  BY <1>2, Lengths DEF TypeInv, TypeOK, JournalInv
<1>5. /\ IsSeq(journal') /\ Len(journal') = n /\ journal'[n] = e
      /\ \A k \in DOMAIN journal : journal'[k] = journal[k]
  BY <1>2, <1>3, <1>4, Appended
<1>6. DOMAIN journal' = DOMAIN journal \cup {n} /\ \A k \in DOMAIN journal : k \in Nat /\ k < n
  <2>1. DOMAIN journal' = 1 .. n
    BY <1>5, Lengths
  <2> QED
    BY <1>2, <1>4, <2>1
<1>7. ASSUME NEW d, NEW k \in 1 .. n PROVE Held(d, k)' = Held(d, k)
  <2>1. \A j \in 1 .. k - 1 : journal'[j] = journal[j]
    BY <1>2, <1>4, <1>5
  <2>2. k \in Nat /\ opened'[d] = opened[d]
    BY <1>3, <1>4
  <2> QED
    BY <2>1, <2>2, HeldStays
\* The entries, old and new, start from what their handle held ...
<1>8. ASSUME NEW k \in DOMAIN journal', NEW d, d = journal'[k].doc
      PROVE  journal'[k].before = Held(d, k)'
  <2>1. CASE k \in DOMAIN journal
    <3>1. k \in 1 .. n /\ journal'[k] = journal[k]
      BY <1>2, <1>4, <1>5, <2>1
    <3>2. journal[k].before = Held(journal[k].doc, k)
      BY <2>1 DEF JournalInv, JournalExplains
    <3> QED
      BY <1>7, <1>8, <3>1, <3>2
  <2>2. CASE k = n
    <3>1. d = d0 /\ journal'[k].before = docs[d0] /\ k \in 1 .. n
      BY <1>2, <1>4, <1>5, <1>8, <2>2
    <3>2. docs[d0] = Held(d0, n)
      BY <1>2, <1>3 DEF JournalInv, JournalExplains
    <3> QED
      BY <1>7, <2>2, <3>1, <3>2
  <2> QED
    BY <1>6, <2>1, <2>2
\* ... and the handles hold what their last entry left.
<1>9. ASSUME NEW d \in DOMAIN docs', NEW k, k = n + 1
      PROVE  docs'[d] = Held(d, k)'
  <2>1. d \in DOMAIN docs /\ n \in 1 .. n
    BY <1>3, <1>4
  <2>2. /\ journal'[n].doc = d => Held(d, k)' = journal'[n].after
        /\ journal'[n].doc # d => Held(d, k)' = Held(d, n)'
    BY <1>4, <1>9, HeldMoves
  <2>3. Held(d, n)' = Held(d, n) /\ Held(d, n) = docs[d]
    BY <1>2, <1>7, <2>1 DEF JournalInv, JournalExplains
  <2>4. CASE d = d0
    BY <1>2, <1>3, <1>5, <2>2, <2>4
  <2>5. CASE d # d0
    BY <1>2, <1>3, <1>5, <2>1, <2>2, <2>3, <2>5
  <2> QED
    BY <2>4, <2>5
<1>10. Cardinality(Halves') <= trouble'
  <2>1. IsFiniteSet(Halves) /\ Cardinality(Halves) \in Nat /\ Cardinality(Halves) <= trouble
    BY <1>4, HalvesFinite DEF JournalInv, JournalExplains, Halves
  <2>2. trouble \in Nat
    BY McpAssumption DEF TypeInv, TypeOK
  <2>3. CASE trouble' = trouble
    <3>1. ~(e.says = "error" /\ e.before # e.after)
      BY <1>1, <1>2, <2>2, <2>3 DEF Fails
    <3>2. Halves' = Halves
      BY <1>5, <1>6, <3>1 DEF Halves
    <3> QED
      BY <2>1, <2>3, <3>2
  <2>4. CASE Fails
    <3>1. Halves' \subseteq Halves \cup {n}
      BY <1>5, <1>6 DEF Halves
    <3>2. IsFiniteSet(Halves \cup {n}) /\ Cardinality(Halves \cup {n}) <= Cardinality(Halves) + 1
      BY <2>1, FS_AddElement
    <3>3. IsFiniteSet(Halves')
      BY <3>1, <3>2, FS_Subset
    <3>4. /\ Cardinality(Halves') <= Cardinality(Halves \cup {n})
          /\ Cardinality(Halves') \in Nat /\ Cardinality(Halves \cup {n}) \in Nat
      BY <3>1, <3>2, <3>3, FS_Subset, FS_CardinalityType
    <3> QED
      BY <2>1, <2>2, <2>4, <3>2, <3>4 DEF Fails
  <2> QED
    BY <1>1, <2>3, <2>4
<1>11. \A k \in DOMAIN journal' : journal'[k].doc \in DOMAIN opened'
  BY <1>2, <1>3, <1>4, <1>5, <1>6 DEF JournalInv
<1>12. JournalExplains'
  BY <1>5, <1>8, <1>9, <1>10 DEF JournalExplains, Halves
<1> QED
  BY <1>5, <1>11, <1>12 DEF JournalInv

\* Nothing is entered, and no handle that stays open changes.
LEMMA QuietExplains ==
  ASSUME TypeInv, JournalInv, UNCHANGED <<journal, opened>>,
         DOMAIN docs' \subseteq DOMAIN docs, \A d \in DOMAIN docs' : docs'[d] = docs[d],
         trouble' \in Nat, trouble' >= trouble
  PROVE  JournalInv'
<1>1. \A d, k : Held(d, k)' = Held(d, k)
  BY DEF Held
<1>2. /\ Halves' = Halves /\ Cardinality(Halves) \in Nat /\ Cardinality(Halves) <= trouble
      /\ trouble \in Nat
  BY HalvesFinite, McpAssumption DEF JournalInv, JournalExplains, Halves, TypeInv, TypeOK
<1>3. Cardinality(Halves') <= trouble'
  BY <1>2
<1>4. JournalExplains'
  BY <1>1, <1>3 DEF JournalInv, JournalExplains, Halves
<1> QED
  BY <1>4 DEF JournalInv

LEMMA NextJournal == TypeInv /\ JournalInv /\ [Next]_vars => JournalInv'
<1> SUFFICES ASSUME TypeInv, JournalInv, [Next]_vars PROVE JournalInv'
  OBVIOUS
<1>1. CASE Open /\ trouble' = trouble
  BY <1>1, OpenExplains
<1>2. CASE Changes
  BY <1>2, ChangeExplains
<1>3. CASE Close /\ trouble' = trouble
  <2>1. trouble \in Nat
    BY McpAssumption DEF TypeInv, TypeOK
  <2> QED
    BY <1>3, <2>1, QuietExplains DEF Close
<1>4. CASE UNCHANGED handles /\ trouble' \in Nat /\ trouble' >= trouble
  BY <1>4, QuietExplains DEF handles
<1> QED
  BY <1>1, <1>2, <1>3, <1>4, HandleSteps

\* Whatever a client calls and however the tools fail, the journal leads from
\* what a handle was opened with to what it holds, and a call that answers an
\* error changed something only where the core failed halfway.
THEOREM Explains == Spec => []JournalExplains
<1>1. Init => JournalInv
  <2> SUFFICES ASSUME Init PROVE JournalInv
    OBVIOUS
  <2>1. IsSeq(journal) /\ DOMAIN journal = {} /\ DOMAIN docs = {} /\ trouble = 0
    BY DEF Init, IsSeq
  <2>2. Halves = {}
    BY <2>1 DEF Halves
  <2>3. Cardinality(Halves) <= trouble
    BY <2>1, <2>2, FS_EmptySet
  <2> QED
    BY <2>1, <2>3 DEF JournalInv, JournalExplains, Halves
<1>2. JournalInv => JournalExplains
  BY DEF JournalInv
<1> QED
  BY <1>1, <1>2, InitType, NextType, NextJournal, PTL DEF Spec
-----------------------------------------------------------------------------
(* The answers.                                                             *)

\* The lines read have left the pipe in the order they were sent; the one at work
\* is the last of them.
LinesRead == Len(sent) - Len(inbox)
AtWork == pc \in {"called", "feeding", "waiting", "answering"}
LinesInOrder ==
  /\ IsSeq(sent) /\ Len(inbox) <= Len(sent)
  /\ \A i \in 1 .. Len(inbox) : inbox[i] = [id |-> LinesRead + i, line |-> sent[LinesRead + i]]
  /\ AtWork => /\ LinesRead > 0
               /\ call = [id |-> LinesRead, line |-> sent[LinesRead]]
               /\ sent[LinesRead].tool # "notice"
  /\ ~AtWork => call = NoCall

\* Children answer for their tool only, and an answer has the id of its line.
AnswerInv ==
  /\ LinesInOrder
  /\ IsSeq(answered)
  /\ pc \in {"feeding", "waiting"} => Tool = "cli"
  /\ pc = "answering" => answer.id = IF Tool = "garbage" THEN Null ELSE call.id
  /\ AnswersInOrder

\* A line is sent, read or answered; every other step works on the one at work.
LEMMA AnswerSteps ==
  ASSUME AnswerInv, [Next]_vars
  PROVE  \/ Send \/ ReadLine \/ WriteAnswer
         \/ /\ UNCHANGED <<sent, inbox, answered, call>>
            /\ AtWork' <=> AtWork
            /\ pc' \in {"feeding", "waiting"} => Tool = "cli"
            /\ pc' = "answering" => answer'.id = IF Tool = "garbage" THEN Null ELSE call.id
<1> USE DEF AtWork, client
<1>1. CASE Scan
  BY <1>1 DEF Scan, Visit, Scanned, ScanFails
<1>2. CASE Garbage \/ Query
  BY <1>2 DEF Garbage, Query, Answers
<1>3. CASE Open
  BY <1>3 DEF Open, Opens, Answers
<1>4. CASE Close \/ NotOpen
  BY <1>4 DEF Close, NotOpen, Answers
<1>5. CASE ReplaceText
  BY <1>5 DEF ReplaceText, Works, CutShort, Puts, Answers
<1>6. CASE SetCell
  BY <1>6 DEF SetCell, Works, CutShort, Puts, Answers
<1>7. CASE FillFields
  BY <1>7 DEF FillFields, Works, CutShort, Puts, Answers
<1>8. CASE Save
  BY <1>8 DEF Save, Works, CutShort, Puts, Answers
<1>9. CASE Spawn
  BY <1>9 DEF Spawn, Answers
<1>10. CASE Reap
  BY <1>10 DEF Reap, Answers, AnswerInv
<1>11. CASE Feed \/ CloseStdin \/ Collect \/ Hangup \/ Receive
  BY <1>11 DEF Feed, CloseStdin, Collect, Hangup, Receive, AnswerInv
<1>12. CASE Child \/ ChildDies
  BY <1>12 DEF Child, ChildReads, ChildStarts, ChildWrites, ChildEnds, ChildDies, AnswerInv
<1>13. CASE UNCHANGED vars
  BY <1>13 DEF vars, AnswerInv
<1> QED
  BY <1>1, <1>2, <1>3, <1>4, <1>5, <1>6, <1>7, <1>8, <1>9, <1>10, <1>11, <1>12, <1>13
     DEF Next, Server, Session

LEMMA CallIsSome == \A i, l : [id |-> i, line |-> l] # NoCall
<1> SUFFICES ASSUME NEW i, NEW l, [id |-> i, line |-> l] = NoCall PROVE FALSE
  OBVIOUS
<1>1. DOMAIN [id |-> i, line |-> l] = {"id", "line"} /\ DOMAIN NoCall = {"tool"}
  BY DEF NoCall
<1> QED
  BY <1>1

LEMMA HandledIs ==
  ASSUME TypeInv, LinesInOrder
  PROVE  /\ Len(sent) \in Nat /\ Len(inbox) \in Nat /\ LinesRead \in 0 .. Len(sent)
         /\ Handled = IF AtWork THEN LinesRead - 1 ELSE LinesRead
         /\ Handled \in 0 .. Len(sent)
<1>1. Len(sent) \in Nat /\ Len(inbox) \in Nat /\ Len(inbox) <= Len(sent)
  BY Lengths DEF TypeInv, LinesInOrder
<1>2. LinesRead = Len(sent) - Len(inbox)
  BY DEF LinesRead
<1>3. AtWork <=> call # NoCall
  BY CallIsSome DEF LinesInOrder
<1>4. Handled = IF AtWork THEN LinesRead - 1 ELSE LinesRead
  <2>1. CASE AtWork
    <3>1. call # NoCall
      BY <1>3, <2>1
    <3> QED
      BY <1>1, <1>2, <2>1, <3>1 DEF Handled
  <2>2. CASE ~AtWork
    <3>1. call = NoCall
      BY <1>3, <2>2
    <3> QED
      BY <1>1, <1>2, <2>2, <3>1 DEF Handled
  <2> QED
    BY <2>1, <2>2
<1>5. AtWork => LinesRead > 0
  BY DEF LinesInOrder
<1> QED
  BY <1>1, <1>2, <1>4, <1>5

\* The lines stay in order.
LEMMA NextLines ==
  ASSUME TypeInv, AnswerInv, [Next]_vars
  PROVE  LinesInOrder'
<1>1. /\ Len(sent) \in Nat /\ Len(inbox) \in Nat /\ LinesRead \in 0 .. Len(sent)
      /\ Len(inbox) <= Len(sent) /\ LinesInOrder /\ IsSeq(sent) /\ IsSeq(inbox)
  BY HandledIs DEF AnswerInv, LinesInOrder, TypeInv
<1>2. CASE Send
  <2>1. PICK line : /\ sent' = Append(sent, line)
                    /\ inbox' = Append(inbox, [id |-> Len(sent) + 1, line |-> line])
    BY <1>2 DEF Send
  <2>2. pc' = pc /\ call' = call
    BY <1>2 DEF Send
  <2>3. /\ IsSeq(sent') /\ Len(sent') = Len(sent) + 1 /\ sent'[Len(sent) + 1] = line
        /\ \A k \in 1 .. Len(sent) : sent'[k] = sent[k]
    BY <1>1, <2>1, Appended
  <2>4. /\ Len(inbox') = Len(inbox) + 1
        /\ inbox'[Len(inbox) + 1] = [id |-> Len(sent) + 1, line |-> line]
        /\ \A k \in 1 .. Len(inbox) : inbox'[k] = inbox[k]
    BY <1>1, <2>1, Appended
  <2>5. LinesRead' = LinesRead /\ LinesRead + Len(inbox) = Len(sent)
    BY <1>1, <2>3, <2>4 DEF LinesRead
  <2>6. ASSUME NEW i \in 1 .. Len(inbox')
        PROVE  inbox'[i] = [id |-> LinesRead + i, line |-> sent'[LinesRead + i]]
    <3>1. CASE i \in 1 .. Len(inbox)
      <4>1. LinesRead + i \in 1 .. Len(sent)
        BY <1>1, <2>5, <3>1
      <4>2. inbox[i] = [id |-> LinesRead + i, line |-> sent[LinesRead + i]]
        BY <3>1 DEF AnswerInv, LinesInOrder
      <4> QED
        BY <2>3, <2>4, <3>1, <4>1, <4>2
    <3>2. CASE i = Len(inbox) + 1
      <4>1. LinesRead + i = Len(sent) + 1
        BY <1>1, <2>5, <3>2
      <4> QED
        BY <2>3, <2>4, <3>2, <4>1
    <3> QED
      BY <1>1, <2>4, <3>1, <3>2
  <2>7. AtWork => sent'[LinesRead] = sent[LinesRead]
    BY <1>1, <2>3 DEF LinesInOrder
  <2>8. Len(inbox') <= Len(sent')
    BY <1>1, <2>3, <2>4
  <2> QED
    BY <2>2, <2>3, <2>5, <2>6, <2>7, <2>8 DEF AnswerInv, LinesInOrder, AtWork
<1>3. CASE ReadLine
  <2>1. inbox # <<>> /\ inbox' = Tail(inbox) /\ sent' = sent /\ pc = "idle"
    BY <1>3 DEF ReadLine, client
  <2>2. Len(inbox) > 0 /\ Len(inbox') = Len(inbox) - 1
    BY <1>1, <2>1, Tailed
  <2>3. \A i \in 1 .. Len(inbox') : inbox'[i] = inbox[i + 1]
    BY <1>1, <2>1, <2>2 DEF IsSeq
  <2>4. LinesRead' = LinesRead + 1
    BY <1>1, <2>1, <2>2 DEF LinesRead
  <2>5. ASSUME NEW i \in 1 .. Len(inbox')
        PROVE  inbox'[i] = [id |-> LinesRead' + i, line |-> sent'[LinesRead' + i]]
    <3>1. i + 1 \in 1 .. Len(inbox) /\ LinesRead + (i + 1) = LinesRead' + i
      BY <1>1, <2>2, <2>4
    <3>2. inbox[i + 1] = [id |-> LinesRead + (i + 1), line |-> sent[LinesRead + (i + 1)]]
      BY <3>1 DEF AnswerInv, LinesInOrder
    <3> QED
      BY <2>1, <2>3, <3>1, <3>2
  <2>6. Head(inbox) = [id |-> LinesRead', line |-> sent[LinesRead']]
    <3>1. Head(inbox) = inbox[1] /\ 1 \in 1 .. Len(inbox)
      BY <1>1, <2>1, <2>2 DEF IsSeq
    <3> QED
      BY <2>4, <3>1 DEF AnswerInv, LinesInOrder
  <2>7. Len(inbox') <= Len(sent') /\ LinesRead' > 0
    BY <1>1, <2>1, <2>2, <2>4
  <2>8. CASE sent[LinesRead'].tool = "notice"
    <3>1. pc' = pc /\ call' = call
      BY <1>3, <2>6, <2>8 DEF ReadLine
    <3> QED
      BY <2>1, <2>5, <2>7, <3>1 DEF AnswerInv, LinesInOrder, AtWork
  <2>9. CASE sent[LinesRead'].tool # "notice"
    <3>1. pc' = "called" /\ call' = Head(inbox)
      BY <1>3, <2>6, <2>9 DEF ReadLine
    <3> QED
      BY <2>1, <2>5, <2>6, <2>7, <2>9, <3>1 DEF AnswerInv, LinesInOrder, AtWork
  <2> QED
    BY <2>8, <2>9
<1>4. CASE WriteAnswer
  BY <1>4 DEF WriteAnswer, AnswerInv, LinesInOrder, LinesRead, AtWork
<1>5. CASE UNCHANGED <<sent, inbox, call>> /\ (AtWork' <=> AtWork)
  BY <1>5 DEF AnswerInv, LinesInOrder, LinesRead
<1> QED
  BY <1>2, <1>3, <1>4, <1>5, AnswerSteps

\* The places of the answers: one for each line asked, in their order.
LEMMA RankIs ==
  ASSUME Handled \in Nat
  PROVE  /\ Asked \subseteq 1 .. Handled /\ IsFiniteSet(Asked) /\ Cardinality(Asked) \in Nat
         /\ \A k \in Asked : Rank(k) \in 1 .. Cardinality(Asked)
<1>1. Asked \subseteq 1 .. Handled
  BY DEF Asked
<1>2. IsFiniteSet(Asked) /\ Cardinality(Asked) \in Nat
  <2>1. IsFiniteSet(1 .. Handled)
    BY FS_Interval
  <2> QED
    BY <1>1, <2>1, FS_Subset, FS_CardinalityType
<1>3. ASSUME NEW k \in Asked PROVE Rank(k) \in 1 .. Cardinality(Asked)
  <2> DEFINE S == {j \in Asked : j <= k}
  <2>1. S \subseteq Asked /\ k \in S
    BY <1>1
  <2> HIDE DEF S
  <2>2. IsFiniteSet(S) /\ Cardinality(S) \in Nat /\ Cardinality(S) <= Cardinality(Asked)
    BY <1>2, <2>1, FS_Subset, FS_CardinalityType
  <2>3. Cardinality(S) # 0
    BY <2>1, <2>2, FS_EmptySet
  <2>4. Rank(k) = Cardinality(S)
    BY DEF Rank, S
  <2> QED
    BY <1>2, <2>2, <2>3, <2>4
<1> QED
  BY <1>1, <1>2, <1>3

\* A line more or a notification more changes nothing in what was asked.
LEMMA AskedStays ==
  ASSUME TypeInv, AnswerInv, [Next]_vars, ~WriteAnswer
  PROVE  Asked' = Asked /\ answered' = answered
<1>1. LinesInOrder' /\ TypeInv'
  BY NextLines, NextType
<1>2. /\ Handled = IF AtWork THEN LinesRead - 1 ELSE LinesRead
      /\ LinesRead \in 0 .. Len(sent) /\ Len(sent) \in Nat /\ Len(inbox) \in Nat
  BY HandledIs DEF AnswerInv
<1>3. Handled' = IF AtWork' THEN LinesRead' - 1 ELSE LinesRead'
  <2>1. Len(sent') \in Nat /\ Len(inbox') \in Nat /\ LinesRead' = Len(sent') - Len(inbox')
    BY <1>1, Lengths DEF TypeInv, LinesInOrder, LinesRead
  <2>2. AtWork' <=> call' # NoCall
    BY <1>1, CallIsSome DEF LinesInOrder
  <2>3. CASE AtWork'
    <3>1. call' # NoCall
      BY <2>2, <2>3
    <3> QED
      BY <2>1, <2>3, <3>1 DEF Handled
  <2>4. CASE ~AtWork'
    <3>1. call' = NoCall
      BY <2>2, <2>4
    <3> QED
      BY <2>1, <2>4, <3>1 DEF Handled
  <2> QED
    BY <2>3, <2>4
<1>4. IsSeq(sent) /\ IsSeq(inbox)
  BY DEF AnswerInv, LinesInOrder, TypeInv
<1>5. CASE Send
  <2>1. PICK line : /\ sent' = Append(sent, line)
                    /\ inbox' = Append(inbox, [id |-> Len(sent) + 1, line |-> line])
    BY <1>5 DEF Send
  <2>2. pc' = pc /\ answered' = answered /\ call' = call
    BY <1>5 DEF Send
  <2>3. /\ Len(sent') = Len(sent) + 1 /\ Len(inbox') = Len(inbox) + 1
        /\ \A k \in 1 .. Len(sent) : sent'[k] = sent[k]
    BY <1>4, <2>1, Appended
  <2>4. Handled' = Handled
    BY <1>2, <2>2, <2>3 DEF Handled
  <2>5. Handled \in 0 .. Len(sent)
    BY HandledIs DEF AnswerInv
  <2>6. \A k \in 1 .. Handled : sent'[k] = sent[k]
    BY <1>2, <2>3, <2>5
  <2> QED
    BY <2>2, <2>4, <2>6 DEF Asked
<1>6. CASE ReadLine
  <2>1. inbox # <<>> /\ inbox' = Tail(inbox) /\ sent' = sent /\ pc = "idle" /\ answered' = answered
    BY <1>6 DEF ReadLine, client
  <2>2. Len(inbox') = Len(inbox) - 1
    BY <1>4, <2>1, Tailed
  <2>3. LinesRead' = LinesRead + 1 /\ LinesRead \in Nat
    BY <1>2, <2>1, <2>2 DEF LinesRead
  <2>4. ~AtWork /\ Handled = LinesRead
    BY <1>2, <2>1 DEF AtWork
  <2>5. CASE AtWork'
    BY <1>3, <2>1, <2>3, <2>4, <2>5 DEF Asked
  <2>6. CASE ~AtWork'
    <3>1. sent[LinesRead + 1].tool = "notice"
      <4>1. Head(inbox).line.tool = "notice"
        BY <1>6, <2>6 DEF ReadLine, AtWork
      <4>2. Head(inbox) = inbox[1] /\ 1 \in 1 .. Len(inbox)
        BY <1>4, <2>1 DEF IsSeq
      <4>3. \A i \in 1 .. Len(inbox) :
              inbox[i] = [id |-> LinesRead + i, line |-> sent[LinesRead + i]]
        BY DEF AnswerInv, LinesInOrder
      <4>4. inbox[1] = [id |-> LinesRead + 1, line |-> sent[LinesRead + 1]]
        BY <4>2, <4>3
      <4>5. inbox[1].line = sent[LinesRead + 1]
        BY <4>4
      <4> QED
        BY <4>1, <4>2, <4>5
    <3>2. Handled' = Handled + 1
      BY <1>3, <2>3, <2>4, <2>6
    <3>3. 1 .. Handled' = (1 .. Handled) \cup {Handled + 1}
      BY <2>3, <2>4, <3>2
    <3> QED
      BY <2>1, <2>4, <3>1, <3>3 DEF Asked
  <2> QED
    BY <2>5, <2>6
<1>7. CASE UNCHANGED <<sent, inbox, answered, call>>
  BY <1>7 DEF Asked, Handled
<1> QED
  BY <1>5, <1>6, <1>7, AnswerSteps

\* The answer written is the next, with the id of the line at work.
LEMMA WriteInOrder ==
  ASSUME TypeInv, AnswerInv, WriteAnswer
  PROVE  IsSeq(answered') /\ AnswersInOrder'
<1>1. /\ answered' = Append(answered, answer) /\ sent' = sent /\ inbox' = inbox
      /\ pc = "answering" /\ call' = NoCall
  BY DEF WriteAnswer
<1>2. PICK n : n = LinesRead
  OBVIOUS
<1>3. /\ n \in Nat \ {0} /\ Handled = n - 1 /\ Len(sent) \in Nat /\ Len(inbox) \in Nat
      /\ call = [id |-> n, line |-> sent[n]] /\ sent[n].tool # "notice"
  BY <1>1, <1>2, HandledIs DEF AnswerInv, LinesInOrder, AtWork
<1>4. Handled' = n
  BY <1>1, <1>2, <1>3 DEF Handled, LinesRead
<1>5. Asked' = Asked \cup {n} /\ n \notin Asked /\ (\A k \in Asked : k \in Nat /\ k < n)
  <2>1. 1 .. n = (1 .. n - 1) \cup {n} /\ \A k \in 1 .. n - 1 : k \in Nat /\ k < n
    BY <1>3
  <2> QED
    BY <1>1, <1>3, <1>4, <2>1 DEF Asked
<1>6. IsFiniteSet(Asked) /\ Cardinality(Asked) \in Nat
      /\ \A k \in Asked : Rank(k) \in 1 .. Cardinality(Asked)
  BY <1>3, RankIs
<1>7. Cardinality(Asked') = Cardinality(Asked) + 1
  BY <1>5, <1>6, FS_AddElement
<1>8. /\ Len(answered) = Cardinality(Asked) /\ IsSeq(answered)
      /\ \A k \in Asked : answered[Rank(k)].id = IF sent[k].tool = "garbage" THEN Null ELSE k
  BY DEF AnswerInv, AnswersInOrder
<1>9. /\ IsSeq(answered') /\ Len(answered') = Len(answered) + 1
      /\ answered'[Len(answered) + 1] = answer
      /\ \A i \in 1 .. Len(answered) : answered'[i] = answered[i]
  BY <1>1, <1>8, Appended
<1>10. ASSUME NEW k \in Asked PROVE Rank(k)' = Rank(k)
  <2>1. {j \in Asked' : j <= k} = {j \in Asked : j <= k}
    BY <1>3, <1>5, <1>10
  <2> QED
    BY <2>1 DEF Rank
<1>11. Rank(n)' = Cardinality(Asked) + 1
  <2>1. {j \in Asked' : j <= n} = Asked'
    BY <1>3, <1>5
  <2> QED
    BY <1>7, <2>1 DEF Rank
<1>12. answer.id = IF sent[n].tool = "garbage" THEN Null ELSE n
  BY <1>1, <1>3 DEF AnswerInv, Tool
<1>13. ASSUME NEW k \in Asked', NEW r, r = Rank(k)'
       PROVE  answered'[r].id = IF sent'[k].tool = "garbage" THEN Null ELSE k
  <2>1. CASE k \in Asked
    BY <1>1, <1>6, <1>8, <1>9, <1>10, <1>13, <2>1
  <2>2. CASE k = n
    BY <1>1, <1>8, <1>9, <1>11, <1>12, <1>13, <2>2
  <2> QED
    BY <1>5, <2>1, <2>2
<1> QED
  BY <1>7, <1>8, <1>9, <1>13 DEF AnswersInOrder

LEMMA NextAnswers == TypeInv /\ AnswerInv /\ [Next]_vars => AnswerInv'
<1> SUFFICES ASSUME TypeInv, AnswerInv, [Next]_vars PROVE AnswerInv'
  OBVIOUS
<1>1. LinesInOrder'
  BY NextLines
<1>2. CASE WriteAnswer
  <2>1. pc' = "idle"
    BY <1>2 DEF WriteAnswer
  <2> QED
    BY <1>1, <1>2, <2>1, WriteInOrder DEF AnswerInv
<1>3. CASE ~WriteAnswer
  <2>1. Asked' = Asked /\ answered' = answered
    BY <1>3, AskedStays
  <2>2. \A k \in Asked : sent'[k] = sent[k] /\ Rank(k)' = Rank(k)
    <3>1. \A k : Rank(k)' = Rank(k)
      BY <2>1 DEF Rank
    <3>2. Handled \in 0 .. Len(sent) /\ Len(sent) \in Nat /\ IsSeq(sent)
      BY HandledIs DEF AnswerInv, LinesInOrder
    <3>3. Asked \subseteq 1 .. Len(sent)
      BY <3>2 DEF Asked
    <3>4. CASE Send
      <4>1. PICK line : sent' = Append(sent, line)
        BY <3>4 DEF Send
      <4> QED
        BY <3>1, <3>2, <3>3, <4>1, Appended
    <3>5. CASE sent' = sent
      BY <3>1, <3>5
    <3> QED
      BY <1>3, <3>4, <3>5, AnswerSteps DEF ReadLine
  <2>3. AnswersInOrder'
    BY <2>1, <2>2 DEF AnswerInv, AnswersInOrder
  <2>4. /\ pc' \in {"feeding", "waiting"} => Tool' = "cli"
        /\ pc' = "answering" => answer'.id = IF Tool' = "garbage" THEN Null ELSE call'.id
    <3>1. CASE Send \/ ReadLine
      BY <3>1 DEF Send, ReadLine, AnswerInv, Tool
    <3>2. CASE /\ call' = call
               /\ pc' \in {"feeding", "waiting"} => Tool = "cli"
               /\ pc' = "answering" => answer'.id = IF Tool = "garbage" THEN Null ELSE call.id
      BY <3>2 DEF Tool
    <3> QED
      BY <1>3, <3>1, <3>2, AnswerSteps
  <2> QED
    BY <1>1, <2>1, <2>3, <2>4 DEF AnswerInv
<1> QED
  BY <1>2, <1>3

\* However lines, answers and children interleave, every line that wants an answer
\* has exactly one, its own, in the order of the lines.
THEOREM OneAnswerEach == Spec => []AnswersInOrder
<1>1. Init => AnswerInv
  <2> SUFFICES ASSUME Init PROVE AnswerInv
    OBVIOUS
  <2>1. /\ IsSeq(sent) /\ IsSeq(answered) /\ Len(sent) = 0 /\ Len(inbox) = 0 /\ Len(answered) = 0
        /\ call = NoCall /\ pc = "scanning"
    BY DEF Init, IsSeq
  <2>2. LinesInOrder
    BY <2>1 DEF LinesInOrder, AtWork
  <2>3. Asked = {}
    BY <2>1 DEF Asked, Handled
  <2>4. AnswersInOrder
    BY <2>1, <2>3, FS_EmptySet DEF AnswersInOrder
  <2> QED
    BY <2>1, <2>2, <2>4 DEF AnswerInv
<1>2. AnswerInv => AnswersInOrder
  BY DEF AnswerInv
<1> QED
  BY <1>1, <1>2, InitType, NextType, NextAnswers, PTL DEF Spec
=============================================================================
