----------------------------- MODULE LogCommands -----------------------------
(***************************************************************************)
(* The commands that keep an anchor log (`rhwp anchor add`, `checkpoint`,   *)
(* `verify`) or a settlement ledger (`rhwp settle record`), run by several  *)
(* processes on one file.  Nothing locks the file: each command loads it,   *)
(* decides, and then writes.  `anchor add` appends one line; `settle        *)
(* record` reads the file again and writes all of it back.  A command may   *)
(* fail or be killed at any of its steps.                                   *)
(***************************************************************************)
EXTENDS AnchorLog, FiniteSets

CONSTANTS Procs, Capsules,
          Kinds,       \* subset of {"anchorLog", "settlementLedger"}
          MaxCommands, \* bound on the commands that are run
          MaxTrouble   \* bound on failures, kills and deletions of the file

ASSUME LogAssumption ==
  /\ Kinds \subseteq {"anchorLog", "settlementLedger"}
  /\ MaxCommands \in Nat
  /\ MaxTrouble \in Nat

VARIABLES
  kind,
  text,       \* the lines of the file; it need not exist
  pc,         \* per process: "idle", "reread", "truncate", "write" or "append"
  seen,       \* per process: the log its command loaded
  line,       \* per process: the line it is to add
  buf,        \* per process: the whole text it is to write
  commands,   \* commands begun
  trouble,    \* failures, kills and deletions so far
  checkpoint, \* the last checkpoint, Null before the first
  made,       \* ghost: every line made, with the log it was made from
  reported,   \* ghost: the lines reported as added, in that order
  noted,      \* ghost: the log that checkpoint was taken of
  calm,       \* ghost: no two commands overlapped, none failed or was killed
  deleted     \* ghost: somebody deleted the file

vars == <<kind, text, pc, seen, line, buf, commands, trouble, checkpoint,
          made, reported, noted, calm, deleted>>
tools == <<kind, commands, trouble, checkpoint, noted, deleted>>

Ledger == kind = "settlementLedger"
Verdicts == IF Ledger THEN {"accepted", "rejected"} ELSE {"none"}

Init ==
  /\ kind \in Kinds
  /\ text = NoLines
  /\ pc = [p \in Procs |-> "idle"]
  /\ seen = [p \in Procs |-> NoLines]
  /\ line = [p \in Procs |-> Null]
  /\ buf = [p \in Procs |-> NoLines]
  /\ commands = 0
  /\ trouble = 0
  /\ checkpoint = Null
  /\ made = {}
  /\ reported = NoLines
  /\ noted = NoLines
  /\ calm = TRUE
  /\ deleted = FALSE

Becomes(p, state) == pc' = [pc EXCEPT ![p] = state]

Ends(p) ==
  /\ Becomes(p, "idle")
  /\ seen' = [seen EXCEPT ![p] = NoLines]
  /\ line' = [line EXCEPT ![p] = Null]
  /\ buf' = [buf EXCEPT ![p] = NoLines]

\* A ledger in which the capsule is accepted takes no second acceptance.
\* Mutant: only the last entry is compared.
MayAddLast(log, sha, verdict) ==
  verdict = "accepted" /\ log # NoLines => log[Len(log)].sha # sha
MayAdd(log, sha, verdict) ==
  verdict = "accepted" => FindAccepted(log, sha) = {}

\* A command that finds its log broken, or its capsule accepted, exits 3.
Refuse(p) ==
  /\ pc[p] = "idle"
  /\ commands < MaxCommands
  /\ \/ ~Loads(text)
     \/ /\ Loads(text)
        /\ \E sha \in Capsules, verdict \in Verdicts : ~MayAdd(text, sha, verdict)
  /\ commands' = commands + 1
  /\ UNCHANGED <<kind, text, pc, seen, line, buf, trouble, checkpoint, made,
                 reported, noted, calm, deleted>>

\* The file is read again only when the log that was loaded had entries.
AfterLoad(log) ==
  CASE ~Ledger -> "append"
    [] Ledger /\ log = NoLines -> "truncate"
    [] OTHER -> "reread"

\* Mutant: the line is made for the append only.
LoadForgetsLine(p) ==
  /\ pc[p] = "idle"
  /\ commands < MaxCommands
  /\ Loads(text)
  /\ commands' = commands + 1
  /\ seen' = [seen EXCEPT ![p] = text]
  /\ Becomes(p, AfterLoad(text))
  /\ calm' = (calm /\ \A q \in Procs : pc[q] = "idle")
  /\ UNCHANGED <<kind, text, line, buf, trouble, checkpoint, made, reported,
                 noted, deleted>>
Load(p) ==
  /\ pc[p] = "idle"
  /\ commands < MaxCommands
  /\ Loads(text)
  /\ commands' = commands + 1
  /\ \E sha \in Capsules, verdict \in Verdicts :
       LET new == NewLine(text, sha, verdict, commands')
       IN /\ MayAdd(text, sha, verdict)
          /\ seen' = [seen EXCEPT ![p] = text]
          /\ line' = [line EXCEPT ![p] = new]
          /\ buf' = [buf EXCEPT ![p] = <<new>>]
          /\ made' = made \cup {[line |-> new, from |-> text]}
  /\ Becomes(p, AfterLoad(text))
  /\ calm' = (calm /\ \A q \in Procs : pc[q] = "idle")
  /\ UNCHANGED <<kind, text, trouble, checkpoint, reported, noted, deleted>>
-----------------------------------------------------------------------------
(* settle record: the file is read again and written back as a whole.       *)

Reread(p) ==
  /\ pc[p] = "reread"
  /\ buf' = [buf EXCEPT ![p] = text \o <<line[p]>>]
  /\ Becomes(p, "truncate")
  /\ UNCHANGED <<text, seen, line, made, reported, calm, tools>>

\* unwrap_or_default: a text that cannot be read counts as empty.
RereadFails(p) ==
  /\ pc[p] = "reread"
  /\ trouble < MaxTrouble
  /\ trouble' = trouble + 1
  /\ Becomes(p, "truncate")
  /\ calm' = FALSE
  /\ UNCHANGED <<kind, text, seen, line, buf, commands, checkpoint, made,
                 reported, noted, deleted>>

\* fs::write opens the file, which empties it, and then fills it.
Truncate(p) ==
  /\ pc[p] = "truncate"
  /\ text' = NoLines
  /\ Becomes(p, "write")
  /\ UNCHANGED <<seen, line, buf, made, reported, calm, tools>>

\* Lines of one number are equally long, but the first is shorter.
SameWidth(a, b) ==
  a # Torn /\ b # Torn /\ a.seq = b.seq /\ (a.prev = Null <=> b.prev = Null)

\* What the file holds once new was written over under from the beginning: if
\* another writer has filled it meanwhile, the end of its text stays, and where
\* the lines do not match, a line is cut.
Overlay(new, under) ==
  LET rest == SubSeq(under, Len(new) + 1, Len(under))
  IN IF under = NoLines \/ \A i \in 1 .. Len(new) :
                             i <= Len(under) => SameWidth(new[i], under[i])
     THEN {new \o rest}
     ELSE {new \o rest, new \o <<Torn>>}

Write(p) ==
  /\ pc[p] = "write"
  /\ text' \in Overlay(buf[p], text)
  /\ reported' = Append(reported, line[p])
  /\ Ends(p)
  /\ UNCHANGED <<made, calm, tools>>

\* A full disk keeps a part of the text; the command reports the error.
WriteFails(p) ==
  /\ pc[p] = "write"
  /\ trouble < MaxTrouble
  /\ trouble' = trouble + 1
  /\ \E k \in 0 .. Len(buf[p]) - 1, cut \in {NoLines, <<Torn>>} :
       text' \in Overlay(SubSeq(buf[p], 1, k) \o cut, text)
  /\ Ends(p)
  /\ calm' = FALSE
  /\ UNCHANGED <<kind, commands, checkpoint, made, reported, noted, deleted>>
-----------------------------------------------------------------------------
(* anchor add: one write at the end of the file.  The line break goes before *)
(* the line, and only if the log that was loaded had entries.               *)

\* Mutant: no line break at all.
AppendedGlued(p, new) ==
  IF text # NoLines
  THEN SubSeq(text, 1, Len(text) - 1) \o <<Torn>>
  ELSE text \o <<new>>
Appended(p, new) ==
  IF seen[p] = NoLines /\ text # NoLines
  THEN SubSeq(text, 1, Len(text) - 1) \o <<Torn>>
  ELSE text \o <<new>>

AppendLine(p) ==
  /\ pc[p] = "append"
  /\ text' = Appended(p, line[p])
  /\ reported' = Append(reported, line[p])
  /\ Ends(p)
  /\ UNCHANGED <<made, calm, tools>>

AppendFails(p) ==
  /\ pc[p] = "append"
  /\ trouble < MaxTrouble
  /\ trouble' = trouble + 1
  /\ text' \in {text, Appended(p, Torn)}
  /\ Ends(p)
  /\ calm' = FALSE
  /\ UNCHANGED <<kind, commands, checkpoint, made, reported, noted, deleted>>
-----------------------------------------------------------------------------
Killed(p) ==
  /\ pc[p] # "idle"
  /\ trouble < MaxTrouble
  /\ trouble' = trouble + 1
  /\ Ends(p)
  /\ calm' = FALSE
  /\ UNCHANGED <<kind, text, commands, checkpoint, made, reported, noted, deleted>>

TakeCheckpoint ==
  /\ ~Ledger
  /\ Loads(text)
  /\ text # NoLines
  /\ checkpoint' = [upToSeq |-> Len(text) - 1, merkleRoot |-> MerkleRoot(text)]
  /\ noted' = text
  /\ checkpoint' # checkpoint
  /\ UNCHANGED <<kind, text, pc, seen, line, buf, commands, trouble, made,
                 reported, calm, deleted>>

\* The owner of the keys issues the history again: the file is deleted, and
\* what is added afterwards takes its place.
Delete ==
  /\ ~Ledger
  /\ text # NoLines
  /\ trouble < MaxTrouble
  /\ trouble' = trouble + 1
  /\ text' = NoLines
  /\ deleted' = TRUE
  /\ calm' = FALSE
  /\ UNCHANGED <<kind, pc, seen, line, buf, commands, checkpoint, made,
                 reported, noted>>

Next ==
  \/ \E p \in Procs : \/ Refuse(p) \/ Load(p) \/ Killed(p)
                      \/ Reread(p) \/ RereadFails(p) \/ Truncate(p)
                      \/ Write(p) \/ WriteFails(p)
                      \/ AppendLine(p) \/ AppendFails(p)
  \/ TakeCheckpoint
  \/ Delete

Spec == Init /\ [][Next]_vars
-----------------------------------------------------------------------------
(* anchor verify: is the capsule in the log, and did the checkpoint see it? *)

\* The first line of a capsule, 0 if there is none.
FirstOf(log, sha) ==
  LET lines == {i \in 1 .. Len(log) : log[i].sha = sha}
  IN IF lines = {} THEN 0 ELSE CHOOSE i \in lines : \A j \in lines : i <= j

InCheckpoint(log, i) ==
  LET end == checkpoint.upToSeq + 1
      leaves == SubSeq(log, 1, end)
  IN /\ i <= end
     /\ end <= Len(log)
     /\ MerkleVerify(log[i], MerklePath(leaves, i), checkpoint.merkleRoot)
-----------------------------------------------------------------------------
MadeLines == {m.line : m \in made} \cup {Torn}

\* Whatever meets in the file, and whatever is to be written, consists of lines
\* that commands made, or of torn ones.
TypeOK ==
  /\ kind \in Kinds
  /\ text \in Seq(MadeLines)
  /\ pc \in [Procs -> {"idle", "reread", "truncate", "write", "append"}]
  /\ seen \in [Procs -> Seq(MadeLines)]
  /\ buf \in [Procs -> Seq(MadeLines)]
  /\ line \in [Procs -> MadeLines \cup {Null}]
  /\ reported \in Seq(MadeLines)
  /\ commands \in 0 .. MaxCommands
  /\ trouble \in 0 .. MaxTrouble
  /\ calm \in BOOLEAN
  /\ deleted \in BOOLEAN

\* However the commands interleave, overwrite one another, fail or are killed:
\* a ledger that loads never holds a second acceptance of a capsule
\* (settle.rs:70).
AcceptedOnce ==
  Ledger /\ Loads(text) => \A sha \in Capsules : Cardinality(FindAccepted(text, sha)) <= 1

\* Commands that run one at a time and to their end leave exactly what they
\* reported, in that order.  In the anchor log, whose writers only append, that
\* much stays true of any log that still loads: each reported line is where
\* the report put it.
ReportedStays ==
  /\ calm /\ (\A p \in Procs : pc[p] = "idle") => text = reported
  /\ ~Ledger /\ ~deleted /\ Loads(text) => \A i \in 1 .. Len(reported) :
       /\ reported[i].seq + 1 \in 1 .. Len(text)
       /\ text[reported[i].seq + 1] = reported[i]

\* In a log that loads, `anchor verify` confirms a capsule against a checkpoint
\* exactly when the log still begins with the lines the checkpoint was taken
\* of, also when the whole history was issued again since.
CheckpointProves ==
  checkpoint # Null /\ Loads(text) => \A sha \in Capsules :
    LET i == FirstOf(text, sha)
    IN i # 0 => (InCheckpoint(text, i)
                   <=> /\ i <= Len(noted)
                       /\ Len(noted) <= Len(text)
                       /\ SubSeq(text, 1, Len(noted)) = noted)
=============================================================================
