------------------------------ MODULE McpServer ------------------------------
(***************************************************************************)
(* `rhwp mcp-serve`: a server that reads one JSON-RPC message per line,      *)
(* works on documents held open under handles, runs the other tools as      *)
(* child processes, and answers on its standard output.  All pipes are      *)
(* bounded.  The client writes and reads when it likes.                     *)
(*                                                                          *)
(* A document is a sequence of texts, and its digest is the document.  A    *)
(* path is a number, smaller when it sorts first; a handle doc-N is N; a    *)
(* request's id is its place among the lines sent.                          *)
(***************************************************************************)
EXTENDS Integers, Sequences, SequencesExt, FiniteSets, FiniteSetsExt

CONSTANTS
  Paths,     \* the documents below the workspace directory
  Contents,  \* per path: the document there when the server starts
  Calls,     \* per place, the lines a client may send there: records [tool, ...]
  Empty,     \* no text
  Broken,    \* a file cut short
  ScanCap,   \* WORKSPACE_SCAN_CAP
  PipeCap,   \* what a pipe holds
  MaxTrouble \* bound on failures

ASSUME McpAssumption ==
  /\ Paths \subseteq Nat /\ IsFiniteSet(Paths)
  /\ DOMAIN Contents = Paths
  /\ {ScanCap, PipeCap} \subseteq Nat \ {0}
  /\ MaxTrouble \in Nat

VARIABLES
  disk,      \* per path: its document, or Broken
  todo,      \* the paths the scan has not come to
  found,     \* the paths it keeps; in their order they are w1, w2, ...
  truncated, \* it has seen more than it keeps
  docs,      \* per open handle: its document
  nextId,    \* the number of the next handle
  journal,   \* what the changing tools did: [doc, before, after, error]
  inbox,     \* lines in the pipe to the server
  outbox,    \* answers in the pipe to the client
  pc,        \* "scanning", "idle", "called", "feeding", "waiting", "answering", "ended" or "failed"
  call,      \* the line at work
  answer,    \* its answer, once it is known
  left,      \* lines of payload the server has still to write
  child,     \* "none", "reading", "working" or "exited"
  pipe,      \* lines in the pipe to the child, or from it once it has read them
  swept,     \* records the child has still to write
  got,       \* records of the child that the server has read
  trouble,   \* failures so far
  sent,      \* ghost: every line the client sent, in order
  answered,  \* ghost: every answer the server wrote, in order
  opened     \* ghost, per handle ever given: the document it was given for

files == <<disk, todo, found, truncated>>
handles == <<docs, nextId, journal, opened>>
process == <<left, child, pipe, swept, got>>
client == <<inbox, outbox, sent>>
vars == <<files, handles, process, client, pc, call, answer, trouble, answered>>

Null == 0
NoCall == [tool |-> "none"]
NoAnswer == [id |-> Null, says |-> "none"]

Init ==
  /\ disk = Contents
  /\ todo = Paths
  /\ found = {}
  /\ truncated = FALSE
  /\ docs = <<>>
  /\ nextId = 1
  /\ journal = <<>>
  /\ opened = <<>>
  /\ inbox = <<>>
  /\ outbox = <<>>
  /\ pc = "scanning"
  /\ call = NoCall
  /\ answer = NoAnswer
  /\ left = 0
  /\ child = "none"
  /\ pipe = 0
  /\ swept = 0
  /\ got = 0
  /\ trouble = 0
  /\ sent = <<>>
  /\ answered = <<>>

\* Something that can fail did.
Fails ==
  /\ trouble < MaxTrouble
  /\ trouble' = trouble + 1
-----------------------------------------------------------------------------
(* The workspace *)

\* Directories are listed in any order.  At the cap the largest path gives way.
\* Mutant: what comes first is kept.
KeepFirst(kept, path) == IF Cardinality(kept) < ScanCap THEN kept \cup {path} ELSE kept
Keep(kept, path) ==
  IF Cardinality(kept) < ScanCap THEN kept \cup {path}
  ELSE IF path < Max(kept) THEN (kept \ {Max(kept)}) \cup {path} ELSE kept

Visit ==
  /\ pc = "scanning"
  /\ \E path \in todo :
       /\ todo' = todo \ {path}
       /\ found' = Keep(found, path)
  /\ truncated' = (truncated \/ Cardinality(found) = ScanCap)
  /\ UNCHANGED <<disk, handles, process, client, pc, call, answer, trouble, answered>>

Scanned ==
  /\ pc = "scanning" /\ todo = {}
  /\ pc' = "idle"
  /\ UNCHANGED <<files, handles, process, client, call, answer, trouble, answered>>

ScanFails ==
  /\ pc = "scanning"
  /\ Fails
  /\ pc' = "failed"
  /\ UNCHANGED <<files, handles, process, client, call, answer, answered>>

\* The path of w1, w2, ...
Entry(i) == SetToSortSeq(found, <)[i]
-----------------------------------------------------------------------------
(* The client *)

Send ==
  /\ pc \notin {"ended", "failed"}
  /\ Len(sent) < Len(Calls) /\ Len(inbox) < PipeCap
  /\ \E line \in Calls[Len(sent) + 1] :
       /\ sent' = Append(sent, line)
       /\ inbox' = Append(inbox, [id |-> Len(sent) + 1, line |-> line])
  /\ UNCHANGED <<files, handles, process, outbox, pc, call, answer, trouble, answered>>

Receive ==
  /\ outbox # <<>>
  /\ outbox' = Tail(outbox)
  /\ UNCHANGED <<files, handles, process, inbox, sent, pc, call, answer, trouble, answered>>
-----------------------------------------------------------------------------
(* Lines and answers *)

\* The answer is written before the next line is read.
Answers(says) ==
  /\ answer' = [id |-> call.id, says |-> says]
  /\ pc' = "answering"

\* A notification has no id and no answer.
ReadLine ==
  /\ pc = "idle" /\ inbox # <<>>
  /\ inbox' = Tail(inbox)
  /\ IF Head(inbox).line.tool = "notice" THEN UNCHANGED <<pc, call>>
     ELSE pc' = "called" /\ call' = Head(inbox)
  /\ UNCHANGED <<files, handles, process, outbox, sent, answer, trouble, answered>>

Tool == call.line.tool
Doc == call.line.doc

\* A line that is no JSON object: it has no id to answer to.
Garbage ==
  /\ pc = "called" /\ Tool = "garbage"
  /\ answer' = [id |-> Null, says |-> "error"]
  /\ pc' = "answering"
  /\ UNCHANGED <<files, handles, process, client, call, trouble, answered>>

\* What reads and changes nothing: ping, lists, queries, the journal.
Query ==
  /\ pc = "called" /\ Tool = "query"
  /\ Answers(IF Doc \in DOMAIN docs \cup {Null} THEN "ok" ELSE "error")
  /\ UNCHANGED <<files, handles, process, client, call, trouble, answered>>

WriteAnswer ==
  /\ pc = "answering"
  /\ Len(outbox) < PipeCap
  /\ outbox' = Append(outbox, answer)
  /\ answered' = Append(answered, answer)
  /\ answer' = NoAnswer
  /\ call' = NoCall
  /\ pc' = "idle"
  /\ UNCHANGED <<files, handles, process, inbox, sent, trouble>>
-----------------------------------------------------------------------------
(* Handles *)

\* Mutant: a number is used again.
CountedId == Cardinality(DOMAIN docs) + 1
NewId == nextId

\* hwp_open names a path, hwp_ws_open an entry of the workspace.
Opens(path) ==
  IF path \in Paths /\ disk[path] # Broken
  THEN /\ docs' = [d \in DOMAIN docs \cup {NewId} |->
                    IF d = NewId THEN disk[path] ELSE docs[d]]
       /\ opened' = [d \in DOMAIN opened \cup {NewId} |->
                      IF d \in DOMAIN opened THEN opened[d] ELSE disk[path]]
       /\ nextId' = nextId + 1
       /\ UNCHANGED journal
       /\ Answers("ok")
  ELSE UNCHANGED handles /\ Answers("error")

Open ==
  /\ pc = "called"
  /\ \/ Tool = "open" /\ Opens(call.line.path)
     \/ /\ Tool = "ws_open"
        /\ Opens(IF call.line.entry \in 1 .. Cardinality(found)
                 THEN Entry(call.line.entry) ELSE Null)
  /\ UNCHANGED <<files, process, client, call, trouble, answered>>

Close ==
  /\ pc = "called" /\ Tool = "close"
  /\ docs' = [d \in DOMAIN docs \ {Doc} |-> docs[d]]
  /\ Answers(IF Doc \in DOMAIN docs THEN "ok" ELSE "error")
  /\ UNCHANGED <<files, nextId, journal, opened, process, client, call, trouble, answered>>
-----------------------------------------------------------------------------
(* Changes *)

\* journal_wrap: the digest before the tool and the one after it, whatever it
\* answers.  Mutant: only for a tool that succeeds.
JournalOk(after, says) ==
  journal' = IF says = "error" THEN journal
             ELSE Append(journal, [doc |-> Doc, before |-> docs[Doc], after |-> after, says |-> says])
Journal(after, says) ==
  journal' = Append(journal, [doc |-> Doc, before |-> docs[Doc], after |-> after, says |-> says])

Puts(after, says) ==
  /\ docs' = [docs EXCEPT ![Doc] = after]
  /\ Journal(after, says)
  /\ Answers(says)

\* The tool fails in the core and leaves what it has done so far.
CutShort(after) ==
  /\ Fails
  /\ Puts(after, "error")

\* A handle that is not open: no journal entry.
NotOpen ==
  /\ pc = "called" /\ Tool \in {"replace", "set_cell", "fill", "save"}
  /\ Doc \notin DOMAIN docs
  /\ Answers("error")
  /\ UNCHANGED <<files, handles, process, client, call, trouble, answered>>

Works(tool) ==
  /\ pc = "called" /\ Tool = tool
  /\ Doc \in DOMAIN docs
  /\ UNCHANGED <<nextId, opened, process, client, call, answered>>

\* Matches are replaced from the last to the first.
ReplacedFrom(k, text, find, to) ==
  [i \in DOMAIN text |-> IF i >= k /\ text[i] = find THEN to ELSE text[i]]
ReplaceText ==
  /\ Works("replace")
  /\ \/ /\ Puts(ReplacedFrom(1, docs[Doc], call.line.find, call.line.to), "ok")
        /\ UNCHANGED trouble
     \/ \E k \in 2 .. Len(docs[Doc]) + 1 :
          CutShort(ReplacedFrom(k, docs[Doc], call.line.find, call.line.to))
  /\ UNCHANGED files

\* What is wrong with the arguments is found before the cell is emptied.
SetCell ==
  LET cell == call.line.cell
  IN /\ Works("set_cell")
     /\ \/ /\ cell \notin DOMAIN docs[Doc]
           /\ Puts(docs[Doc], "error")
           /\ UNCHANGED trouble
        \/ /\ cell \in DOMAIN docs[Doc]
           /\ Puts([docs[Doc] EXCEPT ![cell] = call.line.text], "ok")
           /\ UNCHANGED trouble
        \/ /\ cell \in DOMAIN docs[Doc]
           /\ \E rest \in {docs[Doc][cell], Empty} :
                CutShort([docs[Doc] EXCEPT ![cell] = rest])
     /\ UNCHANGED files

\* All keys are looked up first; those that name nothing are reported.
Filled(text, keys, value) == [i \in DOMAIN text |-> IF i \in keys THEN value ELSE text[i]]
FillFields ==
  LET keys == call.line.keys \cap DOMAIN docs[Doc]
  IN /\ Works("fill")
     /\ \/ /\ Puts(Filled(docs[Doc], keys, call.line.text), "ok")
           /\ UNCHANGED trouble
        \/ \E done \in SUBSET keys : CutShort(Filled(docs[Doc], done, call.line.text))
     /\ UNCHANGED files

\* A snapshot: the handle stays as it is.  fs::write empties the file first.
Save ==
  /\ Works("save")
  /\ \/ /\ disk' = [disk EXCEPT ![call.line.path] = docs[Doc]]
        /\ Puts(docs[Doc], "ok")
        /\ UNCHANGED trouble
     \/ \E rest \in {disk[call.line.path], Broken} :
          /\ disk' = [disk EXCEPT ![call.line.path] = rest]
          /\ CutShort(docs[Doc])
  /\ UNCHANGED <<todo, found, truncated>>
-----------------------------------------------------------------------------
(* Children *)

\* A tool that takes paths needs one; others get no standard input.
Spawn ==
  /\ pc = "called" /\ Tool = "cli"
  /\ IF call.line.paths /\ call.line.lines = 0
     THEN Answers("error") /\ UNCHANGED process
     ELSE /\ left' = call.line.lines
          /\ child' = "reading"
          /\ swept' = IF call.line.lines = 0 THEN 1 ELSE call.line.lines
          /\ pc' = "feeding"
          /\ UNCHANGED <<pipe, got, answer>>
  /\ UNCHANGED <<files, handles, client, call, trouble, answered>>

\* write_all; a child that is gone breaks the pipe, which is ignored.
Feed ==
  /\ pc = "feeding" /\ left > 0
  /\ IF child = "exited" THEN left' = 0 /\ UNCHANGED pipe
     ELSE pipe < PipeCap /\ left' = left - 1 /\ pipe' = pipe + 1
  /\ UNCHANGED <<files, handles, client, child, swept, got, pc, call, answer, trouble, answered>>

\* The pipe is closed, then the output read to its end.
CloseStdin ==
  /\ pc = "feeding" /\ left = 0
  /\ pc' = "waiting"
  /\ UNCHANGED <<files, handles, client, process, call, answer, trouble, answered>>

\* The child reads its paths to the end before it opens the first (batch/mod.rs).
\* Mutant: it was given no standard input of its own and reads the server's.
ChildReadsOn ==
  /\ child = "reading"
  /\ \/ pipe > 0 /\ pipe' = pipe - 1 /\ UNCHANGED inbox
     \/ left = 0 /\ inbox # <<>> /\ inbox' = Tail(inbox) /\ UNCHANGED pipe
  /\ UNCHANGED <<files, handles, outbox, sent, left, child, swept, got, pc, call, answer, trouble, answered>>
ChildReads ==
  /\ child = "reading" /\ pipe > 0
  /\ pipe' = pipe - 1
  /\ UNCHANGED <<files, handles, client, left, child, swept, got, pc, call, answer, trouble, answered>>

\* Mutant: the server's end of the pipe stays open while it waits.
NullStdin == call.line.lines = 0
StdinClosed == call.line.lines = 0 \/ pc = "waiting"

ChildStarts ==
  /\ child = "reading" /\ pipe = 0 /\ StdinClosed
  /\ child' = "working"
  /\ UNCHANGED <<files, handles, client, left, pipe, swept, got, pc, call, answer, trouble, answered>>

ChildWrites ==
  /\ child = "working" /\ swept > 0 /\ pipe < PipeCap
  /\ swept' = swept - 1
  /\ pipe' = pipe + 1
  /\ UNCHANGED <<files, handles, client, left, child, got, pc, call, answer, trouble, answered>>

ChildEnds ==
  /\ child = "working" /\ swept = 0
  /\ child' = "exited"
  /\ UNCHANGED <<files, handles, client, left, pipe, swept, got, pc, call, answer, trouble, answered>>

\* A usage error, or a kill; what it has written can still be read.
ChildDies ==
  /\ child \in {"reading", "working"}
  /\ Fails
  /\ child' = "exited"
  /\ pipe' = IF child = "reading" THEN 0 ELSE pipe
  /\ UNCHANGED <<files, handles, client, left, swept, got, pc, call, answer, answered>>

\* wait_with_output.
Collect ==
  /\ pc = "waiting" /\ child \in {"working", "exited"} /\ pipe > 0
  /\ pipe' = pipe - 1
  /\ got' = got + 1
  /\ UNCHANGED <<files, handles, client, left, child, swept, pc, call, answer, trouble, answered>>

\* The output is complete when the child is gone and the pipe is empty.
OutputEnded == child = "exited" /\ pipe = 0

\* Any output makes the answer a success, whatever the exit code.
Reap ==
  /\ pc = "waiting" /\ OutputEnded
  /\ Answers(IF got = 0 THEN "error" ELSE "ok")
  /\ child' = "none"
  /\ swept' = 0
  /\ got' = 0
  /\ UNCHANGED <<files, handles, client, left, pipe, call, trouble, answered>>

\* The client has closed its end, and everything is read.
Hangup ==
  /\ pc = "idle" /\ inbox = <<>>
  /\ pc' = "ended"
  /\ UNCHANGED <<files, handles, process, client, call, answer, trouble, answered>>
-----------------------------------------------------------------------------
Scan == Visit \/ Scanned \/ ScanFails
Session == Open \/ Close \/ NotOpen \/ ReplaceText \/ SetCell \/ FillFields \/ Save
Server == Scan \/ ReadLine \/ Garbage \/ Query \/ WriteAnswer \/ Session
          \/ Spawn \/ Feed \/ CloseStdin \/ Collect \/ Reap
Child == ChildReads \/ ChildStarts \/ ChildWrites \/ ChildEnds

Next == Server \/ Child \/ ChildDies \/ Hangup \/ Send \/ Receive

Spec == Init /\ [][Next]_vars

\* The server and its child are processes that run; the client reads its answers.
FairSpec == Spec /\ WF_vars(Server) /\ WF_vars(Child) /\ WF_vars(Receive)
-----------------------------------------------------------------------------
\* Between two children nothing of the first is left in the pipe.
TypeOK ==
  /\ DOMAIN disk = Paths
  /\ todo \subseteq Paths /\ found \subseteq Paths
  /\ Cardinality(found) <= ScanCap
  /\ truncated \in BOOLEAN
  /\ DOMAIN docs \subseteq 1 .. nextId - 1
  /\ DOMAIN opened = 1 .. nextId - 1
  /\ Len(inbox) <= PipeCap /\ Len(outbox) <= PipeCap
  /\ pipe \in 0 .. PipeCap
  /\ trouble \in 0 .. MaxTrouble
  /\ pc \in {"scanning", "idle", "called", "feeding", "waiting", "answering", "ended", "failed"}
  /\ child \in {"none", "reading", "working", "exited"}
  /\ pc \notin {"feeding", "waiting"} =>
       child = "none" /\ left = 0 /\ pipe = 0 /\ swept = 0 /\ got = 0

Smallest == {p \in Paths : Cardinality({q \in Paths : q < p}) < ScanCap}

\* The same workspace gives the same w1, w2, ... whatever order its directories
\* are listed in: the smallest paths, up to the cap; what is left out is told
\* (mcp_serve.rs:108).
WorkspaceIds == pc \notin {"scanning", "failed"} =>
  /\ found = Smallest
  /\ truncated <=> found # Paths

\* What handle d held before entry k of the journal.
Held(d, k) ==
  LET earlier == {j \in 1 .. k - 1 : journal[j].doc = d}
  IN IF earlier = {} THEN opened[d] ELSE journal[Max(earlier)].after

\* The journal explains every document: the entries of a handle start from what
\* it was opened with, each from where the one before ended, and end with what it
\* holds; a call that answers an error has changed something only where the core
\* failed halfway (mcp_serve.rs:230).
JournalExplains ==
  /\ \A k \in DOMAIN journal : journal[k].before = Held(journal[k].doc, k)
  /\ \A d \in DOMAIN docs : docs[d] = Held(d, Len(journal) + 1)
  /\ Cardinality({k \in DOMAIN journal :
       journal[k].says = "error" /\ journal[k].before # journal[k].after}) <= trouble

Handled == Len(sent) - Len(inbox) - (IF call = NoCall THEN 0 ELSE 1)
Asked == {k \in 1 .. Handled : sent[k].tool # "notice"}
\* The place of the answer to line k.
Rank(k) == Cardinality({j \in Asked : j <= k})

\* Every line that wants an answer has exactly one, with its own id, in the order
\* of the lines; no line goes to a child (mcp_serve.rs:2508).
AnswersInOrder ==
  /\ Len(answered) = Cardinality(Asked)
  /\ \A k \in Asked : answered[Rank(k)].id = IF sent[k].tool = "garbage" THEN Null ELSE k

\* Every line is dealt with, however long its child's input and output are: no
\* two ends of a pipe wait for each other (mcp_serve.rs:2578).
EveryLineHandled == \A k \in DOMAIN Calls : Len(sent) >= k ~> Handled >= k \/ pc = "failed"
=============================================================================
