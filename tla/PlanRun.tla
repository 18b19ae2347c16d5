------------------------------- MODULE PlanRun -------------------------------
(***************************************************************************)
(* Processes that edit documents on one disk: `rhwp run` with a plan and    *)
(* `rhwp edit replace-text`.  A command that names the digest it expects of *)
(* its input takes the lock of that path, compares when it has read the     *)
(* input and once more before it writes; a command that names none takes no *)
(* lock.  Any of them can be killed, and a write can fail.                  *)
(*                                                                          *)
(* The digest of a file is its content.  A process runs one command.        *)
(***************************************************************************)
EXTENDS PlanSteps

CONSTANTS Procs, Paths,
          Disks,  \* the contents the disk may have at the beginning
          Jobs,   \* the commands: records [tool, input, output, cas, steps, dryRun, verify]
          Sessions, \* the possible choices of a command for each process
          Broken, \* a file cut short; it does not parse
          None,   \* no digest, or no document
          Free,   \* the holder of a lock nobody holds
          MaxTrouble \* bound on kills and errors

ASSUME PlanAssumption ==
  /\ Disks \subseteq [Paths -> UNION {{d[f] : f \in Paths} : d \in Disks}]
  /\ \A d \in Disks, f \in Paths : d[f] = Broken \/ IsDocument(d[f])
  /\ \A j \in Jobs :
       /\ IsPlan(j.steps)
       /\ j.tool \in {"run", "edit"}
       /\ j.input \in Paths /\ j.output \in Paths
       /\ {j.cas, j.dryRun, j.verify} \subseteq BOOLEAN
  /\ Sessions \subseteq [Procs -> Jobs]
  /\ Broken # None
  /\ Free \notin Procs
  /\ MaxTrouble \in Nat

VARIABLES
  disk,    \* per path: its content
  lock,    \* per path: the process that holds its lock, or Free
  pc,      \* per process: "new", "planned", "locked", "checked", "ready", "writing" or "ended"
  job,     \* per process: its command
  expect,  \* per process: the digest it expects of its input, or None
  read,    \* per process: the document it read
  edited,  \* per process: the document it is to write
  exit,    \* per process: its exit code, -1 before it ends and after a kill
  touched, \* ghost, per process: it has opened its output
  trouble, \* kills and errors so far
  written, \* ghost, per path: what successful commands read, replaced and wrote, in order
  wild     \* ghost: paths for which a command ran that does not expect what it replaces

vars == <<disk, lock, pc, job, expect, read, edited, exit, touched, trouble, written, wild>>

Init ==
  /\ disk \in Disks
  /\ lock = [f \in Paths |-> Free]
  /\ pc = [p \in Procs |-> "new"]
  /\ job \in Sessions
  /\ expect = [p \in Procs |-> None]
  /\ read = [p \in Procs |-> None]
  /\ edited = [p \in Procs |-> None]
  /\ exit = [p \in Procs |-> -1]
  /\ touched = [p \in Procs |-> FALSE]
  /\ trouble = 0
  /\ written = [f \in Paths |-> <<>>]
  /\ wild = {}

Becomes(p, state) == pc' = [pc EXCEPT ![p] = state]
Put(f, content) == disk' = [disk EXCEPT ![f] = content]

\* The lock goes with the process.  Mutant: only a command that succeeds frees it.
EndsLocked(p, code) ==
  /\ Becomes(p, "ended")
  /\ exit' = [exit EXCEPT ![p] = code]
  /\ lock' = [f \in Paths |-> IF lock[f] = p /\ code = 0 THEN Free ELSE lock[f]]
Ends(p, code) ==
  /\ Becomes(p, "ended")
  /\ exit' = [exit EXCEPT ![p] = code]
  /\ lock' = [f \in Paths |-> IF lock[f] = p THEN Free ELSE lock[f]]

Goes(p, state) ==
  /\ Becomes(p, state)
  /\ UNCHANGED <<exit, lock>>
-----------------------------------------------------------------------------
\* Whoever makes the plan looks at the input first.
MakePlan(p) ==
  /\ pc[p] = "new"
  /\ expect' = [expect EXCEPT ![p] = IF job[p].cas THEN disk[job[p].input] ELSE None]
  /\ wild' = IF job[p].cas /\ job[p].input = job[p].output THEN wild
             ELSE wild \cup {job[p].output}
  /\ Goes(p, "planned")
  /\ UNCHANGED <<disk, job, read, edited, touched, trouble, written>>

\* Without an expected digest there is no lock to take.  Mutant: the lock is
\* looked at, and not taken.
LockUntaken(p) ==
  /\ pc[p] = "planned"
  /\ job[p].cas => lock[job[p].input] = Free
  /\ Goes(p, "locked")
  /\ UNCHANGED <<disk, job, expect, read, edited, touched, trouble, written, wild>>
Lock(p) ==
  /\ pc[p] = "planned"
  /\ Becomes(p, "locked")
  /\ IF job[p].cas
     THEN /\ lock[job[p].input] = Free
          /\ lock' = [lock EXCEPT ![job[p].input] = p]
     ELSE UNCHANGED lock
  /\ UNCHANGED <<disk, job, expect, read, edited, exit, touched, trouble, written, wild>>

Unexpected(p) == job[p].cas /\ disk[job[p].input] # expect[p]

\* What the command does once it has the bytes, up to the writing: it reads
\* nothing else.  The outcomes of a step that fails in the core, and of a saved
\* document that differs when it is read back, are left open.
Outcomes(p, doc) ==
  LET j == job[p]
  IN IF doc = Broken THEN {"error"}
     ELSE IF j.tool = "run" /\ Invalid(j.steps, doc) # {} THEN {"invalid"}
     ELSE IF j.dryRun \/ (j.tool = "edit" /\ Places(j.steps[1], doc) = {}) THEN {"nothing"}
     ELSE {"go", "error"}

Read(p) ==
  LET doc == disk[job[p].input]
  IN /\ pc[p] = "locked"
     /\ IF Unexpected(p)
        THEN Ends(p, 3) /\ UNCHANGED <<read, edited>>
        ELSE /\ read' = [read EXCEPT ![p] = doc]
             /\ \/ /\ "invalid" \in Outcomes(p, doc)
                   /\ Ends(p, 2)
                   /\ UNCHANGED edited
                \/ /\ "nothing" \in Outcomes(p, doc)
                   /\ Ends(p, 0)
                   /\ UNCHANGED edited
                \/ /\ "error" \in Outcomes(p, doc)
                   /\ Ends(p, 1)
                   /\ UNCHANGED edited
                \/ /\ "go" \in Outcomes(p, doc)
                   /\ edited' = [edited EXCEPT ![p] = Executed(job[p].steps, doc)]
                   /\ Goes(p, "checked")
     /\ UNCHANGED <<disk, job, expect, touched, trouble, written, wild>>

\* A plan is verified before anything is written, and the input compared again.
Recheck(p) ==
  /\ pc[p] = "checked"
  /\ \/ /\ job[p].tool = "run" /\ job[p].verify
        /\ Ends(p, 3)
     \/ /\ Unexpected(p)
        /\ Ends(p, 3)
     \/ /\ ~Unexpected(p)
        /\ Goes(p, "ready")
  /\ UNCHANGED <<disk, job, expect, read, edited, touched, trouble, written, wild>>

\* fs::write empties the file and then fills it.
OpenOutput(p) ==
  /\ pc[p] = "ready"
  /\ written' = [written EXCEPT ![job[p].output] =
       Append(@, [by |-> p, from |-> read[p], over |-> disk[job[p].output], to |-> edited[p]])]
  /\ Put(job[p].output, Broken)
  /\ touched' = [touched EXCEPT ![p] = TRUE]
  /\ Goes(p, "writing")
  /\ UNCHANGED <<job, expect, read, edited, trouble, wild>>

\* replace-text verifies what it has already written.  Mutant: so does a plan.
LateVerification(p) == IF job[p].verify THEN {0, 3} ELSE {0}
ExitCodes(p) == IF job[p].tool = "edit" /\ job[p].verify THEN {0, 3} ELSE {0}

WriteOutput(p) ==
  /\ pc[p] = "writing"
  /\ Put(job[p].output, edited[p])
  /\ \E code \in ExitCodes(p) : Ends(p, code)
  /\ UNCHANGED <<job, expect, read, edited, touched, trouble, written, wild>>

OutputFails(p) ==
  /\ pc[p] \in {"ready", "writing"}
  /\ trouble < MaxTrouble
  /\ trouble' = trouble + 1
  /\ Ends(p, 1)
  /\ UNCHANGED <<disk, job, expect, read, edited, touched, written, wild>>

Killed(p) ==
  /\ pc[p] \notin {"new", "ended"}
  /\ trouble < MaxTrouble
  /\ trouble' = trouble + 1
  /\ Ends(p, -1)
  /\ UNCHANGED <<disk, job, expect, read, edited, touched, written, wild>>

Works(p) == Lock(p) \/ Read(p) \/ Recheck(p) \/ OpenOutput(p) \/ WriteOutput(p)

Next == \E p \in Procs : MakePlan(p) \/ Works(p) \/ OutputFails(p) \/ Killed(p)

Spec == Init /\ [][Next]_vars

\* A process that can go on does: only the lock makes it wait.
FairSpec == Spec /\ \A p \in Procs : WF_vars(Works(p))
-----------------------------------------------------------------------------
States == {"new", "planned", "locked", "checked", "ready", "writing", "ended"}

\* A lock is held by a command that runs, that expects a digest, and whose
\* input is the locked path.
TypeOK ==
  /\ DOMAIN disk = Paths
  /\ pc \in [Procs -> States]
  /\ job \in [Procs -> Jobs]
  /\ exit \in [Procs -> {-1, 0, 1, 2, 3}]
  /\ touched \in [Procs -> BOOLEAN]
  /\ trouble \in 0 .. MaxTrouble
  /\ wild \subseteq Paths
  /\ lock \in [Paths -> Procs \cup {Free}]
  /\ \A f \in Paths : lock[f] # Free =>
       /\ pc[lock[f]] \notin {"new", "planned", "ended"}
       /\ job[lock[f]].cas /\ job[lock[f]].input = f

\* No edit is lost: where every command expects a digest of the file it replaces
\* (#3905 M1, execution.rs:514), each write replaces exactly the document that was
\* planned for and that its edit was computed from, which is what the write before
\* it left there, and what the last successful one wrote is there still.
EachReplacesWhatItRead(f) == \A k \in DOMAIN written[f] :
  LET w == written[f][k]
  IN /\ w.from = w.over /\ w.over = expect[w.by]
     /\ k > 1 => w.from = written[f][k - 1].to
LastIsThere(f) == written[f] # <<>> =>
  LET last == written[f][Len(written[f])]
  IN exit[last.by] \in {0, 3} => disk[f] = last.to
NoEditLost == \A f \in Paths \ wild : EachReplacesWhatItRead(f) /\ LastIsThere(f)

\* A plan that is refused, a precondition that does not hold, a verification
\* that fails and a dry run leave the disk as it was, and so does a command whose
\* input or step fails (execution.rs:661, :674): after a failure the output has been
\* opened only if the disk failed.  A plan that exits 0 otherwise has written.
RefusedLeavesDisk == \A p \in Procs : pc[p] = "ended" =>
  /\ job[p].dryRun => ~touched[p]
  /\ job[p].tool = "run" /\ exit[p] \in {2, 3} => ~touched[p]
  /\ exit[p] = 1 /\ touched[p] => trouble > 0
  /\ job[p].tool = "run" /\ exit[p] = 0 /\ ~job[p].dryRun => touched[p]

\* A run does what its preview shows (execution.rs:645, condition.rs:10): a step that
\* the preview skips is skipped, and a step that no earlier one disturbs writes the
\* places it was judged for, and as many, over the same words.
RunsAsPreviewed == \A p \in Procs : job[p].tool = "run" /\ touched[p] =>
  LET steps == job[p].steps
      input == read[p]
      before == Trace(steps, input)
  IN \A k \in DOMAIN steps : k \in Skipped(steps, input) \/ Clear(steps, input, k) =>
       /\ Journal(steps, input)[k] = Preview(steps, input)[k]
       /\ k \notin Skipped(steps, input) =>
            Written(steps[k], before[k - 1]) = Written(steps[k], input)

\* Every command ends: whoever holds a lock frees it, also when it is killed.
CommandsEnd == \A p \in Procs : pc[p] = "planned" ~> pc[p] = "ended"
=============================================================================
