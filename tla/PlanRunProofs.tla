---------------------------- MODULE PlanRunProofs ----------------------------
(***************************************************************************)
(* Theorems about PlanRun, for any number of processes, paths, commands and *)
(* kills.                                                                   *)
(***************************************************************************)
EXTENDS PlanRun, FiniteSetTheorems, WellFoundedInduction, TLAPS

Running == {"locked", "checked", "ready", "writing"}

\* A command that expects a digest holds the lock of its input as long as it runs.
Holding == \A p \in Procs : pc[p] \in Running /\ job[p].cas => lock[job[p].input] = p

\* Before it ends a command has no exit code, and has touched its output only
\* while it writes.
Untouched == \A p \in Procs :
  /\ pc[p] # "ended" => exit[p] = -1
  /\ touched[p] => pc[p] \in {"writing", "ended"}
  /\ pc[p] = "writing" => touched[p]
  /\ pc[p] \in {"checked", "ready", "writing"} => ~job[p].dryRun

TypeInv == TypeOK /\ Holding /\ Untouched

\* Outside the wild paths a command writes where it reads.
Tame == \A p \in Procs : pc[p] # "new" /\ job[p].output \notin wild =>
  job[p].cas /\ job[p].input = job[p].output

\* What it read is what it expects, and parses; when it is ready to write, that is
\* still there.
ReadsExpected == \A p \in Procs :
  /\ pc[p] \in {"checked", "ready", "writing"} =>
       read[p] # Broken /\ (job[p].cas => read[p] = expect[p])
  /\ pc[p] = "ready" /\ job[p].output \notin wild => disk[job[p].output] = expect[p]

\* The last document written to a path is there, or is being written, or the
\* path has been broken since.
LastWritten(f) == written[f] # <<>> =>
  LET last == written[f][Len(written[f])]
  IN \/ pc[last.by] = "writing" /\ job[last.by].output = f /\ edited[last.by] = last.to
     \/ pc[last.by] = "ended" /\ disk[f] = last.to
     \/ pc[last.by] = "ended" /\ disk[f] = Broken /\ exit[last.by] \notin {0, 3}

\* Whoever is writing a path wrote to it last, and the file is cut short.
WritesLast == \A p \in Procs : pc[p] = "writing" /\ job[p].output \notin wild =>
  LET f == job[p].output
  IN disk[f] = Broken /\ written[f] # <<>> /\ written[f][Len(written[f])].by = p

Writers == \A f \in Paths : \A k \in DOMAIN written[f] :
  written[f][k].by \in Procs /\ pc[written[f][k].by] \notin {"new", "planned"}

EditInv ==
  /\ Tame
  /\ ReadsExpected
  /\ WritesLast
  /\ Writers
  /\ \A f \in Paths \ wild : EachReplacesWhatItRead(f) /\ LastWritten(f)

\* The history of a path is a sequence, the others are functions.
Shapes ==
  /\ DOMAIN disk = Paths /\ DOMAIN written = Paths
  /\ DOMAIN expect = Procs /\ DOMAIN read = Procs /\ DOMAIN edited = Procs
  /\ \A f \in Paths : \E S : written[f] \in Seq(S)
-----------------------------------------------------------------------------
(* Types, locks and exit codes.                                             *)

USE DEF Becomes, Goes, Put

LEMMA InitTypeInv == Init => TypeInv
  <1> SUFFICES ASSUME Init PROVE TypeInv
    OBVIOUS
  <1>1. TypeOK
    BY PlanAssumption DEF Init, TypeOK, States
  <1>2. Holding /\ Untouched
    BY DEF Init, Holding, Untouched, Running
  <1> QED BY <1>1, <1>2 DEF TypeInv

\* A step that changes the state of one process, and perhaps its exit code and
\* the lock of its input, keeps the invariant.
LockMoves(p, state) ==
  \/ state = "ended" /\ lock' = [f \in Paths |-> IF lock[f] = p THEN Free ELSE lock[f]]
  \/ state \in Running /\ pc[p] \in Running /\ lock' = lock
  \/ state = "planned" /\ pc[p] = "new" /\ lock' = lock
  \/ /\ state \in Running /\ pc[p] = "planned"
     /\ IF job[p].cas
        THEN /\ lock[job[p].input] = Free
             /\ lock' = [lock EXCEPT ![job[p].input] = p]
        ELSE lock' = lock

Moves(p, state, code) ==
  /\ pc[p] # "ended" /\ state \in States \ {"new"}
  /\ code \in {-1, 0, 1, 2, 3} /\ (state # "ended" => code = -1)
  /\ pc' = [pc EXCEPT ![p] = state]
  /\ exit' = [exit EXCEPT ![p] = code]
  /\ LockMoves(p, state)
  /\ DOMAIN disk' = Paths /\ job' = job
  /\ trouble' \in 0 .. MaxTrouble /\ wild' \subseteq Paths
  /\ touched' \in [Procs -> BOOLEAN]
  /\ \A q \in Procs \ {p} : touched'[q] = touched[q]
  /\ touched'[p] => state \in {"writing", "ended"}
  /\ state = "writing" => touched'[p]
  /\ state \in {"checked", "ready", "writing"} => ~job[p].dryRun

LEMMA TypeMoves ==
  ASSUME TypeInv, NEW p \in Procs, NEW state, NEW code, Moves(p, state, code)
  PROVE  TypeInv'
  <1> USE DEF TypeInv, Moves, LockMoves
  <1>1. /\ pc' \in [Procs -> States] /\ exit' \in [Procs -> {-1, 0, 1, 2, 3}]
        /\ pc'[p] = state /\ exit'[p] = code
        /\ \A q \in Procs \ {p} : pc'[q] = pc[q] /\ exit'[q] = exit[q]
    BY DEF TypeOK
  <1>2. lock' \in [Paths -> Procs \cup {Free}]
    BY PlanAssumption DEF TypeOK
  <1>3. ASSUME NEW f \in Paths, lock'[f] # Free
        PROVE  /\ pc'[lock'[f]] \notin {"new", "planned", "ended"}
               /\ job[lock'[f]].cas /\ job[lock'[f]].input = f
    <2>1. ASSUME lock[f] # Free, lock'[f] = lock[f]
          PROVE  /\ pc[lock[f]] \notin {"new", "planned", "ended"}
                 /\ job[lock[f]].cas /\ job[lock[f]].input = f
      BY <2>1 DEF TypeOK
    <2>2. CASE state = "ended"
      <3>1. lock[f] # p /\ lock'[f] = lock[f] /\ lock[f] \in Procs
        BY <1>3, <2>2 DEF TypeOK, Running
      <3> QED BY <1>1, <1>3, <2>1, <3>1
    <2>3. CASE state # "ended" /\ lock' = lock
      <3>1. lock[f] \in Procs /\ lock[f] # Free
        BY <1>3, <2>3 DEF TypeOK
      <3>2. CASE lock[f] # p
        BY <1>1, <2>1, <2>3, <3>1, <3>2
      <3>3. CASE lock[f] = p
        BY <1>1, <2>1, <2>3, <3>1, <3>3 DEF Running
      <3> QED BY <3>2, <3>3
    <2>4. CASE state \in Running /\ pc[p] = "planned" /\ job[p].cas
      <3>1. lock' = [lock EXCEPT ![job[p].input] = p] /\ job[p].input \in Paths
        BY <2>4, PlanAssumption DEF Running, TypeOK
      <3>2. CASE f = job[p].input
        BY <1>1, <2>4, <3>1, <3>2 DEF TypeOK, Running
      <3>3. CASE f # job[p].input
        <4>1. lock'[f] = lock[f] /\ lock[f] # Free /\ lock[f] \in Procs
          BY <1>3, <3>1, <3>3 DEF TypeOK
        <4>2. lock[f] # p
          BY <2>1, <2>4, <4>1
        <4> QED BY <1>1, <2>1, <4>1, <4>2
      <3> QED BY <3>2, <3>3
    <2> QED BY <2>2, <2>3, <2>4 DEF Running
  <1>4. Holding'
    BY <1>1, PlanAssumption DEF TypeOK, Holding, Running, States
  <1>5. Untouched'
    BY <1>1 DEF TypeOK, Untouched
  <1>6. TypeOK'
    BY <1>1, <1>2, <1>3 DEF TypeOK
  <1> QED BY <1>4, <1>5, <1>6

LEMMA TypeSteps == TypeInv /\ [Next]_vars => TypeInv'
  <1> SUFFICES ASSUME TypeInv, [Next]_vars PROVE TypeInv'
    OBVIOUS
  <1>a. TypeOK /\ Untouched
    BY DEF TypeInv
  <1>1. ASSUME NEW p \in Procs, MakePlan(p) PROVE TypeInv'
    <2>1. wild' \subseteq Paths /\ pc[p] = "new"
      BY <1>1, <1>a, PlanAssumption DEF MakePlan, TypeOK
    <2>2. exit' = [exit EXCEPT ![p] = -1]
      BY <1>1, <1>a, <2>1 DEF MakePlan, TypeOK, Untouched
    <2>3. Moves(p, "planned", -1)
      BY <1>1, <1>a, <2>1, <2>2 DEF MakePlan, TypeOK, Untouched, Moves, LockMoves, States
    <2> QED BY <2>3, TypeMoves
  <1>2. ASSUME NEW p \in Procs, Lock(p) PROVE TypeInv'
    <2>1. exit' = [exit EXCEPT ![p] = -1]
      BY <1>2, <1>a DEF Lock, TypeOK, Untouched
    <2>2. Moves(p, "locked", -1)
      BY <1>2, <1>a, <2>1 DEF Lock, TypeOK, Untouched, Moves, LockMoves, States, Running
    <2> QED BY <2>2, TypeMoves
  <1>3. ASSUME NEW p \in Procs, NEW code \in {-1, 0, 1, 2, 3}, Ends(p, code),
               pc[p] \notin {"new", "ended"}, DOMAIN disk' = Paths,
               trouble' \in 0 .. MaxTrouble, job' = job, touched' = touched, wild' = wild
        PROVE  TypeInv'
    <2>1. Moves(p, "ended", code)
      BY <1>3, <1>a DEF Ends, TypeOK, Untouched, Moves, LockMoves, States
    <2> QED BY <2>1, TypeMoves
  <1>4. ASSUME NEW p \in Procs, NEW state \in {"checked", "ready"}, Goes(p, state),
               pc[p] \in Running, ~job[p].dryRun, touched' = touched, ~touched[p],
               disk' = disk, trouble' = trouble, job' = job, wild' = wild
        PROVE  TypeInv'
    <2>1. exit' = [exit EXCEPT ![p] = -1]
      BY <1>4, <1>a DEF Goes, Running, TypeOK, Untouched
    <2>2. Moves(p, state, -1)
      BY <1>4, <1>a, <2>1 DEF Goes, TypeOK, Untouched, Moves, LockMoves, States, Running
    <2> QED BY <2>2, TypeMoves
  <1>5. ASSUME NEW p \in Procs, Read(p) PROVE TypeInv'
    <2>1. ASSUME NEW code \in {0, 1, 2, 3}, Ends(p, code) PROVE TypeInv'
      <3>1. /\ pc[p] \notin {"new", "ended"} /\ DOMAIN disk' = Paths
            /\ trouble' \in 0 .. MaxTrouble /\ job' = job /\ touched' = touched /\ wild' = wild
        BY <1>5, <1>a DEF Read, TypeOK
      <3> QED BY <1>3, <2>1, <3>1
    <2>2. CASE "go" \in Outcomes(p, disk[job[p].input]) /\ Goes(p, "checked")
      <3>1. ~job[p].dryRun
        BY <2>2 DEF Outcomes
      <3> QED BY <1>4, <1>5, <1>a, <2>2, <3>1 DEF Read, TypeOK, Untouched, Running
    <2>3. (\E code \in {0, 1, 2, 3} : Ends(p, code))
          \/ ("go" \in Outcomes(p, disk[job[p].input]) /\ Goes(p, "checked"))
      BY <1>5 DEF Read
    <2> QED BY <2>1, <2>2, <2>3
  <1>6. ASSUME NEW p \in Procs, Recheck(p) PROVE TypeInv'
    <2>1. CASE Ends(p, 3)
      BY <1>3, <1>6, <1>a, <2>1 DEF Recheck, TypeOK
    <2>2. CASE Goes(p, "ready")
      BY <1>4, <1>6, <1>a, <2>2 DEF Recheck, TypeOK, Untouched, Running
    <2> QED BY <1>6, <2>1, <2>2 DEF Recheck
  <1>7. ASSUME NEW p \in Procs, OpenOutput(p) PROVE TypeInv'
    <2>1. exit' = [exit EXCEPT ![p] = -1] /\ DOMAIN disk' = Paths
      BY <1>7, <1>a DEF OpenOutput, TypeOK, Untouched
    <2>2. Moves(p, "writing", -1)
      BY <1>7, <1>a, <2>1 DEF OpenOutput, TypeOK, Untouched, Moves, LockMoves, States, Running
    <2> QED BY <2>2, TypeMoves
  <1>8. ASSUME NEW p \in Procs, WriteOutput(p) PROVE TypeInv'
    <2>1. PICK code \in {0, 3} : Ends(p, code)
      BY <1>8 DEF WriteOutput, ExitCodes
    <2>2. /\ pc[p] \notin {"new", "ended"} /\ DOMAIN disk' = Paths
          /\ trouble' \in 0 .. MaxTrouble /\ job' = job /\ touched' = touched /\ wild' = wild
      BY <1>8, <1>a DEF WriteOutput, TypeOK
    <2> QED BY <1>3, <2>1, <2>2
  <1>9. ASSUME NEW p \in Procs, OutputFails(p) \/ Killed(p) PROVE TypeInv'
    <2>1. trouble' \in 0 .. MaxTrouble
      BY <1>9, <1>a, PlanAssumption DEF OutputFails, Killed, TypeOK
    <2> QED BY <1>3, <1>9, <1>a, <2>1 DEF OutputFails, Killed, TypeOK
  <1>10. CASE UNCHANGED vars
    BY <1>10 DEF vars, TypeInv, TypeOK, Holding, Untouched
  <1> QED BY <1>1, <1>2, <1>5, <1>6, <1>7, <1>8, <1>9, <1>10 DEF Next, Works

\* Every command, whatever ends it, leaves types, locks and exit codes in order
\* (integrity.rs:23).
THEOREM TypeCorrect == Spec => []TypeOK
  <1>1. Spec => []TypeInv
    BY InitTypeInv, TypeSteps, PTL DEF Spec
  <1> QED BY <1>1, PTL DEF TypeInv
-----------------------------------------------------------------------------
(* Refused commands.                                                        *)

\* A plan that is refused, previewed, or fails its verification leaves the disk
\* alone, and one that succeeds has written (execution.rs:661).
THEOREM RefusalsLeaveDisk == Spec => []RefusedLeavesDisk
  <1>1. Init => RefusedLeavesDisk
    BY DEF Init, RefusedLeavesDisk
  <1>2. TypeInv /\ RefusedLeavesDisk /\ [Next]_vars => RefusedLeavesDisk'
    <2> SUFFICES ASSUME TypeInv, RefusedLeavesDisk, [Next]_vars,
                        NEW p \in Procs, pc'[p] = "ended"
                 PROVE  /\ job'[p].dryRun => ~touched'[p]
                        /\ job'[p].tool = "run" /\ exit'[p] \in {2, 3} => ~touched'[p]
                        /\ exit'[p] = 1 /\ touched'[p] => trouble' > 0
                        /\ job'[p].tool = "run" /\ exit'[p] = 0 /\ ~job'[p].dryRun => touched'[p]
      BY DEF RefusedLeavesDisk
    <2> USE DEF TypeInv
    <2>1. CASE UNCHANGED vars
      BY <2>1 DEF vars, RefusedLeavesDisk
    <2>2. ASSUME NEW q \in Procs, q # p, MakePlan(q) \/ Works(q) \/ OutputFails(q) \/ Killed(q)
          PROVE  /\ pc'[p] = pc[p] /\ job' = job
                 /\ exit'[p] = exit[p] /\ touched'[p] = touched[p]
      BY <2>2 DEF MakePlan, Works, Lock, Read, Recheck, OpenOutput, WriteOutput,
                  OutputFails, Killed, Ends, TypeOK
    <2>3. CASE MakePlan(p) \/ Lock(p) \/ OpenOutput(p)
      BY <2>3 DEF MakePlan, Lock, OpenOutput, TypeOK
    <2>4. CASE Read(p)
      <3>1. job[p].tool = "run" /\ ~job[p].dryRun => "nothing" \notin Outcomes(p, disk[job[p].input])
        BY DEF Outcomes
      <3> QED BY <2>4, <3>1 DEF Read, Ends, TypeOK, Untouched
    <2>5. CASE Recheck(p)
      BY <2>5 DEF Recheck, Ends, TypeOK, Untouched
    <2>6. CASE WriteOutput(p)
      <3>1. ExitCodes(p) \subseteq {0, 3} /\ (job[p].tool = "run" => ExitCodes(p) = {0})
        BY DEF ExitCodes
      <3> QED BY <2>6, <3>1 DEF WriteOutput, Ends, TypeOK, Untouched
    <2>7. CASE OutputFails(p) \/ Killed(p)
      <3>1. trouble \in Nat /\ trouble' = trouble + 1
        BY <2>7, PlanAssumption DEF OutputFails, Killed, TypeOK
      <3>2. trouble' > 0
        BY <3>1
      <3> QED BY <2>7, <3>2 DEF OutputFails, Killed, Ends, TypeOK, Untouched
    <2>8. ASSUME NEW q \in Procs, q # p, MakePlan(q) \/ Works(q) \/ OutputFails(q) \/ Killed(q)
          PROVE  /\ job'[p].dryRun => ~touched'[p]
                 /\ job'[p].tool = "run" /\ exit'[p] \in {2, 3} => ~touched'[p]
                 /\ exit'[p] = 1 /\ touched'[p] => trouble' > 0
                 /\ job'[p].tool = "run" /\ exit'[p] = 0 /\ ~job'[p].dryRun => touched'[p]
      <3>1. trouble > 0 => trouble' > 0
        <4>1. trouble' = trouble \/ trouble' = trouble + 1
          BY <2>8 DEF MakePlan, Works, Lock, Read, Recheck, OpenOutput, WriteOutput,
                      OutputFails, Killed
        <4>2. trouble \in Nat
          BY PlanAssumption DEF TypeOK
        <4> QED BY <4>1, <4>2
      <3> QED BY <2>2, <2>8, <3>1 DEF RefusedLeavesDisk
    <2> QED BY <2>1, <2>3, <2>4, <2>5, <2>6, <2>7, <2>8 DEF Next, Works
  <1>3. Spec => []TypeInv
    BY InitTypeInv, TypeSteps, PTL DEF Spec
  <1> QED BY <1>1, <1>2, <1>3, PTL DEF Spec
-----------------------------------------------------------------------------
(* Edits.                                                                   *)

LEMMA SeqGrows ==
  ASSUME NEW S, NEW s \in Seq(S), NEW e
  PROVE  /\ Append(s, e) \in Seq(S \cup {e})
         /\ Len(Append(s, e)) = Len(s) + 1
         /\ Len(s) \in Nat
         /\ Append(s, e)[Len(s) + 1] = e
         /\ \A k \in 1 .. Len(s) : Append(s, e)[k] = s[k]
         /\ DOMAIN Append(s, e) = 1 .. Len(s) + 1 /\ DOMAIN s = 1 .. Len(s)
  <1>1. s \in Seq(S \cup {e}) /\ e \in S \cup {e}
    OBVIOUS
  <1> QED BY <1>1

\* The parts of a step that leaves the histories alone.
LEMMA ShapeSteps == Shapes /\ TypeInv /\ [Next]_vars => Shapes'
  <1> SUFFICES ASSUME Shapes, TypeInv, [Next]_vars PROVE Shapes'
    OBVIOUS
  <1>1. /\ DOMAIN disk' = Paths
        /\ DOMAIN expect' = Procs /\ DOMAIN read' = Procs /\ DOMAIN edited' = Procs
    BY DEF Shapes, Next, Works, vars, MakePlan, Lock, Read, Recheck, OpenOutput,
           WriteOutput, OutputFails, Killed
  <1>2. CASE written' = written
    BY <1>1, <1>2 DEF Shapes
  <1>3. ASSUME NEW p \in Procs, OpenOutput(p) PROVE Shapes'
    <2>1. DOMAIN written' = Paths
      BY <1>3 DEF OpenOutput, Shapes
    <2>2. ASSUME NEW f \in Paths PROVE \E S : written'[f] \in Seq(S)
      <3>1. PICK S : written[f] \in Seq(S)
        BY DEF Shapes
      <3>2. CASE f # job[p].output
        BY <1>3, <3>1, <3>2 DEF OpenOutput, Shapes
      <3>3. CASE f = job[p].output
        <4>1. PICK e : written'[f] = Append(written[f], e)
          BY <1>3, <3>3 DEF OpenOutput, Shapes
        <4>2. Append(written[f], e) \in Seq(S \cup {e})
          BY <3>1, SeqGrows
        <4> QED BY <4>1, <4>2
      <3> QED BY <3>2, <3>3
    <2> QED BY <1>1, <2>1, <2>2 DEF Shapes
  <1>4. written' = written \/ \E p \in Procs : OpenOutput(p)
    BY DEF Next, Works, vars, MakePlan, Lock, Read, Recheck, WriteOutput, OutputFails, Killed
  <1> QED BY <1>2, <1>3, <1>4

LEMMA InitEditInv == Init => Shapes /\ EditInv
  <1> SUFFICES ASSUME Init PROVE Shapes /\ EditInv
    OBVIOUS
  <1>1. Shapes
    <2>1. \A f \in Paths : written[f] \in Seq({})
      BY DEF Init
    <2> QED BY <2>1, PlanAssumption DEF Init, Shapes
  <1>2. \A f \in Paths : written[f] = <<>>
    BY DEF Init
  <1>3. \A f \in Paths : EachReplacesWhatItRead(f) /\ LastWritten(f)
    BY <1>2 DEF EachReplacesWhatItRead, LastWritten
  <1>4. Tame /\ ReadsExpected /\ WritesLast
    BY DEF Init, Tame, ReadsExpected, WritesLast
  <1>5. Writers
    BY <1>2 DEF Writers
  <1> QED BY <1>1, <1>3, <1>4, <1>5 DEF EditInv

LEMMA TameSteps == TypeInv /\ Tame /\ [Next]_vars => Tame'
  <1> SUFFICES ASSUME TypeInv, Tame, [Next]_vars PROVE Tame'
    OBVIOUS
  <1> USE DEF TypeInv
  <1>1. ASSUME NEW p \in Procs, MakePlan(p) PROVE Tame'
    BY <1>1, PlanAssumption DEF MakePlan, Tame, TypeOK
  <1>2. CASE wild' = wild /\ job' = job /\ \A q \in Procs : pc[q] = "new" => pc'[q] = "new"
    BY <1>2 DEF Tame
  <1>3. ASSUME NEW p \in Procs, Works(p) \/ OutputFails(p) \/ Killed(p)
        PROVE  wild' = wild /\ job' = job /\ \A q \in Procs : pc[q] = "new" => pc'[q] = "new"
    <2>1. pc[p] # "new" /\ wild' = wild /\ job' = job
      BY <1>3 DEF Works, Lock, Read, Recheck, OpenOutput, WriteOutput, OutputFails, Killed
    <2>2. \E state : pc' = [pc EXCEPT ![p] = state]
      BY <1>3 DEF Works, Lock, Read, Recheck, OpenOutput, WriteOutput, OutputFails, Killed, Ends
    <2> QED BY <2>1, <2>2 DEF TypeOK
  <1>4. CASE UNCHANGED vars
    BY <1>4 DEF vars, Tame
  <1> QED BY <1>1, <1>2, <1>3, <1>4 DEF Next

\* Two commands do not write one tame path at a time.
LEMMA Exclusive ==
  ASSUME TypeInv, Tame, NEW p \in Procs, NEW q \in Procs,
         pc[p] \in Running, pc[q] \in Running,
         job[p].output = job[q].output, job[p].output \notin wild
  PROVE  p = q
  BY DEF TypeInv, Tame, Holding, Running

LEMMA ReadSteps == TypeInv /\ Shapes /\ Tame /\ ReadsExpected /\ [Next]_vars => ReadsExpected'
  <1> SUFFICES ASSUME TypeInv, Shapes, Tame, ReadsExpected, [Next]_vars,
                      NEW q \in Procs
               PROVE  /\ pc'[q] \in {"checked", "ready", "writing"} =>
                           read'[q] # Broken /\ (job'[q].cas => read'[q] = expect'[q])
                      /\ pc'[q] = "ready" /\ job'[q].output \notin wild' =>
                           disk'[job'[q].output] = expect'[q]
    BY DEF ReadsExpected
  <1>a. TypeOK
    BY DEF TypeInv
  <1>1. CASE UNCHANGED vars
    BY <1>1 DEF vars, ReadsExpected
  <1>2. ASSUME NEW p \in Procs, p # q, MakePlan(p) \/ Works(p) \/ OutputFails(p) \/ Killed(p),
               disk' = disk
        PROVE  /\ pc'[q] = pc[q] /\ job' = job /\ wild \subseteq wild'
               /\ read'[q] = read[q] /\ expect'[q] = expect[q]
    <2>1. CASE MakePlan(p) \/ Lock(p) \/ Recheck(p)
      BY <1>2, <1>a, <2>1 DEF MakePlan, Lock, Recheck, Ends, TypeOK, Shapes
    <2>2. CASE Read(p)
      BY <1>2, <1>a, <2>2 DEF Read, Ends, TypeOK, Shapes
    <2>3. CASE OpenOutput(p) \/ WriteOutput(p) \/ OutputFails(p) \/ Killed(p)
      BY <1>2, <1>a, <2>3 DEF OpenOutput, WriteOutput, OutputFails, Killed, Ends, TypeOK
    <2> QED BY <1>2, <2>1, <2>2, <2>3 DEF Works
  <1>3. ASSUME NEW p \in Procs, p # q, OpenOutput(p) \/ WriteOutput(p)
        PROVE  /\ pc'[q] = pc[q] /\ job' = job /\ wild' = wild
               /\ read' = read /\ expect' = expect
               /\ pc'[q] = "ready" /\ job[q].output \notin wild =>
                    disk'[job[q].output] = disk[job[q].output]
    <2>1. /\ pc'[q] = pc[q] /\ job' = job /\ wild' = wild
          /\ read' = read /\ expect' = expect /\ pc[p] \in Running
          /\ \E doc : disk' = [disk EXCEPT ![job[p].output] = doc]
      BY <1>3, <1>a DEF OpenOutput, WriteOutput, Ends, TypeOK, Running
    <2>2. pc[q] = "ready" /\ job[q].output \notin wild => job[q].output # job[p].output
      BY <1>3, <2>1, Exclusive DEF Running
    <2> QED BY <2>1, <2>2
  <1>4. CASE MakePlan(q) \/ Lock(q) \/ OpenOutput(q) \/ WriteOutput(q) \/ OutputFails(q) \/ Killed(q)
    BY <1>4, <1>a DEF MakePlan, Lock, OpenOutput, WriteOutput, OutputFails, Killed, Ends,
              TypeOK, ReadsExpected
  <1>5. CASE Read(q)
    <2>1. pc'[q] = "ended" \/ (pc'[q] = "checked" /\ "go" \in Outcomes(q, disk[job[q].input])
            /\ ~Unexpected(q) /\ read' = [read EXCEPT ![q] = disk[job[q].input]])
      BY <1>5, <1>a DEF Read, Ends, TypeOK
    <2>2. "go" \in Outcomes(q, disk[job[q].input]) => disk[job[q].input] # Broken
      BY DEF Outcomes
    <2> QED BY <1>5, <2>1, <2>2 DEF Read, Unexpected, Shapes
  <1>6. CASE Recheck(q)
    <2>1. pc[q] = "checked" /\ (pc'[q] = "ended" \/ (pc'[q] = "ready" /\ ~Unexpected(q)))
      BY <1>6, <1>a DEF Recheck, Ends, TypeOK
    <2>2. job[q].output \notin wild => job[q].cas /\ job[q].input = job[q].output
      BY <2>1 DEF Tame
    <2> QED BY <1>6, <2>1, <2>2 DEF Recheck, Unexpected, ReadsExpected
  <1> QED
    <2>1. ASSUME NEW p \in Procs, p # q, MakePlan(p) \/ Lock(p) \/ Read(p) \/ Recheck(p) \/ OutputFails(p) \/ Killed(p)
          PROVE  disk' = disk /\ (MakePlan(p) \/ Works(p) \/ OutputFails(p) \/ Killed(p))
      BY <2>1 DEF MakePlan, Works, Lock, Read, Recheck, OutputFails, Killed
    <2> QED BY <1>1, <1>2, <1>3, <1>4, <1>5, <1>6, <2>1 DEF Next, Works, ReadsExpected

\* What a step does to the processes and the histories it is not about.
LEMMA Others ==
  ASSUME TypeInv, Shapes, NEW p \in Procs, NEW q \in Procs, q # p,
         MakePlan(p) \/ Works(p) \/ OutputFails(p) \/ Killed(p)
  PROVE  /\ pc'[q] = pc[q] /\ job' = job /\ wild \subseteq wild'
         /\ exit'[q] = exit[q] /\ edited'[q] = edited[q] /\ expect'[q] = expect[q]
  <1> USE DEF TypeInv, TypeOK, Shapes
  <1>1. CASE MakePlan(p) \/ Lock(p) \/ Recheck(p)
    BY <1>1 DEF MakePlan, Lock, Recheck, Ends
  <1>2. CASE Read(p)
    BY <1>2 DEF Read, Ends
  <1>3. CASE OpenOutput(p) \/ WriteOutput(p) \/ OutputFails(p) \/ Killed(p)
    BY <1>3 DEF OpenOutput, WriteOutput, OutputFails, Killed, Ends
  <1> QED BY <1>1, <1>2, <1>3 DEF Works

\* The history of a path after its output is opened.
LEMMA Opened ==
  ASSUME Shapes, NEW p \in Procs, OpenOutput(p), NEW f \in Paths, f = job[p].output
  PROVE  /\ Len(written[f]) \in Nat /\ DOMAIN written[f] = 1 .. Len(written[f])
         /\ Len(written'[f]) = Len(written[f]) + 1
         /\ DOMAIN written'[f] = 1 .. Len(written[f]) + 1
         /\ \A k \in 1 .. Len(written[f]) : written'[f][k] = written[f][k]
         /\ written'[f][Len(written[f]) + 1] =
              [by |-> p, from |-> read[p], over |-> disk[f], to |-> edited[p]]
         /\ \A g \in Paths : g # f => written'[g] = written[g]
  <1>1. PICK S : written[f] \in Seq(S)
    BY DEF Shapes
  <1> DEFINE e == [by |-> p, from |-> read[p], over |-> disk[f], to |-> edited[p]]
  <1>2. /\ written'[f] = Append(written[f], e)
        /\ \A g \in Paths : g # f => written'[g] = written[g]
    BY DEF OpenOutput, Shapes
  <1> HIDE DEF e
  <1>3. /\ Len(Append(written[f], e)) = Len(written[f]) + 1
        /\ Len(written[f]) \in Nat
        /\ Append(written[f], e)[Len(written[f]) + 1] = e
        /\ \A k \in 1 .. Len(written[f]) : Append(written[f], e)[k] = written[f][k]
        /\ DOMAIN Append(written[f], e) = 1 .. Len(written[f]) + 1
        /\ DOMAIN written[f] = 1 .. Len(written[f])
    BY <1>1, SeqGrows
  <1> QED BY <1>2, <1>3 DEF e

\* The same for a path whose history stays.
LEMMA Length ==
  ASSUME Shapes, NEW f \in Paths
  PROVE  /\ Len(written[f]) \in Nat /\ DOMAIN written[f] = 1 .. Len(written[f])
         /\ written[f] # <<>> <=> Len(written[f]) > 0
  <1>1. PICK S : written[f] \in Seq(S)
    BY DEF Shapes
  <1> QED BY <1>1

LEMMA Quiet ==
  ASSUME [Next]_vars
  PROVE  written' = written \/ \E p \in Procs : OpenOutput(p)
  BY DEF Next, Works, vars, MakePlan, Lock, Read, Recheck, WriteOutput, OutputFails, Killed

LEMMA WriterSteps == TypeInv /\ Shapes /\ Writers /\ [Next]_vars => Writers'
  <1> SUFFICES ASSUME TypeInv, Shapes, Writers, [Next]_vars PROVE Writers'
    OBVIOUS
  <1>1. ASSUME NEW q \in Procs, pc[q] \notin {"new", "planned"}
        PROVE  pc'[q] \notin {"new", "planned"}
    <2>1. ASSUME NEW p \in Procs, p # q, MakePlan(p) \/ Works(p) \/ OutputFails(p) \/ Killed(p)
          PROVE  pc'[q] = pc[q]
      BY <2>1, Others
    <2>2. CASE MakePlan(q) \/ Lock(q) \/ Recheck(q) \/ OpenOutput(q)
      BY <1>1, <2>2 DEF MakePlan, Lock, Recheck, OpenOutput, Ends, TypeInv, TypeOK
    <2>3. CASE Read(q) \/ WriteOutput(q) \/ OutputFails(q) \/ Killed(q)
      BY <1>1, <2>3 DEF Read, WriteOutput, OutputFails, Killed, Ends, TypeInv, TypeOK
    <2>4. CASE UNCHANGED vars
      BY <1>1, <2>4 DEF vars
    <2> QED BY <1>1, <2>1, <2>2, <2>3, <2>4 DEF Next, Works
  <1>2. CASE written' = written
    BY <1>1, <1>2 DEF Writers
  <1>3. ASSUME NEW p \in Procs, OpenOutput(p) PROVE Writers'
    <2>1. job[p].output \in Paths /\ pc[p] = "ready"
      BY <1>3, PlanAssumption DEF OpenOutput, TypeInv, TypeOK
    <2>2. pc'[p] \notin {"new", "planned"}
      BY <1>1, <2>1
    <2>o. PICK o \in Paths : o = job[p].output
      BY <2>1
    <2>4. /\ DOMAIN written[o] = 1 .. Len(written[o]) /\ Len(written[o]) \in Nat
          /\ DOMAIN written'[o] = 1 .. Len(written[o]) + 1
          /\ \A k \in 1 .. Len(written[o]) : written'[o][k] = written[o][k]
          /\ written'[o][Len(written[o]) + 1].by = p
          /\ \A g \in Paths : g # o => written'[g] = written[g]
      <3>1. written'[o][Len(written[o]) + 1] =
              [by |-> p, from |-> read[p], over |-> disk[o], to |-> edited[p]]
        BY <1>3, <2>o, Opened
      <3>2. written'[o][Len(written[o]) + 1].by = p
        BY <3>1
      <3>3. /\ DOMAIN written[o] = 1 .. Len(written[o]) /\ Len(written[o]) \in Nat
            /\ DOMAIN written'[o] = 1 .. Len(written[o]) + 1
            /\ \A k \in 1 .. Len(written[o]) : written'[o][k] = written[o][k]
            /\ \A g \in Paths : g # o => written'[g] = written[g]
        BY <1>3, <2>o, Opened
      <3> QED BY <3>2, <3>3
    <2>3. ASSUME NEW f \in Paths, NEW k \in DOMAIN written'[f]
          PROVE  written'[f][k].by \in Procs /\ pc'[written'[f][k].by] \notin {"new", "planned"}
      <3>1. CASE f # o
        BY <1>1, <2>3, <2>4, <3>1 DEF Writers
      <3>2. CASE f = o /\ k = Len(written[f]) + 1
        BY <2>2, <2>4, <3>2
      <3>3. CASE f = o /\ k # Len(written[f]) + 1
        <4>1. k \in DOMAIN written[f] /\ written'[f][k] = written[f][k]
          BY <2>3, <2>4, <3>3
        <4> QED BY <1>1, <4>1 DEF Writers
      <3> QED BY <3>1, <3>2, <3>3
    <2> QED BY <2>3 DEF Writers
  <1> QED BY <1>2, <1>3, Quiet

\* Nobody else touches the tame output of a command that runs.
LEMMA Foreign ==
  ASSUME TypeInv, Shapes, Tame, NEW p \in Procs, NEW q \in Procs, p # q,
         MakePlan(p) \/ Works(p) \/ OutputFails(p) \/ Killed(p),
         NEW f \in Paths, pc[q] \in Running, job[q].output = f, f \notin wild
  PROVE  disk'[f] = disk[f] /\ written'[f] = written[f]
  <1>1. CASE OpenOutput(p) \/ WriteOutput(p)
    <2>1. pc[p] \in Running
      BY <1>1 DEF OpenOutput, WriteOutput, Running
    <2>2. job[p].output # f
      BY <2>1, Exclusive
    <2> QED BY <1>1, <2>2 DEF OpenOutput, WriteOutput, Shapes
  <1>2. CASE ~(OpenOutput(p) \/ WriteOutput(p))
    BY <1>2 DEF MakePlan, Works, Lock, Read, Recheck, OutputFails, Killed
  <1> QED BY <1>1, <1>2

LEMMA WriteSteps == TypeInv /\ Shapes /\ Tame /\ WritesLast /\ [Next]_vars => WritesLast'
  <1> SUFFICES ASSUME TypeInv, Shapes, Tame, WritesLast, [Next]_vars,
                      NEW q \in Procs, pc'[q] = "writing", job'[q].output \notin wild'
               PROVE  /\ disk'[job'[q].output] = Broken
                      /\ written'[job'[q].output] # <<>>
                      /\ written'[job'[q].output][Len(written'[job'[q].output])].by = q
    BY DEF WritesLast
  <1>a. TypeOK
    BY DEF TypeInv
  <1>o. PICK f \in Paths : f = job[q].output
    BY <1>a, PlanAssumption DEF TypeOK
  <1>1. CASE UNCHANGED vars
    BY <1>1 DEF vars, WritesLast
  <1>2. ASSUME NEW p \in Procs, p # q, MakePlan(p) \/ Works(p) \/ OutputFails(p) \/ Killed(p)
        PROVE  /\ disk'[f] = Broken /\ job' = job
               /\ written'[f] # <<>> /\ written'[f][Len(written'[f])].by = q
    <2>1. pc[q] = "writing" /\ job' = job /\ f \notin wild
      BY <1>2, <1>o, Others
    <2>2. disk'[f] = disk[f] /\ written'[f] = written[f]
      BY <1>2, <1>o, <2>1, Foreign DEF Running
    <2> QED BY <1>o, <2>1, <2>2 DEF WritesLast
  <1>3. CASE OpenOutput(q)
    <2>1. /\ Len(written[f]) \in Nat /\ Len(written'[f]) = Len(written[f]) + 1
          /\ DOMAIN written'[f] = 1 .. Len(written[f]) + 1
          /\ written'[f][Len(written[f]) + 1] =
               [by |-> q, from |-> read[q], over |-> disk[f], to |-> edited[q]]
      BY <1>3, <1>o, Opened
    <2>2. written'[f][Len(written[f]) + 1].by = q
      BY <2>1
    <2>3. written'[f] # <<>>
      BY <2>1
    <2>4. disk'[f] = Broken /\ job' = job
      BY <1>3, <1>o DEF OpenOutput, Shapes
    <2> QED BY <1>o, <2>1, <2>2, <2>3, <2>4
  <1>4. ~(MakePlan(q) \/ Lock(q) \/ Recheck(q) \/ Read(q) \/ WriteOutput(q) \/ OutputFails(q) \/ Killed(q))
    BY <1>a DEF MakePlan, Lock, Recheck, Read, WriteOutput, OutputFails, Killed, Ends, TypeOK
  <1> QED BY <1>o, <1>1, <1>2, <1>3, <1>4 DEF Next, Works

\* A history to which nothing is added.
LEMMA KeptHistory ==
  ASSUME TypeInv, Shapes, EditInv, [Next]_vars, NEW f \in Paths, f \notin wild',
         written'[f] = written[f]
  PROVE  EachReplacesWhatItRead(f)' /\ LastWritten(f)'
  <1> USE DEF EditInv
  <1>a. TypeOK
    BY DEF TypeInv
  <1>1. CASE UNCHANGED vars
    BY <1>1 DEF vars, EachReplacesWhatItRead, LastWritten
  <1>2. ASSUME NEW p \in Procs, MakePlan(p) \/ Works(p) \/ OutputFails(p) \/ Killed(p)
        PROVE  EachReplacesWhatItRead(f)' /\ LastWritten(f)'
    <2>1. f \notin wild /\ job' = job
      BY <1>2 DEF MakePlan, Works, Lock, Read, Recheck, OpenOutput, WriteOutput, OutputFails, Killed
    <2>2. ASSUME NEW k \in DOMAIN written[f]
          PROVE  expect'[written[f][k].by] = expect[written[f][k].by]
      <3>1. written[f][k].by \in Procs /\ pc[written[f][k].by] \notin {"new", "planned"}
        BY DEF Writers
      <3>2. CASE MakePlan(p)
        BY <3>1, <3>2 DEF MakePlan, Shapes
      <3>3. CASE ~MakePlan(p)
        BY <1>2, <3>3 DEF Works, Lock, Read, Recheck, OpenOutput, WriteOutput, OutputFails, Killed
      <3> QED BY <3>2, <3>3
    <2>3. EachReplacesWhatItRead(f)'
      BY <2>1, <2>2 DEF EachReplacesWhatItRead
    <2>4. ASSUME written[f] # <<>>
          PROVE  LET last == written[f][Len(written[f])]
                 IN \/ pc'[last.by] = "writing" /\ job[last.by].output = f /\ edited'[last.by] = last.to
                    \/ pc'[last.by] = "ended" /\ disk'[f] = last.to
                    \/ pc'[last.by] = "ended" /\ disk'[f] = Broken /\ exit'[last.by] \notin {0, 3}
      <3> DEFINE last == written[f][Len(written[f])]
      <3>0. Len(written[f]) \in DOMAIN written[f]
        BY <2>4, Length
      <3>1. PICK q \in Procs : q = last.by
        BY <3>0 DEF Writers
      <3>2. \/ pc[q] = "writing" /\ job[q].output = f /\ edited[q] = last.to
            \/ pc[q] = "ended" /\ disk[f] = last.to
            \/ pc[q] = "ended" /\ disk[f] = Broken /\ exit[q] \notin {0, 3}
        BY <2>1, <2>4, <3>1 DEF LastWritten
      <3> HIDE DEF last
      <3>3. CASE pc[q] = "writing" /\ p # q
        <4>1. pc'[q] = pc[q] /\ edited'[q] = edited[q]
          BY <1>2, <3>3, Others
        <4> QED BY <3>1, <3>2, <3>3, <4>1 DEF last
      <3>4. CASE pc[q] = "writing" /\ p = q
        <4>1. disk[f] = Broken
          BY <2>1, <3>2, <3>4 DEF WritesLast
        <4>2. CASE WriteOutput(q)
          <5>1. pc'[q] = "ended" /\ disk'[f] = last.to
            BY <1>a, <3>2, <3>4, <4>2 DEF WriteOutput, Ends, TypeOK
          <5> QED BY <3>1, <5>1 DEF last
        <4>3. CASE OutputFails(q) \/ Killed(q)
          <5>1. pc'[q] = "ended" /\ disk'[f] = Broken /\ exit'[q] \notin {0, 3}
            BY <1>a, <4>1, <4>3 DEF OutputFails, Killed, Ends, TypeOK
          <5> QED BY <3>1, <5>1 DEF last
        <4>4. ~(MakePlan(q) \/ Lock(q) \/ Recheck(q) \/ Read(q) \/ OpenOutput(q))
          BY <3>4 DEF MakePlan, Lock, Recheck, Read, OpenOutput
        <4> QED BY <1>2, <3>4, <4>2, <4>3, <4>4 DEF Works
      <3>5. CASE pc[q] = "ended"
        <4>1. p # q
          BY <1>2, <3>5 DEF MakePlan, Works, Lock, Recheck, Read, OpenOutput, WriteOutput, OutputFails, Killed
        <4>2. pc'[q] = pc[q] /\ exit'[q] = exit[q]
          BY <1>2, <4>1, Others
        <4>3. disk'[f] = disk[f]
          <5>1. CASE OpenOutput(p)
            <6>1. job[p].output # f
              <7> SUFFICES ASSUME job[p].output = f PROVE FALSE
                OBVIOUS
              <7>1. Len(written[f]) \in Nat /\ Len(written'[f]) = Len(written[f]) + 1
                BY <5>1, Opened
              <7> QED BY <7>1
            <6> QED BY <5>1, <6>1 DEF OpenOutput, Shapes
          <5>2. CASE WriteOutput(p)
            <6>1. job[p].output # f
              BY <2>1, <3>1, <3>5, <5>2 DEF WriteOutput, WritesLast, last
            <6> QED BY <5>2, <6>1 DEF WriteOutput, Shapes
          <5>3. CASE ~(OpenOutput(p) \/ WriteOutput(p))
            BY <1>2, <5>3 DEF MakePlan, Works, Lock, Read, Recheck, OutputFails, Killed
          <5> QED BY <5>1, <5>2, <5>3
        <4> QED BY <3>1, <3>2, <3>5, <4>2, <4>3 DEF last
      <3> QED BY <3>2, <3>3, <3>4, <3>5
    <2>5. LastWritten(f)'
      BY <2>1, <2>4 DEF LastWritten
    <2> QED BY <2>3, <2>5
  <1> QED BY <1>1, <1>2 DEF Next

\* A history to which a command adds what it is about to write.
LEMMA AddedHistory ==
  ASSUME TypeInv, Shapes, EditInv, NEW p \in Procs, OpenOutput(p),
         NEW f \in Paths, f = job[p].output, f \notin wild
  PROVE  EachReplacesWhatItRead(f)' /\ LastWritten(f)'
  <1> USE DEF EditInv
  <1> DEFINE n == Len(written[f])
  <1>1. /\ n \in Nat /\ DOMAIN written[f] = 1 .. n
        /\ Len(written'[f]) = n + 1 /\ DOMAIN written'[f] = 1 .. n + 1
        /\ \A k \in 1 .. n : written'[f][k] = written[f][k]
        /\ written'[f][n + 1] = [by |-> p, from |-> read[p], over |-> disk[f], to |-> edited[p]]
    BY Opened
  <1>2. /\ written'[f][n + 1].by = p /\ written'[f][n + 1].from = read[p]
        /\ written'[f][n + 1].over = disk[f] /\ written'[f][n + 1].to = edited[p]
    BY <1>1
  <1>3. /\ pc[p] = "ready" /\ pc'[p] = "writing" /\ expect' = expect
        /\ edited' = edited /\ job' = job
    BY DEF OpenOutput, TypeInv, TypeOK
  <1>4. job[p].cas /\ read[p] # Broken /\ read[p] = expect[p] /\ disk[f] = expect[p]
    BY <1>3 DEF Tame, ReadsExpected
  <1>5. ASSUME n > 0 PROVE disk[f] = written[f][n].to
    <2>1. written[f] # <<>>
      BY <1>5, Length
    <2>2. n \in DOMAIN written[f]
      BY <1>1, <1>5
    <2>3. PICK q \in Procs : q = written[f][n].by
      BY <2>2 DEF Writers
    <2>4. \/ pc[q] = "writing" /\ job[q].output = f
          \/ pc[q] = "ended" /\ disk[f] = written[f][n].to
          \/ pc[q] = "ended" /\ disk[f] = Broken
      BY <2>1, <2>3 DEF LastWritten
    <2>5. CASE pc[q] = "writing" /\ job[q].output = f
      <3>1. p = q
        BY <1>3, <2>5, Exclusive DEF Running
      <3> QED BY <1>3, <2>5, <3>1
    <2> QED BY <1>4, <2>4, <2>5
  <1>6. LastWritten(f)'
    BY <1>1, <1>2, <1>3 DEF LastWritten
  <1>7. ASSUME NEW k \in 1 .. n + 1
        PROVE  /\ written'[f][k].from = written'[f][k].over
               /\ written'[f][k].over = expect'[written'[f][k].by]
               /\ k > 1 => written'[f][k].from = written'[f][k - 1].to
    <2>1. CASE k = n + 1
      <3>1. k > 1 => n > 0 /\ written'[f][k - 1] = written[f][n]
        <4>1. k > 1 => n > 0 /\ n \in 1 .. n /\ k - 1 = n
          BY <1>1, <2>1
        <4> QED BY <1>1, <4>1
      <3>2. k > 1 => written'[f][k].from = written'[f][k - 1].to
        BY <1>2, <1>4, <1>5, <2>1, <3>1
      <3>3. /\ written'[f][k].from = written'[f][k].over
            /\ written'[f][k].over = expect'[written'[f][k].by]
        BY <1>2, <1>3, <1>4, <2>1
      <3> QED BY <3>2, <3>3
    <2>2. CASE k # n + 1
      <3>1. k \in DOMAIN written[f] /\ written'[f][k] = written[f][k]
        BY <1>1, <2>2
      <3>2. k > 1 => written'[f][k - 1] = written[f][k - 1]
        <4>1. k > 1 => k - 1 \in 1 .. n
          BY <1>1, <2>2
        <4> QED BY <1>1, <4>1
      <3>3. EachReplacesWhatItRead(f)
        OBVIOUS
      <3>4. /\ written[f][k].from = written[f][k].over
            /\ written[f][k].over = expect[written[f][k].by]
            /\ k > 1 => written[f][k].from = written[f][k - 1].to
        BY <3>1, <3>3 DEF EachReplacesWhatItRead
      <3>5. expect'[written'[f][k].by] = expect[written[f][k].by]
        BY <1>3, <3>1
      <3>6. k > 1 => written'[f][k].from = written'[f][k - 1].to
        BY <3>1, <3>2, <3>4
      <3> QED BY <3>1, <3>4, <3>5, <3>6
    <2> QED BY <2>1, <2>2
  <1>8. EachReplacesWhatItRead(f)'
    BY <1>1, <1>7 DEF EachReplacesWhatItRead
  <1> QED BY <1>6, <1>8

LEMMA EditSteps == TypeInv /\ Shapes /\ EditInv /\ [Next]_vars => EditInv'
  <1> SUFFICES ASSUME TypeInv, Shapes, EditInv, [Next]_vars PROVE EditInv'
    OBVIOUS
  <1>1. Tame' /\ ReadsExpected' /\ WritesLast' /\ Writers'
    BY TameSteps, ReadSteps, WriteSteps, WriterSteps DEF EditInv
  <1>2. ASSUME NEW f \in Paths, f \notin wild'
        PROVE  EachReplacesWhatItRead(f)' /\ LastWritten(f)'
    <2>1. CASE written'[f] = written[f]
      BY <1>2, <2>1, KeptHistory
    <2>2. CASE written'[f] # written[f]
      <3>1. PICK p \in Procs : OpenOutput(p)
        BY <2>2, Quiet
      <3>2. f = job[p].output /\ f \notin wild
        BY <1>2, <2>2, <3>1 DEF OpenOutput, Shapes
      <3> QED BY <3>1, <3>2, AddedHistory
    <2> QED BY <2>1, <2>2
  <1> QED BY <1>1, <1>2 DEF EditInv

\* Where every command expects a digest of the file it replaces, no edit is lost,
\* whatever is killed and wherever (execution.rs:514).
THEOREM EditsKept == Spec => []NoEditLost
  <1>1. TypeInv /\ Shapes /\ EditInv => NoEditLost
    <2> SUFFICES ASSUME TypeInv, Shapes, EditInv, NEW f \in Paths, f \notin wild
                 PROVE  EachReplacesWhatItRead(f) /\ LastIsThere(f)
      BY DEF NoEditLost
    <2>1. EachReplacesWhatItRead(f) /\ LastWritten(f)
      BY DEF EditInv
    <2>2. ASSUME written[f] # <<>>, exit[written[f][Len(written[f])].by] \in {0, 3}
          PROVE  disk[f] = written[f][Len(written[f])].to
      <3>1. Len(written[f]) \in DOMAIN written[f]
        BY <2>2, Length
      <3>2. PICK q \in Procs : q = written[f][Len(written[f])].by
        BY <3>1 DEF EditInv, Writers
      <3>3. pc[q] # "writing"
        BY <2>2, <3>2 DEF TypeInv, Untouched
      <3> QED BY <2>1, <2>2, <3>2, <3>3 DEF LastWritten
    <2> QED BY <2>1, <2>2 DEF LastIsThere
  <1>2. Spec => [](TypeInv /\ Shapes /\ EditInv)
    BY InitTypeInv, TypeSteps, InitEditInv, ShapeSteps, EditSteps, PTL DEF Spec
  <1> QED BY <1>1, <1>2, PTL
-----------------------------------------------------------------------------
(* The documents a plan goes through.                                       *)

\* A non-empty set of natural numbers has a least element.
LEMMA Least ==
  ASSUME NEW T, T \subseteq Nat, T # {}
  PROVE  \E x \in T : \A y \in T : x <= y
  <1>1. \E x \in T : \A y \in T : ~(<<y, x>> \in OpToRel(<, Nat))
    BY NatLessThanWellFounded, WFMin
  <1>2. ASSUME NEW x \in T, NEW y \in T, y < x
        PROVE  <<y, x>> \in OpToRel(<, Nat)
    <2>1. <<y, x>> \in Nat \X Nat
      BY <1>2
    <2> DEFINE s == <<y, x>>
    <2>2. s[1] < s[2]
      BY <1>2
    <2> QED BY <2>1, <2>2, <1>2 DEF OpToRel
  <1>3. PICK x \in T : \A y \in T : ~(y < x)
    BY <1>1, <1>2
  <1>4. \A y \in T : x <= y
    BY <1>3
  <1> QED BY <1>4

\* The document after step k, from the one before it.
After(steps, input, doc, k) ==
  IF Skips(steps, input, doc, k) THEN doc ELSE Applied(steps[k], doc)

\* f holds the documents up to step n.
IsTrace(steps, input, n, f) ==
  f = [k \in 0 .. n |-> IF k = 0 THEN input
                        ELSE IF Skips(steps, input, f[k - 1], k) THEN f[k - 1]
                        ELSE Applied(steps[k], f[k - 1])]

LEMMA TraceGrows ==
  ASSUME NEW steps, NEW input, NEW n \in Nat, n > 0, NEW g, IsTrace(steps, input, n - 1, g)
  PROVE  \E f : IsTrace(steps, input, n, f)
  <1> DEFINE f == [k \in 0 .. n |-> IF k = n THEN After(steps, input, g[n - 1], n) ELSE g[k]]
  <1>1. \A k \in 0 .. n : k > 0 => k - 1 \in 0 .. n - 1
    OBVIOUS
  <1>2. \A k \in 0 .. n : k # n => k \in 0 .. n - 1
    OBVIOUS
  <1>3. \A k \in 0 .. n - 1 : f[k] = g[k]
    OBVIOUS
  <1>4. \A k \in 0 .. n - 1 :
          g[k] = IF k = 0 THEN input
                 ELSE IF Skips(steps, input, g[k - 1], k) THEN g[k - 1]
                 ELSE Applied(steps[k], g[k - 1])
    BY DEF IsTrace
  <1>5. ASSUME NEW k \in 0 .. n
        PROVE  f[k] = IF k = 0 THEN input
                      ELSE IF Skips(steps, input, f[k - 1], k) THEN f[k - 1]
                      ELSE Applied(steps[k], f[k - 1])
    <2>1. CASE k = n
      <3>1. f[k] = After(steps, input, g[n - 1], n) /\ f[k - 1] = g[n - 1] /\ k # 0
        BY <1>1, <1>3, <2>1
      <3> QED BY <2>1, <3>1 DEF After
    <2>2. CASE k # n /\ k # 0
      <3>1. k \in 0 .. n - 1 /\ k - 1 \in 0 .. n - 1
        BY <1>1, <1>2, <2>2
      <3> HIDE DEF f
      <3> QED BY <1>3, <1>4, <2>2, <3>1
    <2>3. CASE k # n /\ k = 0
      BY <1>2, <1>4, <2>3
    <2> QED BY <2>1, <2>2, <2>3
  <1>6. f = [k \in 0 .. n |-> f[k]]
    OBVIOUS
  <1>7. \E h : h = f
    OBVIOUS
  <1> HIDE DEF f
  <1>8. IsTrace(steps, input, n, f)
    BY <1>5, <1>6 DEF IsTrace
  <1> QED BY <1>8

\* The recursion of Trace ends: it is what it says, step by step.
LEMMA TraceIs ==
  ASSUME NEW steps, NEW input, Len(steps) \in Nat
  PROVE  /\ DOMAIN Trace(steps, input) = 0 .. Len(steps)
         /\ Trace(steps, input)[0] = input
         /\ \A k \in 1 .. Len(steps) :
              Trace(steps, input)[k] = After(steps, input, Trace(steps, input)[k - 1], k)
  <1> DEFINE Stops == {n \in Nat : \A f : ~IsTrace(steps, input, n, f)}
  <1>1. Stops = {}
    <2> SUFFICES ASSUME Stops # {} PROVE FALSE
      OBVIOUS
    <2>1. PICK n \in Stops : \A m \in Stops : n <= m
      BY Least
    <2>2. CASE n = 0
      <3> DEFINE g == [k \in 0 .. 0 |-> input]
      <3>1. \A k \in 0 .. 0 : k = 0
        OBVIOUS
      <3>2. IsTrace(steps, input, 0, g)
        BY <3>1 DEF IsTrace
      <3> QED BY <2>1, <2>2, <3>2
    <2>3. CASE n # 0
      <3>1. n \in Nat /\ n > 0 /\ n - 1 \in Nat /\ ~(n <= n - 1)
        BY <2>1, <2>3
      <3>2. PICK g : IsTrace(steps, input, n - 1, g)
        BY <2>1, <3>1
      <3> QED BY <2>1, <3>1, <3>2, TraceGrows
    <2> QED BY <2>2, <2>3
  <1>2. \E f : IsTrace(steps, input, Len(steps), f)
    BY <1>1
  <1>3. IsTrace(steps, input, Len(steps), Trace(steps, input))
    BY <1>2 DEF IsTrace, Trace
  <1> DEFINE T == Trace(steps, input)
  <1> HIDE DEF T
  <1>4. T = [k \in 0 .. Len(steps) |-> IF k = 0 THEN input
                        ELSE IF Skips(steps, input, T[k - 1], k) THEN T[k - 1]
                        ELSE Applied(steps[k], T[k - 1])]
    BY <1>3 DEF IsTrace, T
  <1>5. DOMAIN T = 0 .. Len(steps) /\ T[0] = input
    BY <1>4
  <1>6. ASSUME NEW k \in 1 .. Len(steps) PROVE T[k] = After(steps, input, T[k - 1], k)
    <2>1. k \in 0 .. Len(steps) /\ k # 0
      OBVIOUS
    <2> QED BY <1>4, <2>1 DEF After
  <1> QED BY <1>5, <1>6 DEF T

\* A step writes the places it writes, and leaves the rest of a document alone.
LEMMA AppliedIs ==
  ASSUME NEW doc, IsDocument(doc), NEW step
  PROVE  /\ IsDocument(Applied(step, doc))
         /\ DOMAIN Applied(step, doc).text = DOMAIN doc.text
         /\ Applied(step, doc).fields = doc.fields
         /\ \A i \in DOMAIN doc.text : Applied(step, doc).text[i] =
              IF i \in Written(step, doc) THEN step.value ELSE doc.text[i]
  <1> DEFINE text == [i \in DOMAIN doc.text |->
                        IF i \in Written(step, doc) THEN step.value ELSE doc.text[i]]
  <1>1. Applied(step, doc) = [doc EXCEPT !.text = text]
    BY DEF Applied
  <1>2. /\ DOMAIN text = DOMAIN doc.text
        /\ \A i \in DOMAIN doc.text : text[i] =
             IF i \in Written(step, doc) THEN step.value ELSE doc.text[i]
    OBVIOUS
  <1> HIDE DEF text
  <1>3. /\ DOMAIN Applied(step, doc) = {"text", "fields"}
        /\ Applied(step, doc).text = text /\ Applied(step, doc).fields = doc.fields
    BY <1>1 DEF IsDocument
  <1> QED BY <1>2, <1>3 DEF IsDocument

\* A document with the places and the fields of the input.
Like(input, doc) ==
  IsDocument(doc) /\ DOMAIN doc.text = DOMAIN input.text /\ doc.fields = input.fields

LEMMA TraceDocuments ==
  ASSUME NEW steps, IsPlan(steps), NEW input, IsDocument(input)
  PROVE  \A k \in 0 .. Len(steps) : Like(input, Trace(steps, input)[k])
  <1> DEFINE Bad == {k \in 0 .. Len(steps) : ~Like(input, Trace(steps, input)[k])}
  <1> SUFFICES ASSUME Bad # {} PROVE FALSE
    OBVIOUS
  <1>1. Len(steps) \in Nat /\ Bad \subseteq Nat
    BY DEF IsPlan
  <1>2. PICK k \in Bad : \A j \in Bad : k <= j
    BY <1>1, Least
  <1>3. k # 0
    BY <1>1, <1>2, TraceIs DEF Like
  <1>4. k \in 1 .. Len(steps) /\ k - 1 \in 0 .. Len(steps) /\ ~(k <= k - 1)
    BY <1>1, <1>2, <1>3
  <1>5. Like(input, Trace(steps, input)[k - 1])
    BY <1>2, <1>4
  <1>6. Trace(steps, input)[k] = After(steps, input, Trace(steps, input)[k - 1], k)
    BY <1>1, <1>4, TraceIs
  <1>7. Like(input, Trace(steps, input)[k])
    <2> DEFINE doc == Trace(steps, input)[k - 1]
    <2>1. Like(input, Applied(steps[k], doc))
      <3>1. IsDocument(doc) /\ DOMAIN doc.text = DOMAIN input.text /\ doc.fields = input.fields
        BY <1>5 DEF Like
      <3> HIDE DEF doc
      <3> QED BY <3>1, AppliedIs DEF Like
    <2>2. Like(input, doc) /\ Trace(steps, input)[k] = After(steps, input, doc, k)
      BY <1>5, <1>6
    <2> HIDE DEF doc
    <2> QED BY <2>1, <2>2 DEF After
  <1> QED BY <1>2, <1>7

\* What a step looks for stands where it stood in the input, and nowhere else.
Undisturbed(step, input, doc) ==
  /\ \A i \in Sees(step, input) : doc.text[i] = input.text[i]
  /\ step.action = "replace" =>
       \A i \in DOMAIN doc.text \ Sees(step, input) : doc.text[i] # step.find

Actions == {"replace", "fill_fields", "set_cell"}

LEMMA UndisturbedStep ==
  ASSUME NEW input, NEW doc, Like(input, doc),
         NEW first, first.action \in Actions, NEW second, second.action \in Actions,
         Sees(second, input) \subseteq DOMAIN input.text,
         Undisturbed(second, input, doc), ~Disturbs(first, second, input)
  PROVE  Undisturbed(second, input, Applied(first, doc))
  <1>1. ASSUME NEW i \in Sees(second, input) PROVE i \notin Written(first, doc)
    <2>1. i \in DOMAIN input.text /\ doc.text[i] = input.text[i]
      BY DEF Undisturbed
    <2>2. i \notin MayWrite(first, input)
      BY DEF Disturbs
    <2>3. CASE first.action = "replace"
      <3>1. input.text[i] # first.find
        BY <2>1, <2>2, <2>3 DEF MayWrite, PlacesOf
      <3>2. i \notin PlacesOf(doc, first.find)
        BY <2>1, <3>1 DEF PlacesOf
      <3> QED BY <2>3, <3>2 DEF Written, Places, Matches
    <2>4. CASE first.action # "replace"
      BY <2>2, <2>4 DEF MayWrite, Written, Like, Actions
    <2> QED BY <2>3, <2>4
  <1>2. /\ DOMAIN Applied(first, doc).text = DOMAIN doc.text
        /\ \A i \in DOMAIN doc.text : Applied(first, doc).text[i] =
             IF i \in Written(first, doc) THEN first.value ELSE doc.text[i]
    BY AppliedIs DEF Like
  <1>3. ASSUME NEW i \in Sees(second, input) PROVE Applied(first, doc).text[i] = input.text[i]
    BY <1>1, <1>2 DEF Undisturbed, Like
  <1>4. ASSUME second.action = "replace", NEW i \in DOMAIN doc.text \ Sees(second, input)
        PROVE  Applied(first, doc).text[i] # second.find
    BY <1>2, <1>4 DEF Undisturbed, Disturbs
  <1> QED BY <1>2, <1>3, <1>4 DEF Undisturbed

\* A clear step finds what it looks for undisturbed, however many steps ran before.
LEMMA ClearKept ==
  ASSUME NEW steps, IsPlan(steps), NEW input, IsDocument(input),
         NEW k \in DOMAIN steps, Clear(steps, input, k),
         Sees(steps[k], input) \subseteq DOMAIN input.text
  PROVE  Undisturbed(steps[k], input, Trace(steps, input)[k - 1])
  <1> DEFINE Bad == {m \in 0 .. k - 1 : ~Undisturbed(steps[k], input, Trace(steps, input)[m])}
  <1>1. Len(steps) \in Nat /\ k \in 1 .. Len(steps) /\ DOMAIN steps = 1 .. Len(steps)
    BY DEF IsPlan
  <1>2. Bad = {}
    <2> SUFFICES ASSUME Bad # {} PROVE FALSE
      OBVIOUS
    <2>0. Bad \subseteq Nat
      BY <1>1
    <2>1. PICK m \in Bad : \A j \in Bad : m <= j
      BY <2>0, Least
    <2>2. m # 0
      <3>1. Undisturbed(steps[k], input, input)
        <4>1. steps[k].action = "replace" => Sees(steps[k], input) = PlacesOf(input, steps[k].find)
          BY DEF Sees
        <4> QED BY <4>1 DEF Undisturbed, PlacesOf
      <3> QED BY <1>1, <2>1, <3>1, TraceIs
    <2>3. /\ m \in 1 .. Len(steps) /\ m \in DOMAIN steps /\ m < k
          /\ m - 1 \in 0 .. Len(steps) /\ m - 1 \in 0 .. k - 1 /\ ~(m <= m - 1)
      BY <1>1, <2>1, <2>2
    <2> DEFINE doc == Trace(steps, input)[m - 1]
    <2>4. Undisturbed(steps[k], input, doc) /\ Like(input, doc)
      BY <2>1, <2>3, TraceDocuments
    <2>5. Trace(steps, input)[m] = After(steps, input, doc, m)
      BY <1>1, <2>3, TraceIs
    <2> HIDE DEF doc
    <2>6. CASE m \in Skipped(steps, input)
      BY <2>1, <2>4, <2>5, <2>6 DEF After, Skips
    <2>7. CASE m \notin Skipped(steps, input)
      <3>1. ~Disturbs(steps[m], steps[k], input)
        BY <2>3, <2>7 DEF Clear
      <3>2. steps[m].action \in Actions /\ steps[k].action \in Actions
        BY <2>3 DEF IsPlan, Actions
      <3>3. Undisturbed(steps[k], input, Applied(steps[m], doc))
        BY <2>4, <3>1, <3>2, UndisturbedStep
      <3> QED BY <2>1, <2>5, <2>7, <3>3 DEF After, Skips
    <2> QED BY <2>6, <2>7
  <1>3. k - 1 \in 0 .. k - 1
    BY <1>1
  <1> QED BY <1>2, <1>3

\* Of a finite set of numbers, one has n below it, if there are more than n.
AtRank(M, n) == {i \in M : Cardinality({j \in M : j < i}) = n}

LEMMA OneAtRank ==
  ASSUME NEW M, M \subseteq Nat, IsFiniteSet(M), NEW n \in Nat, n < Cardinality(M)
  PROVE  \E x \in M : AtRank(M, n) = {x}
  <1> DEFINE Below(i) == {j \in M : j < i}
             N == Cardinality(M)
             rank == [i \in M |-> Cardinality(Below(i)) + 1]
  <1>1. N \in Nat
    BY FS_CardinalityType
  <1>2. ASSUME NEW i \in M
        PROVE  IsFiniteSet(Below(i)) /\ Cardinality(Below(i)) \in Nat /\ Cardinality(Below(i)) < N
    <2>1. Below(i) \subseteq M /\ i \notin Below(i)
      OBVIOUS
    <2>2. Below(i) # M
      BY <2>1
    <2> HIDE DEF Below
    <2>3. IsFiniteSet(Below(i)) /\ Cardinality(Below(i)) <= N /\ Cardinality(Below(i)) # N
      BY <2>1, <2>2, FS_Subset
    <2>4. Cardinality(Below(i)) \in Nat
      BY <2>3, FS_CardinalityType
    <2> QED BY <1>1, <2>3, <2>4
  <1>3. ASSUME NEW i \in M, NEW j \in M, i < j
        PROVE  Cardinality(Below(i)) # Cardinality(Below(j))
    <2>1. Below(i) \subseteq Below(j) /\ i \in Below(j) /\ i \notin Below(i)
      <3>1. \A v \in M : v < i => v < j
        BY <1>3
      <3>2. ~(i < i)
        OBVIOUS
      <3> QED BY <1>3, <3>1, <3>2
    <2>2. IsFiniteSet(Below(j))
      BY <1>2
    <2> HIDE DEF Below
    <2>3. Below(i) # Below(j)
      BY <2>1
    <2> QED BY <2>1, <2>2, <2>3, FS_Subset
  <1>4. ASSUME NEW i \in M, NEW j \in M, Cardinality(Below(i)) = Cardinality(Below(j))
        PROVE  i = j
    <2>1. ~(i < j) /\ ~(j < i)
      BY <1>3, <1>4
    <2> HIDE DEF Below
    <2> QED BY <2>1
  <1> HIDE DEF Below
  <1>5. rank \in [M -> 1 .. N]
    BY <1>1, <1>2
  <1>6. \A i, j \in M : rank[i] = rank[j] => i = j
    BY <1>2, <1>4
  <1>7. rank \in Injection(M, 1 .. N)
    BY <1>5, <1>6 DEF Injection, IsInjective
  <1>8. IsFiniteSet(1 .. N) /\ Cardinality(1 .. N) = N
    BY <1>1, FS_Interval
  <1>9. rank \in Surjection(M, 1 .. N)
    BY <1>7, <1>8, FS_Injection
  <1>10. n + 1 \in 1 .. N
    BY <1>1
  <1>11. PICK x \in M : rank[x] = n + 1
    BY <1>9, <1>10 DEF Surjection
  <1>12. Cardinality(Below(x)) = n
    BY <1>2, <1>11
  <1>13. \A i \in M : Cardinality(Below(i)) = n <=> i = x
    BY <1>4, <1>12
  <1>14. {i \in M : Cardinality(Below(i)) = n} = {x}
    BY <1>13
  <1> QED BY <1>14 DEF Below, AtRank

\* An undisturbed step does on the document it meets what its preview says.
LEMMA StepAsPreviewed ==
  ASSUME NEW input, IsDocument(input), NEW doc, Like(input, doc),
         NEW step, step.action \in Actions,
         step.action = "replace" => step.occurrence \in Nat \cup {All},
         Feasible(step, input), Undisturbed(step, input, doc),
         step.action = "replace" => PlacesOf(input, step.find) \subseteq Grepped \cap Searched
  PROVE  /\ Journalled(step, doc) = Previewed(step, input)
         /\ Written(step, doc) = Written(step, input)
  <1>1. CASE step.action = "replace"
    <2> DEFINE S == PlacesOf(input, step.find)
    <2>1. Sees(step, input) = S
      BY <1>1 DEF Sees
    <2>2. PlacesOf(doc, step.find) = S
      <3>1. ASSUME NEW i \in DOMAIN input.text
            PROVE  doc.text[i] = step.find <=> i \in S
        <4>1. CASE i \in S
          BY <2>1, <4>1 DEF Undisturbed, PlacesOf
        <4>2. CASE i \notin S
          BY <1>1, <2>1, <4>2 DEF Undisturbed, Like
        <4> QED BY <4>1, <4>2
      <3>2. S \subseteq DOMAIN input.text /\ DOMAIN doc.text = DOMAIN input.text
        BY DEF PlacesOf, Like
      <3> HIDE DEF S
      <3>3. {i \in DOMAIN doc.text : doc.text[i] = step.find} = S
        BY <3>1, <3>2
      <3> QED BY <3>3 DEF PlacesOf
    <2>3. Matches(doc, step.find) = S /\ Matches(input, step.find) = S /\ Found(input, step.find) = S
      BY <1>1, <2>2 DEF Matches, Found
    <2>4. S \subseteq Nat /\ IsFiniteSet(S)
      BY FS_Subset DEF IsDocument, PlacesOf
    <2> HIDE DEF S
    <2>5. Places(step, doc) = Places(step, input)
      BY <2>3 DEF Places
    <2>6. Cardinality(Places(step, input)) = WillReplace(step, input)
      <3>1. CASE step.occurrence = All
        BY <2>3, <3>1 DEF Places, WillReplace
      <3>2. CASE step.occurrence # All
        <4>1. step.occurrence \in Nat /\ step.occurrence < Cardinality(S)
          BY <1>1, <2>3, <3>2 DEF Feasible
        <4>2. PICK x \in S : AtRank(S, step.occurrence) = {x}
          BY <2>4, <4>1, OneAtRank
        <4>3. Places(step, input) = {x}
          BY <2>3, <3>2, <4>2 DEF Places, AtRank
        <4> QED BY <3>2, <4>3, FS_Singleton DEF WillReplace
      <3> QED BY <3>1, <3>2
    <2> QED BY <1>1, <2>5, <2>6 DEF Journalled, Previewed, Written
  <1>2. CASE step.action = "set_cell"
    <2>1. step.cell \in Sees(step, input)
      BY <1>2 DEF Sees
    <2>2. doc.text[step.cell] = input.text[step.cell]
      BY <2>1 DEF Undisturbed
    <2> QED BY <1>2, <2>2 DEF Journalled, Previewed, Written
  <1>3. CASE step.action = "fill_fields"
    BY <1>3 DEF Journalled, Previewed, Written, Like
  <1> QED BY <1>1, <1>2, <1>3 DEF Actions

\* For every valid plan and every document.
LEMMA PlanAsPreviewed ==
  ASSUME NEW steps, IsPlan(steps), NEW input, IsDocument(input), Invalid(steps, input) = {},
         NEW k \in DOMAIN steps, k \in Skipped(steps, input) \/ Clear(steps, input, k)
  PROVE  /\ Journal(steps, input)[k] = Preview(steps, input)[k]
         /\ k \notin Skipped(steps, input) =>
              Written(steps[k], Trace(steps, input)[k - 1]) = Written(steps[k], input)
  <1>1. k \in 1 .. Len(steps) /\ k - 1 \in 0 .. Len(steps) /\ Len(steps) \in Nat
    BY DEF IsPlan
  <1> DEFINE before == Trace(steps, input)[k - 1]
  <1>2. Like(input, before)
    BY <1>1, TraceDocuments
  <1>3. Journal(steps, input)[k] =
          IF Skips(steps, input, before, k) THEN SkippedEntry ELSE Journalled(steps[k], before)
    BY DEF Journal
  <1>4. Preview(steps, input)[k] =
          IF k \in Skipped(steps, input) THEN SkippedEntry ELSE Previewed(steps[k], input)
    BY DEF Preview
  <1>5. CASE k \in Skipped(steps, input)
    BY <1>3, <1>4, <1>5 DEF Skips
  <1>6. CASE k \notin Skipped(steps, input)
    <2>1. Clear(steps, input, k) /\ Feasible(steps[k], input)
      BY <1>6 DEF Invalid
    <2>2. steps[k].action \in Actions
      BY DEF IsPlan, Actions
    <2>3. steps[k].action = "replace" => steps[k].occurrence \in Nat \cup {All}
      BY DEF IsPlan
    <2>4. Sees(steps[k], input) \subseteq DOMAIN input.text
      BY <2>1, <2>2 DEF Actions, Sees, Feasible, PlacesOf
    <2>5. Undisturbed(steps[k], input, before)
      BY <2>1, <2>4, ClearKept
    <2>6. steps[k].action = "replace" =>
            PlacesOf(input, steps[k].find) \subseteq Grepped \cap Searched
      BY <2>1 DEF Clear
    <2> HIDE DEF before
    <2>7. /\ Journalled(steps[k], before) = Previewed(steps[k], input)
          /\ Written(steps[k], before) = Written(steps[k], input)
      BY <1>2, <2>1, <2>2, <2>3, <2>5, <2>6, StepAsPreviewed
    <2>8. ~Skips(steps, input, before, k)
      BY <1>6 DEF Skips
    <2>9. Written(steps[k], Trace(steps, input)[k - 1]) = Written(steps[k], input)
      BY <2>7 DEF before
    <2> QED BY <1>3, <1>4, <1>6, <2>7, <2>8, <2>9
  <1> QED BY <1>5, <1>6

\* What is read and not cut short is a document, and so is what is written; a plan
\* that is executed was valid for what was read.
DocsInv ==
  /\ \A f \in Paths : disk[f] = Broken \/ IsDocument(disk[f])
  /\ \A p \in Procs : pc[p] \in {"checked", "ready", "writing"} \/ touched[p] =>
       /\ IsDocument(read[p]) /\ IsDocument(edited[p])
       /\ job[p].tool = "run" => Invalid(job[p].steps, read[p]) = {}

LEMMA DocsSteps == TypeInv /\ Shapes /\ DocsInv /\ [Next]_vars => DocsInv'
  <1> SUFFICES ASSUME TypeInv, Shapes, DocsInv, [Next]_vars PROVE DocsInv'
    OBVIOUS
  <1> USE DEF DocsInv
  <1>1. CASE UNCHANGED vars
    BY <1>1 DEF vars
  <1>2. ASSUME NEW p \in Procs, MakePlan(p) \/ Lock(p) \/ Recheck(p) \/ OutputFails(p) \/ Killed(p)
        PROVE  DocsInv'
    <2>1. UNCHANGED <<disk, read, edited, touched, job>>
      BY <1>2 DEF MakePlan, Lock, Recheck, OutputFails, Killed
    <2>2. \A q \in Procs : pc'[q] \in {"checked", "ready", "writing"} =>
            pc[q] \in {"checked", "ready", "writing"}
      BY <1>2 DEF MakePlan, Lock, Recheck, OutputFails, Killed, Ends, TypeInv, TypeOK
    <2> QED BY <2>1, <2>2
  <1>3. ASSUME NEW p \in Procs, Read(p) PROVE DocsInv'
    <2> DEFINE doc == disk[job[p].input]
    <2>1. /\ UNCHANGED <<disk, touched, job>> /\ ~touched[p]
          /\ \A q \in Procs \ {p} : pc'[q] = pc[q] /\ read'[q] = read[q] /\ edited'[q] = edited[q]
      BY <1>3 DEF Read, Ends, TypeInv, TypeOK, Shapes, Untouched
    <2>2. CASE pc'[p] = "ended"
      BY <2>1, <2>2
    <2>3. CASE pc'[p] # "ended"
      <3>1. /\ "go" \in Outcomes(p, doc) /\ pc'[p] = "checked"
            /\ read'[p] = doc /\ edited'[p] = Executed(job[p].steps, doc)
        BY <1>3, <2>3 DEF Read, Ends, TypeInv, TypeOK, Shapes
      <3>2. job[p] \in Jobs
        BY DEF TypeInv, TypeOK
      <3>3. job[p].input \in Paths /\ IsPlan(job[p].steps)
        BY <3>2, PlanAssumption
      <3>4. doc # Broken /\ (job[p].tool = "run" => Invalid(job[p].steps, doc) = {})
        BY <3>1 DEF Outcomes
      <3>5. IsDocument(doc)
        BY <3>3, <3>4
      <3>6. Len(job[p].steps) \in 0 .. Len(job[p].steps)
        BY <3>3 DEF IsPlan
      <3>7. IsDocument(Executed(job[p].steps, doc))
        BY <3>3, <3>5, <3>6, TraceDocuments DEF Executed, Like
      <3> HIDE DEF doc
      <3> QED BY <2>1, <3>1, <3>4, <3>5, <3>7
    <2> QED BY <2>2, <2>3
  <1>4. ASSUME NEW p \in Procs, OpenOutput(p) \/ WriteOutput(p) PROVE DocsInv'
    <2>1. /\ pc[p] \in {"checked", "ready", "writing"} /\ UNCHANGED <<read, edited, job>>
          /\ \A q \in Procs \ {p} : pc'[q] = pc[q] /\ touched'[q] = touched[q]
      BY <1>4 DEF OpenOutput, WriteOutput, Ends, TypeInv, TypeOK
    <2>2. IsDocument(read[p]) /\ IsDocument(edited[p])
      BY <2>1
    <2>3. \E content \in {Broken, edited[p]} : disk' = [disk EXCEPT ![job[p].output] = content]
      BY <1>4 DEF OpenOutput, WriteOutput
    <2>4. \A f \in Paths : disk'[f] = Broken \/ IsDocument(disk'[f])
      BY <2>2, <2>3 DEF Shapes
    <2> QED BY <2>1, <2>2, <2>4
  <1> QED BY <1>1, <1>2, <1>3, <1>4 DEF Next, Works

\* A run does to its input what its preview shows, step by step, but for the steps
\* that earlier ones disturb (execution.rs:645).
THEOREM PreviewTrusted == Spec => []RunsAsPreviewed
  <1>1. Init => DocsInv
    <2> SUFFICES ASSUME Init PROVE DocsInv
      OBVIOUS
    <2>1. \A f \in Paths : disk[f] = Broken \/ IsDocument(disk[f])
      BY PlanAssumption DEF Init
    <2> QED BY <2>1 DEF Init, DocsInv
  <1>2. TypeInv /\ DocsInv => RunsAsPreviewed
    <2> SUFFICES ASSUME TypeInv, DocsInv,
                        NEW p \in Procs, job[p].tool = "run", touched[p],
                        NEW k \in DOMAIN job[p].steps,
                        k \in Skipped(job[p].steps, read[p]) \/ Clear(job[p].steps, read[p], k)
                 PROVE  /\ Journal(job[p].steps, read[p])[k] = Preview(job[p].steps, read[p])[k]
                        /\ k \notin Skipped(job[p].steps, read[p]) =>
                             Written(job[p].steps[k], Trace(job[p].steps, read[p])[k - 1])
                               = Written(job[p].steps[k], read[p])
      BY DEF RunsAsPreviewed
    <2>1. IsDocument(read[p]) /\ Invalid(job[p].steps, read[p]) = {}
      BY DEF DocsInv
    <2>2. IsPlan(job[p].steps)
      BY PlanAssumption DEF TypeInv, TypeOK
    <2> QED BY <2>1, <2>2, PlanAsPreviewed
  <1> QED BY <1>1, <1>2, InitTypeInv, TypeSteps, InitEditInv, ShapeSteps, DocsSteps, PTL DEF Spec
=============================================================================
