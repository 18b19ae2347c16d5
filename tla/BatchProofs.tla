------------------------------ MODULE BatchProofs ------------------------------
(***************************************************************************)
(* Theorems about a batch and the Job that runs it.                         *)
(*                                                                          *)
(* BatchRunner, for every batch, every configuration and every number of    *)
(* threads: what is written and reported, what the order of the reports and *)
(* the end of a run say, and that the threads, the flag and the vector      *)
(* implement BatchPromise.                                                  *)
(*                                                                          *)
(* BatchJob, for every set of inputs, every number of retries and every     *)
(* sequence of kills and errors.                                            *)
(***************************************************************************)
EXTENDS BatchRunner, BatchJob, FiniteSetTheorems, SequenceTheorems, TLAPS

Busy == {"exists", "prepare", "open", "write", "report"}

\* An item is in progress wherever the worker reads the index of one.
TypeInv ==
  /\ TypeOK
  /\ \A w \in Workers : pc[w] \in Busy => job[w] \in Indices

\* A worker in process_one has an item of its own chunk, taken and not yet
\* reported; what is still to be taken is of the chunk and not reported either.
OneAtATime ==
  /\ \A w \in Workers : pc[w] \in Busy =>
       job[w] \in ChunkOf(w) /\ job[w] \notin todo[w] /\ ~Reported(job[w])
  /\ \A w \in Workers : \A i \in todo[w] : i \in ChunkOf(w) /\ ~Reported(i)

\* What the worker knows of the output of its item when no other item has it.
SoleOutput ==
  \A w \in Workers : pc[w] \in Busy /\ Sole(job[w]) =>
    /\ pc[w] \in {"prepare", "open"} /\ ~cfg.overwrite => fs[OutputOf(job[w])] = "missing"
    /\ pc[w] = "write" => fs[OutputOf(job[w])] = "truncated"
    /\ pc[w] = "report" /\ outcome[w] = "ok" => fs[OutputOf(job[w])] = DataOf(job[w])

\* Past its check, a worker without --overwrite is not heading for a path that
\* was there before the run.
PriorSpared ==
  ~cfg.overwrite =>
    \A w \in Workers : pc[w] \in {"prepare", "open", "write"} =>
      fs[OutputOf(job[w])] # "prior"

\* An item is to be taken, in progress, reported, or given up for a reason.
SomeFailure == ~cfg.onErrorContinue /\ \E i \in Indices : ReportedAs(i, "failed")
Accounted ==
  /\ abort => SomeFailure
  /\ \A w \in Workers : pc[w] = "abort" => SomeFailure
  /\ \A w \in Workers : pc[w] = "exited" => todo[w] = {} \/ SomeFailure
  /\ phase # "done" => \A i \in Indices :
       \/ i \in todo[WorkerOf(i)]
       \/ pc[WorkerOf(i)] \in Busy /\ job[WorkerOf(i)] = i
       \/ pc[WorkerOf(i)] = "panicked"
       \/ Reported(i)

Inv ==
  /\ TypeInv
  /\ phase # "done" => OneAtATime
  /\ phase # "done" => SoleOutput
  /\ PriorSpared
  /\ OkMeansWritten
  /\ phase # "done" => Accounted
  /\ NothingSkippedSilently
-----------------------------------------------------------------------------
(* Facts that hold in every state of the right type, and across any step    *)
(* that keeps the batch and its configuration.                              *)

LEMMA ChunkFacts ==
  /\ \A i \in Indices : WorkerOf(i) \in Workers /\ i \in ChunkOf(WorkerOf(i))
  /\ \A w \in Workers : ChunkOf(w) \subseteq Indices
  /\ \A w \in Workers : \A i \in ChunkOf(w) : WorkerOf(i) = w
  BY DEF Workers, ChunkOf

LEMMA BatchStable ==
  ASSUME items' = items, cfg' = cfg
  PROVE  /\ Indices' = Indices
         /\ Workers' = Workers
         /\ \A w : ChunkOf(w)' = ChunkOf(w)
         /\ \A i : WorkerOf(i)' = WorkerOf(i)
         /\ \A i : OutputOf(i)' = OutputOf(i)
         /\ \A i : DataOf(i)' = DataOf(i)
         /\ \A i : Sole(i)' = Sole(i)
  BY DEF Indices, Workers, ChunkOf, WorkerOf, ChunkSize, OutputOf, DataOf, Sole

LEMMA ItemFacts ==
  ASSUME TypeOK
  PROVE  /\ Indices = 1..Len(items)
         /\ Len(items) \in Nat
         /\ \A i \in Indices : OutputOf(i) \in Path /\ DataOf(i) \in Data
<1>1. items \in Seq(Item)
  BY BatchesAssumption DEF TypeOK
<1>2. Indices = 1..Len(items) /\ Len(items) \in Nat
  BY <1>1 DEF Indices
<1>3. \A i \in Indices : items[i] \in Item
  BY <1>1, <1>2
<1> QED
  BY <1>2, <1>3 DEF Item, OutputOf, DataOf

-----------------------------------------------------------------------------
(* Types.                                                                   *)

LEMMA InitType == Init => TypeInv
<1> SUFFICES ASSUME Init PROVE TypeInv
  OBVIOUS
<1>1. \A w \in Workers : ChunkOf(w) \subseteq Indices
  BY ChunkFacts
<1>2. fs \in [Path -> Content]
  BY PriorAssumption DEF Init, Content, FileState
<1>3. results \in Seq([item : Indices, status : Status])
  BY DEF Init
<1> QED
  BY <1>1, <1>2, <1>3 DEF Init, TypeInv, TypeOK, Status, Busy

LEMMA NextType == TypeInv /\ [Next]_vars => TypeInv'
<1> SUFFICES ASSUME TypeInv, [Next]_vars PROVE TypeInv'
  OBVIOUS
<1> USE DEF Status, Busy, TypeOK
<1>0. items' = items /\ cfg' = cfg
  BY DEF Next, vars, TemplateFails, SpawnWorkers, Worker, LeaveLoop, TakeItem, CheckOutput, Prepare,
     PrepareFails, Panic, OpenOutput, FinishWrite, WriteFails, PushReport, RaiseAbort, JoinWorkers, Terminated
<1>b. Indices' = Indices /\ Workers' = Workers
  BY <1>0, BatchStable
<1>c. \A i \in Indices : OutputOf(i) \in Path /\ DataOf(i) \in Data
  BY ItemFacts DEF TypeInv
<1>1. CASE TemplateFails
  <2>1. results' \in Seq([item : Indices, status : Status])
    <3>1. Indices = 1..Len(items) /\ Len(items) \in Nat
      BY ItemFacts DEF TypeInv
    <3>2. \A i \in Indices : [item |-> i, status |-> "failed"] \in [item : Indices, status : Status]
      OBVIOUS
    <3> QED
      BY <1>1, <3>1, <3>2, IsASeq DEF TemplateFails
  <2> QED
    BY <1>0, <1>b, <1>1, <2>1 DEF TemplateFails, TypeInv
<1>2. CASE SpawnWorkers
  BY <1>0, <1>b, <1>2 DEF SpawnWorkers, TypeInv
<1>3. ASSUME NEW w \in Workers, Worker(w) PROVE TypeInv'
  <2> USE <1>0, <1>b DEF TypeInv, Goto, At, Finish, Succeed, Fail
  <2>1. CASE LeaveLoop(w)
    BY <2>1 DEF LeaveLoop
  <2>2. CASE TakeItem(w)
    BY <2>2 DEF TakeItem, RestOf
  <2>3. CASE CheckOutput(w)
    BY <2>3 DEF CheckOutput
  <2>4. CASE Prepare(w)
    BY <2>4 DEF Prepare
  <2>5. CASE PrepareFails(w)
    BY <2>5 DEF PrepareFails
  <2>6. CASE Panic(w)
    BY <2>6 DEF Panic
  <2>7. CASE OpenOutput(w)
    BY <2>7 DEF OpenOutput, Content, FileState
  <2>8. CASE FinishWrite(w)
    BY <2>8, <1>c DEF FinishWrite, Written, Content, FileState
  <2>9. CASE WriteFails(w)
    BY <2>9, <1>c DEF WriteFails, Content, FileState
  <2>10. CASE PushReport(w)
    BY <2>10 DEF PushReport
  <2>11. CASE RaiseAbort(w)
    BY <2>11 DEF RaiseAbort
  <2> QED
    BY <1>3, <2>1, <2>2, <2>3, <2>4, <2>5, <2>6, <2>7, <2>8, <2>9, <2>10, <2>11 DEF Worker
<1>4. CASE JoinWorkers
  BY <1>0, <1>b, <1>4 DEF JoinWorkers, ExitCode, TypeInv
<1>5. CASE UNCHANGED vars
  BY <1>0, <1>b, <1>5 DEF vars, TypeInv
<1> QED
  BY <1>1, <1>2, <1>3, <1>4, <1>5 DEF Next, Terminated

\* The type invariant of the runner.
THEOREM TypeCorrect == Spec => []TypeOK
  BY InitType, NextType, PTL DEF Spec, TypeInv
-----------------------------------------------------------------------------
(* Reports.                                                                 *)

LEMMA SameReports ==
  ASSUME results' = results
  PROVE  /\ \A i : Reported(i)' = Reported(i)
         /\ \A i, s : ReportedAs(i, s)' = ReportedAs(i, s)
  BY DEF Reported, ReportedAs

LEMMA PushedReport ==
  ASSUME TypeInv, NEW w \in Workers, PushReport(w)
  PROVE  /\ \A i : Reported(i)' <=> Reported(i) \/ i = job[w]
         /\ \A i, s : ReportedAs(i, s)' <=>
              ReportedAs(i, s) \/ (i = job[w] /\ s = outcome[w])
<1> DEFINE n == Len(results)
           r == [item |-> job[w], status |-> outcome[w]]
<1>1. results \in Seq([item : Indices, status : Status]) /\ results' = Append(results, r)
  BY DEF TypeInv, TypeOK, PushReport
<1>2. n \in Nat /\ DOMAIN results = 1..n /\ DOMAIN results' = 1..(n + 1)
  BY <1>1
<1>3. results'[n + 1] = r /\ \A k \in 1..n : results'[k] = results[k]
  BY <1>1, <1>2
<1>4. \A k : k \in 1..(n + 1) <=> k \in 1..n \/ k = n + 1
  BY <1>2
<1> HIDE DEF n
<1> QED
  BY <1>2, <1>3, <1>4 DEF Reported, ReportedAs

-----------------------------------------------------------------------------
(* One worker, one item.                                                    *)

LEMMA WorkerKeepsBatch ==
  ASSUME NEW w \in Workers, Worker(w)
  PROVE  items' = items /\ cfg' = cfg /\ phase = "running" /\ phase' = "running"
  BY DEF Worker, LeaveLoop, TakeItem, CheckOutput, Prepare, PrepareFails, Panic, OpenOutput,
     FinishWrite, WriteFails, PushReport, RaiseAbort, At

LEMMA StepOneAtATime ==
  ASSUME TypeInv, OneAtATime, NEW w \in Workers, Worker(w)
  PROVE  OneAtATime'
<1>1. /\ Indices' = Indices /\ Workers' = Workers
      /\ \A v : ChunkOf(v)' = ChunkOf(v)
  BY WorkerKeepsBatch, BatchStable
<1> USE DEF Goto, At, Finish, Succeed, Fail, Busy
<1>2. ASSUME results' = results, todo' = todo, job' = job,
             \E s \in Busy \cup {"exited", "panicked"} : pc' = [pc EXCEPT ![w] = s],
             pc'[w] \in Busy => pc[w] \in Busy
      PROVE  OneAtATime'
  BY <1>1, <1>2, SameReports DEF OneAtATime, TypeInv, TypeOK
<1>3. CASE LeaveLoop(w)
  BY <1>2, <1>3 DEF LeaveLoop, TypeInv, TypeOK
<1>4. CASE TakeItem(w)
  BY <1>1, <1>4, SameReports DEF TakeItem, RestOf, OneAtATime, TypeInv, TypeOK
<1>5. CASE CheckOutput(w)
  BY <1>2, <1>5 DEF CheckOutput, TypeInv, TypeOK
<1>6. CASE Prepare(w)
  BY <1>2, <1>6 DEF Prepare, TypeInv, TypeOK
<1>7. CASE PrepareFails(w)
  BY <1>2, <1>7 DEF PrepareFails, TypeInv, TypeOK
<1>8. CASE Panic(w)
  BY <1>2, <1>8 DEF Panic, TypeInv, TypeOK
<1>9. CASE OpenOutput(w)
  BY <1>2, <1>9 DEF OpenOutput, TypeInv, TypeOK
<1>10. CASE FinishWrite(w)
  BY <1>2, <1>10 DEF FinishWrite, TypeInv, TypeOK
<1>11. CASE WriteFails(w)
  BY <1>2, <1>11 DEF WriteFails, TypeInv, TypeOK
<1>12. CASE PushReport(w)
  <2>1. \A v \in Workers : v # w => \A i \in ChunkOf(v) : i # job[w]
    BY <1>12, ChunkFacts DEF OneAtATime, PushReport
  <2>2. job[w] \notin todo[w]
    BY <1>12 DEF OneAtATime, PushReport
  <2>3. /\ todo' = todo
        /\ \A v \in Workers : v # w => pc'[v] = pc[v] /\ job'[v] = job[v]
        /\ pc'[w] \notin Busy
    BY <1>12 DEF PushReport, TypeInv, TypeOK
  <2>4. \A i : Reported(i)' <=> Reported(i) \/ i = job[w]
    BY <1>12, PushedReport
  <2>5. \A v \in Workers : \A i \in todo[v] : i \in ChunkOf(v) /\ i # job[w] /\ ~Reported(i)
    BY <2>1, <2>2 DEF OneAtATime
  <2> QED
    BY <1>1, <2>1, <2>3, <2>4, <2>5 DEF OneAtATime
<1>13. CASE RaiseAbort(w)
  BY <1>2, <1>13 DEF RaiseAbort, TypeInv, TypeOK
<1> QED
  BY <1>3, <1>4, <1>5, <1>6, <1>7, <1>8, <1>9, <1>10, <1>11, <1>12, <1>13 DEF Worker
-----------------------------------------------------------------------------
(* The output of an item nobody else writes.                                *)

LEMMA StepSoleOutput ==
  ASSUME TypeInv, OneAtATime, SoleOutput, OkMeansWritten, NEW w \in Workers, Worker(w)
  PROVE  SoleOutput' /\ OkMeansWritten'
<1>1. /\ Indices' = Indices /\ Workers' = Workers /\ cfg' = cfg
      /\ \A i : OutputOf(i)' = OutputOf(i) /\ DataOf(i)' = DataOf(i) /\ Sole(i)' = Sole(i)
  BY WorkerKeepsBatch, BatchStable
<1>2. ChunkOf(w) \subseteq Indices /\ \A v \in Workers : ChunkOf(v) \subseteq Indices
  BY ChunkFacts
\* No two workers have the same item.
<1>3. \A v \in Workers : v # w /\ pc[v] \in Busy /\ pc[w] \in Busy => job[v] # job[w]
  BY ChunkFacts DEF OneAtATime
<1> USE DEF Goto, At, Finish, Succeed, Fail, Busy
\* A step of w in process_one changes at most the output of its own item.
<1>4. ASSUME pc[w] \in Busy, results' = results, job' = job,
             \A v \in Workers : v # w => pc'[v] = pc[v] /\ outcome'[v] = outcome[v],
             \A p \in Path : p # OutputOf(job[w]) => fs'[p] = fs[p],
             Sole(job[w]) =>
               /\ pc'[w] \in {"prepare", "open"} /\ ~cfg.overwrite => fs'[OutputOf(job[w])] = "missing"
               /\ pc'[w] = "write" => fs'[OutputOf(job[w])] = "truncated"
               /\ pc'[w] = "report" /\ outcome'[w] = "ok" => fs'[OutputOf(job[w])] = DataOf(job[w])
      PROVE  SoleOutput' /\ OkMeansWritten'
  <2>1. \A i \in Indices : Sole(i) /\ i # job[w] => fs'[OutputOf(i)] = fs[OutputOf(i)]
    <3>1. \A i \in Indices : OutputOf(i) \in Path
      BY ItemFacts DEF TypeInv
    <3>2. job[w] \in Indices
      BY <1>4 DEF TypeInv
    <3> QED
      BY <1>4, <3>1, <3>2 DEF Sole
  <2>2. SoleOutput'
    <3> SUFFICES ASSUME NEW v \in Workers, pc'[v] \in Busy, Sole(job[v])
                 PROVE  /\ pc'[v] \in {"prepare", "open"} /\ ~cfg.overwrite => fs'[OutputOf(job[v])] = "missing"
                        /\ pc'[v] = "write" => fs'[OutputOf(job[v])] = "truncated"
                        /\ pc'[v] = "report" /\ outcome'[v] = "ok" => fs'[OutputOf(job[v])] = DataOf(job[v])
      BY <1>1, <1>4 DEF SoleOutput
    <3>1. CASE v = w
      BY <1>4, <3>1
    <3>2. CASE v # w
      <4>1. pc[v] \in Busy /\ job[v] \in Indices
        BY <1>4, <3>2 DEF TypeInv
      <4>2. fs'[OutputOf(job[v])] = fs[OutputOf(job[v])]
        BY <1>3, <1>4, <2>1, <3>2, <4>1
      <4> QED
        BY <1>4, <3>2, <4>1, <4>2 DEF SoleOutput
    <3> QED
      BY <3>1, <3>2
  <2>3. OkMeansWritten'
    <3>1. \A i \in Indices : ReportedAs(i, "ok") => i # job[w]
      BY <1>4 DEF OneAtATime, Reported, ReportedAs
    <3> QED
      BY <1>1, <1>4, <2>1, <3>1, SameReports DEF OkMeansWritten
  <2> QED
    BY <2>2, <2>3
\* A step outside process_one leaves the files alone.
<1>5. ASSUME fs' = fs, results' = results, pc'[w] \notin {"prepare", "open", "write", "report"},
             \A v \in Workers : v # w => pc'[v] = pc[v] /\ outcome'[v] = outcome[v] /\ job'[v] = job[v]
      PROVE  SoleOutput' /\ OkMeansWritten'
  BY <1>1, <1>5, SameReports DEF SoleOutput, OkMeansWritten
<1> USE DEF TypeInv, TypeOK
<1>6. CASE LeaveLoop(w)
  BY <1>5, <1>6 DEF LeaveLoop
<1>7. CASE TakeItem(w)
  BY <1>5, <1>7 DEF TakeItem
<1>8. CASE CheckOutput(w)
  BY <1>4, <1>8 DEF CheckOutput, Refused
<1>9. CASE Prepare(w)
  BY <1>4, <1>9 DEF Prepare, SoleOutput
<1>10. CASE PrepareFails(w)
  BY <1>4, <1>10 DEF PrepareFails
<1>11. CASE Panic(w)
  BY <1>5, <1>11 DEF Panic
<1>12. CASE OpenOutput(w)
  <2>1. OutputOf(job[w]) \in Path
    BY <1>12, ItemFacts DEF OpenOutput
  <2> QED
    BY <1>4, <1>12, <2>1 DEF OpenOutput
<1>13. CASE FinishWrite(w)
  <2>1. OutputOf(job[w]) \in Path
    BY <1>13, ItemFacts DEF FinishWrite
  <2>2. Sole(job[w]) => Written(w) = {DataOf(job[w])}
    <3>1. Sole(job[w]) => fs[OutputOf(job[w])] = "truncated"
      BY <1>13 DEF FinishWrite, SoleOutput
    <3>2. Sole(job[w]) => ~OtherWriter(w)
      BY <1>3, <1>13 DEF FinishWrite, OtherWriter, Sole
    <3> QED
      BY <3>1, <3>2 DEF Written
  <2> QED
    BY <1>4, <1>13, <2>1, <2>2 DEF FinishWrite
<1>14. CASE WriteFails(w)
  <2>1. OutputOf(job[w]) \in Path
    BY <1>14, ItemFacts DEF WriteFails
  <2> QED
    BY <1>4, <1>14, <2>1 DEF WriteFails
<1>15. CASE PushReport(w)
  <2>1. /\ fs' = fs /\ outcome' = outcome
        /\ \A v \in Workers : v # w => pc'[v] = pc[v] /\ job'[v] = job[v]
        /\ pc'[w] \notin Busy
    BY <1>15 DEF PushReport
  <2>2. SoleOutput'
    BY <1>1, <2>1 DEF SoleOutput
  <2>3. OkMeansWritten'
    <3>1. \A i : ReportedAs(i, "ok")' => ReportedAs(i, "ok") \/ (i = job[w] /\ outcome[w] = "ok")
      BY <1>15, PushedReport
    <3>2. pc[w] = "report"
      BY <1>15 DEF PushReport
    <3>3. Sole(job[w]) /\ outcome[w] = "ok" => fs[OutputOf(job[w])] = DataOf(job[w])
      BY <3>2 DEF SoleOutput
    <3> QED
      BY <1>1, <2>1, <3>1, <3>3 DEF OkMeansWritten
  <2> QED
    BY <2>2, <2>3
<1>16. CASE RaiseAbort(w)
  BY <1>5, <1>16 DEF RaiseAbort
<1> QED
  BY <1>6, <1>7, <1>8, <1>9, <1>10, <1>11, <1>12, <1>13, <1>14, <1>15, <1>16 DEF Worker
-----------------------------------------------------------------------------
(* The paths that were there before the run.                                *)

LEMMA StepPriorSpared ==
  ASSUME TypeInv, PriorSpared, NEW w \in Workers, Worker(w)
  PROVE  /\ PriorSpared'
         /\ ~cfg.overwrite => \A p \in Path : (fs[p] = "prior") = (fs'[p] = "prior")
<1>1. /\ Workers' = Workers /\ cfg' = cfg
      /\ \A i : OutputOf(i)' = OutputOf(i)
  BY WorkerKeepsBatch, BatchStable
<1>2. pc[w] \in Busy => OutputOf(job[w]) \in Path /\ DataOf(job[w]) \in Data
  BY ItemFacts DEF TypeInv
<1>3. "prior" \notin Data
  BY DataAssumption DEF FileState
<1> USE DEF Goto, At, Finish, Succeed, Fail, Busy, TypeInv, TypeOK
\* A step either keeps the files, or replaces the output of an item past its
\* check by something that was not there before the run.
<1>4. ASSUME \/ fs' = fs
             \/ /\ pc[w] \in {"open", "write"}
                /\ \E c \in Content : c # "prior" /\ fs' = [fs EXCEPT ![OutputOf(job[w])] = c],
             \A v \in Workers : v # w => pc'[v] = pc[v] /\ job'[v] = job[v],
             pc'[w] \in {"prepare", "open", "write"} =>
               /\ job'[w] = job[w] /\ pc[w] \in Busy
               /\ fs'[OutputOf(job[w])] # "prior" \/ cfg.overwrite
      PROVE  /\ PriorSpared'
             /\ ~cfg.overwrite => \A p \in Path : (fs[p] = "prior") = (fs'[p] = "prior")
  <2>1. ~cfg.overwrite => \A p \in Path : (fs[p] = "prior") = (fs'[p] = "prior")
    <3>1. CASE fs' = fs
      BY <3>1
    <3>2. CASE /\ pc[w] \in {"open", "write"}
               /\ \E c \in Content : c # "prior" /\ fs' = [fs EXCEPT ![OutputOf(job[w])] = c]
      <4>1. ~cfg.overwrite => fs[OutputOf(job[w])] # "prior"
        BY <3>2 DEF PriorSpared
      <4> QED
        BY <1>2, <3>2, <4>1
    <3> QED
      BY <1>4, <3>1, <3>2
  <2>2. PriorSpared'
    <3> SUFFICES ASSUME ~cfg.overwrite, NEW v \in Workers, pc'[v] \in {"prepare", "open", "write"}
                 PROVE  fs'[OutputOf(job'[v])] # "prior"
      BY <1>1 DEF PriorSpared
    <3>1. CASE v = w
      BY <1>4, <3>1
    <3>2. CASE v # w
      <4>1. pc[v] = pc'[v] /\ job'[v] = job[v] /\ job[v] \in Indices
        BY <1>4, <3>2
      <4>2. OutputOf(job[v]) \in Path /\ fs[OutputOf(job[v])] # "prior"
        BY <4>1, ItemFacts DEF PriorSpared
      <4> QED
        BY <2>1, <4>1, <4>2
    <3> QED
      BY <3>1, <3>2
  <2> QED
    BY <2>1, <2>2
<1>5. CASE LeaveLoop(w)
  BY <1>4, <1>5 DEF LeaveLoop
<1>6. CASE TakeItem(w)
  BY <1>4, <1>6 DEF TakeItem
<1>7. CASE CheckOutput(w)
  BY <1>4, <1>7 DEF CheckOutput, Refused
<1>8. CASE Prepare(w)
  BY <1>4, <1>8 DEF Prepare, PriorSpared
<1>9. CASE PrepareFails(w)
  BY <1>4, <1>9 DEF PrepareFails
<1>10. CASE Panic(w)
  BY <1>4, <1>10 DEF Panic
<1>11. CASE OpenOutput(w)
  BY <1>2, <1>4, <1>11 DEF OpenOutput, Content, FileState
<1>12. CASE FinishWrite(w)
  <2>1. fs[OutputOf(job[w])] # "prior" \/ cfg.overwrite
    BY <1>12 DEF FinishWrite, PriorSpared
  <2>2. pc[w] = "write" /\ pc' = [pc EXCEPT ![w] = "report"] /\ job' = job
    BY <1>12 DEF FinishWrite
  <2>3. PICK c \in Written(w) : fs' = [fs EXCEPT ![OutputOf(job[w])] = c]
    BY <1>12 DEF FinishWrite
  <2>4. c \in Content /\ (c # "prior" \/ cfg.overwrite)
    BY <1>2, <1>3, <2>1, <2>2, <2>3 DEF Written, Content, FileState
  <2>5. CASE c # "prior"
    BY <1>4, <2>2, <2>3, <2>4, <2>5
  <2>6. CASE cfg.overwrite
    BY <1>1, <2>6 DEF PriorSpared
  <2> QED
    BY <2>4, <2>5, <2>6
<1>13. CASE WriteFails(w)
  <2>1. fs[OutputOf(job[w])] # "prior" \/ cfg.overwrite
    BY <1>13 DEF WriteFails, PriorSpared
  <2>2. pc[w] = "write" /\ pc' = [pc EXCEPT ![w] = "report"] /\ job' = job
    BY <1>13 DEF WriteFails
  <2>3. PICK c \in {"garbled", fs[OutputOf(job[w])]} : fs' = [fs EXCEPT ![OutputOf(job[w])] = c]
    BY <1>13 DEF WriteFails
  <2>4. c \in Content /\ (c # "prior" \/ cfg.overwrite)
    BY <1>2, <2>1, <2>2, <2>3 DEF Content, FileState
  <2>5. CASE c # "prior"
    BY <1>4, <2>2, <2>3, <2>4, <2>5
  <2>6. CASE cfg.overwrite
    BY <1>1, <2>6 DEF PriorSpared
  <2> QED
    BY <2>4, <2>5, <2>6
<1>14. CASE PushReport(w)
  BY <1>4, <1>14 DEF PushReport
<1>15. CASE RaiseAbort(w)
  BY <1>4, <1>15 DEF RaiseAbort
<1> QED
  BY <1>5, <1>6, <1>7, <1>8, <1>9, <1>10, <1>11, <1>12, <1>13, <1>14, <1>15 DEF Worker
LEMMA StepSpares ==
  ASSUME TypeInv, OneAtATime, SoleOutput, PriorSpared, ~cfg.overwrite,
         NEW w \in Workers, Worker(w), NEW p \in Path,
         \/ fs[p] = "prior"
         \/ fs[p] \in Data /\ \A i \in Indices : OutputOf(i) = p => Sole(i)
  PROVE  fs'[p] = fs[p]
<1>1. CASE fs[p] = "prior"
  BY <1>1, StepPriorSpared
<1>2. CASE fs[p] \in Data /\ \A i \in Indices : OutputOf(i) = p => Sole(i)
  <2>1. \/ fs' = fs
        \/ /\ pc[w] \in {"open", "write"}
           /\ \E c : fs' = [fs EXCEPT ![OutputOf(job[w])] = c]
    BY DEF Worker, LeaveLoop, TakeItem, CheckOutput, Prepare, PrepareFails, Panic, OpenOutput,
       FinishWrite, WriteFails, PushReport, RaiseAbort, At
  <2>2. CASE pc[w] \in {"open", "write"} /\ OutputOf(job[w]) = p
    <3>1. job[w] \in Indices /\ Sole(job[w])
      BY <1>2, <2>2 DEF TypeInv, Busy
    <3>2. fs[p] \in {"missing", "truncated"}
      BY <2>2, <3>1 DEF SoleOutput, Busy
    <3> QED
      BY <1>2, <3>2, DataAssumption DEF FileState
  <2>3. CASE OutputOf(job[w]) # p
    BY <2>1, <2>3 DEF TypeInv, TypeOK
  <2> QED
    BY <2>1, <2>2, <2>3
<1> QED
  BY <1>1, <1>2

-----------------------------------------------------------------------------
(* No item is given up without a reason.                                    *)

LEMMA StepAccounted ==
  ASSUME TypeInv, OneAtATime, Accounted, NEW w \in Workers, Worker(w)
  PROVE  Accounted'
<1>1. /\ Indices' = Indices /\ Workers' = Workers /\ cfg' = cfg
      /\ phase = "running" /\ phase' = "running"
      /\ \A i : WorkerOf(i)' = WorkerOf(i)
  BY WorkerKeepsBatch, BatchStable
<1>2. \A i \in Indices : WorkerOf(i) \in Workers
  BY ChunkFacts
<1>3. SomeFailure => SomeFailure'
  <2>1. CASE results' = results
    BY <1>1, <2>1, SameReports DEF SomeFailure
  <2>2. CASE PushReport(w)
    BY <1>1, <2>2, PushedReport DEF SomeFailure
  <2> QED
    BY <2>1, <2>2 DEF Worker, LeaveLoop, TakeItem, CheckOutput, Prepare, PrepareFails, Panic,
       OpenOutput, FinishWrite, WriteFails, RaiseAbort
<1> USE DEF Goto, At, Finish, Succeed, Fail, Busy, TypeInv, TypeOK
\* Only the worker's own bookkeeping moves, and no item of its chunk is lost.
<1>4. ASSUME \A i : Reported(i) => Reported(i)',
             \A v \in Workers : v # w => pc'[v] = pc[v] /\ job'[v] = job[v] /\ todo'[v] = todo[v],
             abort' => abort \/ SomeFailure',
             pc'[w] = "abort" => SomeFailure',
             pc'[w] = "exited" => todo'[w] = {} \/ SomeFailure',
             \A i \in todo[w] :
               i \in todo'[w] \/ pc'[w] = "panicked" \/ (pc'[w] \in Busy /\ job'[w] = i),
             pc[w] \in Busy =>
               \/ pc'[w] \in Busy /\ job'[w] = job[w]
               \/ pc'[w] = "panicked"
               \/ \A i : i = job[w] => Reported(i)',
             pc[w] # "panicked"
      PROVE  Accounted'
  <2>1. (abort => SomeFailure)'
    BY <1>3, <1>4 DEF Accounted
  <2>2. \A v \in Workers : /\ pc'[v] = "abort" => SomeFailure'
                           /\ pc'[v] = "exited" => todo'[v] = {} \/ SomeFailure'
    BY <1>3, <1>4 DEF Accounted
  <2>3. ASSUME NEW i \in Indices
        PROVE  \/ i \in todo'[WorkerOf(i)]
               \/ pc'[WorkerOf(i)] \in Busy /\ job'[WorkerOf(i)] = i
               \/ pc'[WorkerOf(i)] = "panicked"
               \/ Reported(i)'
    <3>1. \/ i \in todo[WorkerOf(i)]
          \/ pc[WorkerOf(i)] \in Busy /\ job[WorkerOf(i)] = i
          \/ pc[WorkerOf(i)] = "panicked"
          \/ Reported(i)
      BY <1>1 DEF Accounted
    <3>2. WorkerOf(i) \in Workers
      BY <1>2
    <3>3. CASE WorkerOf(i) = w
      BY <1>4, <3>1, <3>3
    <3>4. CASE WorkerOf(i) # w
      BY <1>4, <3>1, <3>2, <3>4
    <3> QED
      BY <3>3, <3>4
  <2> QED
    BY <1>1, <2>1, <2>2, <2>3 DEF Accounted
<1>5. ASSUME results' = results PROVE \A i : Reported(i) => Reported(i)'
  BY <1>5, SameReports
<1>6. CASE LeaveLoop(w)
  BY <1>3, <1>4, <1>5, <1>6 DEF LeaveLoop, Accounted
<1>7. CASE TakeItem(w)
  BY <1>4, <1>5, <1>7 DEF TakeItem, RestOf
<1>8. CASE CheckOutput(w)
  BY <1>4, <1>5, <1>8 DEF CheckOutput
<1>9. CASE Prepare(w)
  BY <1>4, <1>5, <1>9 DEF Prepare
<1>10. CASE PrepareFails(w)
  BY <1>4, <1>5, <1>10 DEF PrepareFails
<1>11. CASE Panic(w)
  BY <1>4, <1>5, <1>11 DEF Panic
<1>12. CASE OpenOutput(w)
  BY <1>4, <1>5, <1>12 DEF OpenOutput
<1>13. CASE FinishWrite(w)
  BY <1>4, <1>5, <1>13 DEF FinishWrite
<1>14. CASE WriteFails(w)
  BY <1>4, <1>5, <1>14 DEF WriteFails
<1>15. CASE PushReport(w)
  <2>1. /\ todo' = todo /\ abort' = abort
        /\ \A v \in Workers : v # w => pc'[v] = pc[v] /\ job'[v] = job[v]
        /\ pc'[w] = IF StopsAfter(w) THEN "abort" ELSE "head"
        /\ pc[w] = "report" /\ job[w] \in Indices
    BY <1>15 DEF PushReport
  <2>2. StopsAfter(w) => SomeFailure'
    <3>1. \A i : i = job[w] /\ outcome[w] = "failed" => ReportedAs(i, "failed")'
      BY <1>15, PushedReport
    <3> QED
      BY <1>1, <2>1, <3>1 DEF SomeFailure, StopsAfter
  <2>3. \A i : Reported(i) \/ i = job[w] => Reported(i)'
    BY <1>15, PushedReport
  <2> QED
    BY <1>4, <2>1, <2>2, <2>3
<1>16. CASE RaiseAbort(w)
  BY <1>3, <1>4, <1>5, <1>16 DEF RaiseAbort, Accounted
<1> QED
  BY <1>6, <1>7, <1>8, <1>9, <1>10, <1>11, <1>12, <1>13, <1>14, <1>15, <1>16 DEF Worker

\* A report of a failure is counted.
LEMMA FailureCounted ==
  ASSUME TypeInv, NEW i, ReportedAs(i, "failed")
  PROVE  Failed > 0
<1> DEFINE F == {k \in DOMAIN results : results[k].status = "failed"}
<1>1. results \in Seq([item : Indices, status : Status])
  BY DEF TypeInv, TypeOK
<1>2. DOMAIN results = 1..Len(results) /\ Len(results) \in Nat
  BY <1>1
<1>3. IsFiniteSet(DOMAIN results)
  BY <1>2, FS_Interval
<1>4. IsFiniteSet(F)
  BY <1>3, FS_Subset
<1>5. F # {}
  BY DEF ReportedAs
<1>6. Cardinality(F) \in Nat /\ Cardinality(F) # 0
  BY <1>4, <1>5, FS_CardinalityType, FS_EmptySet
<1> QED
  BY <1>6 DEF Failed, Tally

LEMMA JoinSkipsNothing ==
  ASSUME TypeInv, Accounted, JoinWorkers
  PROVE  NothingSkippedSilently'
<1>1. /\ phase = "running" /\ UNCHANGED <<items, cfg, pc, todo, results>>
      /\ \A w \in Workers : pc[w] \in {"exited", "panicked"}
  BY DEF JoinWorkers, Joinable
<1>2. /\ Indices' = Indices /\ Workers' = Workers /\ \A i : Reported(i)' = Reported(i)
      /\ Failed' = Failed
  BY <1>1, BatchStable, SameReports DEF Failed, Tally
<1> SUFFICES ASSUME ~Panicked', NEW i \in Indices
             PROVE  Reported(i) \/ (~cfg.onErrorContinue /\ Failed > 0)
  BY <1>1, <1>2 DEF NothingSkippedSilently
<1>3. WorkerOf(i) \in Workers /\ pc[WorkerOf(i)] = "exited"
  BY <1>1, <1>2, ChunkFacts DEF Panicked
<1>4. Reported(i) \/ SomeFailure
  BY <1>1, <1>3 DEF Accounted, Busy
<1> QED
  BY <1>4, FailureCounted DEF SomeFailure

-----------------------------------------------------------------------------
(* The invariant, and what follows from it.                                 *)

LEMMA InitInv == Init => Inv
<1> SUFFICES ASSUME Init PROVE Inv
  OBVIOUS
<1>1. TypeInv
  BY InitType
<1>2. \A i : ~Reported(i) /\ \A s : ~ReportedAs(i, s)
  BY DEF Init, Reported, ReportedAs
<1>3. OneAtATime /\ SoleOutput /\ PriorSpared /\ OkMeansWritten
  BY <1>2, ChunkFacts DEF Init, OneAtATime, SoleOutput, PriorSpared, OkMeansWritten, Busy
<1>4. Accounted
  BY ChunkFacts DEF Init, Accounted
<1>5. NothingSkippedSilently
  BY DEF Init, NothingSkippedSilently
<1> QED
  BY <1>1, <1>3, <1>4, <1>5 DEF Inv

LEMMA NextInv == Inv /\ [Next]_vars => Inv'
<1> SUFFICES ASSUME Inv, [Next]_vars PROVE Inv'
  OBVIOUS
<1>1. TypeInv'
  BY NextType DEF Inv
<1>2. CASE TemplateFails
  <2>1. /\ phase = "template" /\ phase' = "done" /\ UNCHANGED <<items, cfg, fs, pc, job>>
        /\ results' = [i \in Indices |-> [item |-> i, status |-> "failed"]]
    BY <1>2 DEF TemplateFails
  <2>2. Indices' = Indices /\ Workers' = Workers /\ \A i : OutputOf(i)' = OutputOf(i)
    BY <2>1, BatchStable
  <2>3. \A i \in Indices : Reported(i)' /\ ~ReportedAs(i, "ok")'
    BY <2>1, <2>2 DEF Reported, ReportedAs
  <2>4. OkMeansWritten' /\ NothingSkippedSilently'
    BY <2>2, <2>3 DEF OkMeansWritten, NothingSkippedSilently
  <2>5. PriorSpared'
    BY <2>1, <2>2 DEF PriorSpared, Inv
  <2> QED
    BY <1>1, <2>1, <2>4, <2>5 DEF Inv
<1>3. ASSUME NEW w \in Workers, Worker(w) PROVE Inv'
  <2>1. phase = "running" /\ phase' = "running"
    BY <1>3, WorkerKeepsBatch
  <2>2. OneAtATime'
    BY <1>3, <2>1, StepOneAtATime DEF Inv
  <2>3. SoleOutput' /\ OkMeansWritten'
    BY <1>3, <2>1, StepSoleOutput DEF Inv
  <2>4. PriorSpared'
    BY <1>3, <2>1, StepPriorSpared DEF Inv
  <2>5. Accounted'
    BY <1>3, <2>1, StepAccounted DEF Inv
  <2> QED
    BY <1>1, <2>1, <2>2, <2>3, <2>4, <2>5 DEF Inv, NothingSkippedSilently
\* The other steps change neither the files nor the reports nor a worker.
<1>4. ASSUME UNCHANGED <<items, cfg, fs, pc, todo, job, outcome, results, abort>>
      PROVE  /\ PriorSpared' = PriorSpared /\ OkMeansWritten' = OkMeansWritten
             /\ OneAtATime' = OneAtATime /\ SoleOutput' = SoleOutput
             /\ phase # "done" => (Accounted => Accounted')
             /\ (phase' = phase => NothingSkippedSilently' = NothingSkippedSilently)
  <2>1. /\ Indices' = Indices /\ Workers' = Workers
        /\ \A i : OutputOf(i)' = OutputOf(i) /\ DataOf(i)' = DataOf(i) /\ Sole(i)' = Sole(i)
        /\ \A i : WorkerOf(i)' = WorkerOf(i) /\ ChunkOf(i)' = ChunkOf(i)
    BY <1>4, BatchStable
  <2>2. /\ \A i : Reported(i)' = Reported(i)
        /\ \A i, s : ReportedAs(i, s)' = ReportedAs(i, s)
    BY <1>4, SameReports
  <2>3. PriorSpared' = PriorSpared /\ OkMeansWritten' = OkMeansWritten
    BY <1>4, <2>1, <2>2 DEF PriorSpared, OkMeansWritten
  <2>4. OneAtATime' = OneAtATime /\ SoleOutput' = SoleOutput
    BY <1>4, <2>1, <2>2 DEF OneAtATime, SoleOutput
  <2>5. phase # "done" => (Accounted => Accounted')
    BY <1>4, <2>1, <2>2 DEF Accounted, SomeFailure
  <2>6. phase' = phase => NothingSkippedSilently' = NothingSkippedSilently
    BY <1>4, <2>1, <2>2 DEF NothingSkippedSilently, Panicked, Failed, Tally
  <2> QED
    BY <2>3, <2>4, <2>5, <2>6
<1>5. CASE SpawnWorkers
  BY <1>1, <1>4, <1>5 DEF SpawnWorkers, Inv, NothingSkippedSilently
<1>6. CASE JoinWorkers
  <2>1. phase = "running" /\ phase' = "done"
    BY <1>6 DEF JoinWorkers
  <2>2. NothingSkippedSilently'
    BY <1>6, <2>1, JoinSkipsNothing DEF Inv
  <2> QED
    BY <1>1, <1>4, <1>6, <2>1, <2>2 DEF JoinWorkers, Inv
<1>7. CASE UNCHANGED vars
  BY <1>1, <1>4, <1>7 DEF vars, Inv
<1> QED
  BY <1>2, <1>3, <1>5, <1>6, <1>7 DEF Next, Terminated

THEOREM Invariant == Spec => []Inv
  BY InitInv, NextInv, PTL DEF Spec

\* An "ok" in the report is a whole document at the output, for every batch,
\* every number of threads and every interleaving of them.
THEOREM ReportedIsWritten == Spec => []OkMeansWritten
<1>1. Inv => OkMeansWritten
  BY DEF Inv
<1> QED
  BY <1>1, Invariant, PTL

\* An item missing from the report has a failure, and the stop policy, to
\* blame for it.
THEOREM NothingIsSkipped == Spec => []NothingSkippedSilently
<1>1. Inv => NothingSkippedSilently
  BY DEF Inv
<1> QED
  BY <1>1, Invariant, PTL

\* Without --overwrite a run spares what was there, and what it has written.
THEOREM RunSpares == Spec => NothingClobbered
<1> DEFINE Spares == ~cfg.overwrite =>
      \A p \in Path :
        \/ fs[p] = "prior"
        \/ fs[p] \in Data /\ \A i \in Indices : OutputOf(i) = p => Sole(i)
        => fs'[p] = fs[p]
<1>1. Inv /\ [Next]_vars => [Spares]_vars
  <2> SUFFICES ASSUME Inv, Next PROVE Spares
    OBVIOUS
  <2>1. CASE fs' = fs
    BY <2>1
  <2>2. ASSUME NEW w \in Workers, Worker(w) PROVE Spares
    BY <2>2, WorkerKeepsBatch, StepSpares DEF Inv
  <2> QED
    BY <2>1, <2>2 DEF Next, TemplateFails, SpawnWorkers, JoinWorkers, Terminated, vars
<1> QED
  BY <1>1, Invariant, PTL DEF Spec, NothingClobbered
-----------------------------------------------------------------------------
(* The order of the reports, and the end of the run.                        *)

\* No item is reported twice.
Once == \A k, l \in DOMAIN results : results[k].item = results[l].item => k = l

\* Each worker's reports ascend, and come after a failure only with --on-error
\* continue ...
Ascending == \A k, l \in DOMAIN results :
  l < k /\ WorkerOf(results[l].item) = WorkerOf(results[k].item) =>
    /\ results[l].item < results[k].item
    /\ results[l].status = "ok" \/ cfg.onErrorContinue

\* ... and leave no gap behind.
Gapless == \A i \in Indices : Reported(i) =>
  \A j \in ChunkOf(WorkerOf(i)) : j < i => Reported(j)

\* A worker's item comes after all it has reported and before all it has yet to
\* take, with nothing in between.
Heading == \A w \in Workers :
  /\ \A i \in todo[w], j \in ChunkOf(w) : Reported(j) => j < i
  /\ pc[w] \in Busy =>
       /\ \A j \in ChunkOf(w) : Reported(j) <=> j < job[w]
       /\ \A i \in todo[w] : job[w] < i

\* A worker that goes on has not failed, unless failures are passed over.
Stopping == ~cfg.onErrorContinue => \A w \in Workers : pc[w] \in Busy \cup {"head"} =>
  \A k \in DOMAIN results : WorkerOf(results[k].item) = w => results[k].status = "ok"

\* A damaged output is of an item reported failed, or about to be, or still
\* being written.
Hurts(w, i) == job[w] = i /\ (pc[w] = "write" \/ (pc[w] = "report" /\ outcome[w] = "failed"))
Damaged == \A i \in Indices :
  Sole(i) /\ fs[OutputOf(i)] \in {"truncated", "garbled"} =>
    ReportedAs(i, "failed") \/ Hurts(WorkerOf(i), i)

\* Before the workers start there are no reports.
Fresh == phase = "template" => results = << >> /\ \A w \in Workers : pc[w] = "head"

RunInv == Ascending /\ Gapless /\ Heading /\ Stopping /\ Damaged /\ exit = -1 /\ Fresh

RepInv == Inv /\ Once /\ (phase # "done" => RunInv) /\ EndIsTruthful
-----------------------------------------------------------------------------
(* One worker.                                                              *)

\* What a worker does outside of taking an item and reporting it.
Quiet(w) ==
  /\ UNCHANGED <<results, todo, job>>
  /\ \A v \in Workers \ {w} : pc'[v] = pc[v] /\ outcome'[v] = outcome[v]
  /\ pc'[w] \in Busy => pc[w] \in Busy
  /\ pc'[w] # "head"

LEMMA QuietSteps ==
  ASSUME TypeInv, NEW w \in Workers, Worker(w)
  PROVE  TakeItem(w) \/ PushReport(w) \/ Quiet(w)
<1> USE DEF TypeInv, TypeOK, At, Goto, Finish, Succeed, Fail, Busy, Quiet
<1>1. CASE LeaveLoop(w)
  BY <1>1 DEF LeaveLoop
<1>2. CASE CheckOutput(w)
  BY <1>2 DEF CheckOutput
<1>3. CASE Prepare(w) \/ PrepareFails(w) \/ Panic(w)
  BY <1>3 DEF Prepare, PrepareFails, Panic
<1>4. CASE OpenOutput(w)
  BY <1>4 DEF OpenOutput
<1>5. CASE FinishWrite(w) \/ WriteFails(w)
  BY <1>5 DEF FinishWrite, WriteFails
<1>6. CASE RaiseAbort(w)
  BY <1>6 DEF RaiseAbort
<1> QED
  BY <1>1, <1>2, <1>3, <1>4, <1>5, <1>6 DEF Worker

\* What a report adds to the vector, in the slot after the last.
Slot == Len(results) + 1

LEMMA Pushed ==
  ASSUME TypeInv, NEW w \in Workers, PushReport(w)
  PROVE  /\ DOMAIN results' = DOMAIN results \cup {Slot}
         /\ Slot \in Nat /\ \A k \in DOMAIN results : k \in Nat /\ k < Slot
         /\ \A k \in DOMAIN results : results'[k] = results[k]
         /\ results'[Slot] = [item |-> job[w], status |-> outcome[w]]
         /\ pc[w] = "report" /\ todo' = todo /\ fs' = fs /\ outcome' = outcome
         /\ job' = [job EXCEPT ![w] = 0]
         /\ pc' = [pc EXCEPT ![w] = IF StopsAfter(w) THEN "abort" ELSE "head"]
         /\ \A v \in Workers \ {w} : pc'[v] = pc[v] /\ job'[v] = job[v]
<1> DEFINE n == Len(results)
           r == [item |-> job[w], status |-> outcome[w]]
<1>1. results \in Seq([item : Indices, status : Status]) /\ results' = Append(results, r)
  BY DEF TypeInv, TypeOK, PushReport
<1>2. n \in Nat /\ DOMAIN results = 1..n /\ DOMAIN results' = 1..(n + 1)
  BY <1>1
<1>3. results'[n + 1] = r /\ \A k \in 1..n : results'[k] = results[k]
  BY <1>1, <1>2
<1>4. 1..(n + 1) = 1..n \cup {n + 1} /\ \A k \in 1..n : k \in Nat /\ k < n + 1
  BY <1>2
<1>5. /\ pc[w] = "report" /\ todo' = todo /\ fs' = fs /\ outcome' = outcome
      /\ job' = [job EXCEPT ![w] = 0]
      /\ pc' = [pc EXCEPT ![w] = IF StopsAfter(w) THEN "abort" ELSE "head"]
      /\ \A v \in Workers \ {w} : pc'[v] = pc[v] /\ job'[v] = job[v]
  BY DEF PushReport, At, Goto, TypeInv, TypeOK
<1> HIDE DEF n
<1> QED
  BY <1>2, <1>3, <1>4, <1>5 DEF n, Slot

LEMMA StepOnce ==
  ASSUME TypeInv, OneAtATime, Once, NEW w \in Workers, Worker(w)
  PROVE  Once'
<1>1. CASE results' = results
  BY <1>1 DEF Once
<1>2. CASE PushReport(w)
  <2>1. \A k \in DOMAIN results : results[k].item # job[w]
    BY <1>2, Pushed DEF OneAtATime, Reported, Busy
  <2>2. /\ DOMAIN results' = DOMAIN results \cup {Slot}
        /\ \A k \in DOMAIN results : results'[k] = results[k]
        /\ results'[Slot] = [item |-> job[w], status |-> outcome[w]]
    BY <1>2, Pushed
  <2> QED
    BY <2>1, <2>2 DEF Once
<1> QED
  BY <1>1, <1>2, QuietSteps DEF Quiet, TakeItem

LEMMA StepOrder ==
  ASSUME Inv, phase # "done", Ascending, Gapless, Heading, Stopping,
         NEW w \in Workers, Worker(w)
  PROVE  Ascending' /\ Gapless' /\ Heading' /\ Stopping'
<1>0. TypeInv /\ OneAtATime /\ Accounted
  BY DEF Inv
<1>1. /\ Indices' = Indices /\ Workers' = Workers /\ cfg' = cfg
      /\ \A v : ChunkOf(v)' = ChunkOf(v)
      /\ \A i : WorkerOf(i)' = WorkerOf(i)
  BY WorkerKeepsBatch, BatchStable
<1>t. /\ pc \in [Workers -> {"head", "exists", "prepare", "open", "write", "report",
                             "abort", "exited", "panicked"}]
      /\ todo \in [Workers -> SUBSET Indices] /\ job \in [Workers -> Indices \cup {0}]
      /\ Indices \subseteq Nat
      /\ \A k \in DOMAIN results : results[k].item \in Indices
  <2>1. results \in Seq([item : Indices, status : Status])
    BY <1>0 DEF TypeInv, TypeOK
  <2>2. \A k \in DOMAIN results : results[k] \in [item : Indices, status : Status]
    <3>1. DOMAIN results = 1..Len(results)
      BY <2>1
    <3> QED
      BY <2>1, <3>1, ElementOfSeq
  <2> QED
    BY <1>0, <2>2, ItemFacts DEF TypeInv, TypeOK
<1>2. CASE Quiet(w)
  <2>1. \A i : Reported(i)' = Reported(i)
    BY <1>2, SameReports DEF Quiet
  <2>2. Ascending' /\ Gapless'
    BY <1>1, <1>2, <2>1 DEF Quiet, Ascending, Gapless
  <2>3. Heading'
    BY <1>1, <1>2, <2>1 DEF Quiet, Heading
  <2>4. Stopping'
    BY <1>1, <1>2 DEF Quiet, Stopping
  <2> QED
    BY <2>2, <2>3, <2>4
<1>3. CASE TakeItem(w)
  <2>1. PICK i \in todo[w] : /\ IsNext(i, todo[w])
                             /\ job' = [job EXCEPT ![w] = i]
                             /\ todo' = [todo EXCEPT ![w] = RestOf(w, i)]
    BY <1>3 DEF TakeItem
  <2>2. pc[w] = "head" /\ pc' = [pc EXCEPT ![w] = "exists"] /\ results' = results
    BY <1>3 DEF TakeItem, At, Goto
  <2>3. /\ job'[w] = i /\ todo'[w] = todo[w] \ {i} /\ pc'[w] = "exists"
        /\ \A v \in Workers \ {w} : job'[v] = job[v] /\ todo'[v] = todo[v] /\ pc'[v] = pc[v]
    BY <2>1, <2>2, <1>t DEF RestOf
  <2>4. \A j : Reported(j)' = Reported(j)
    BY <2>2, SameReports
  <2>5. Ascending' /\ Gapless' /\ Stopping'
    BY <1>1, <2>2, <2>3, <2>4 DEF Ascending, Gapless, Stopping, Busy
  <2>6. \A j \in ChunkOf(w) : Reported(j) <=> j < i
    <3> SUFFICES ASSUME NEW j \in ChunkOf(w) PROVE Reported(j) <=> j < i
      OBVIOUS
    <3>1. j \in Indices /\ WorkerOf(j) = w
      BY ChunkFacts
    <3>2. Reported(j) => j < i
      BY DEF Heading
    <3>3. ASSUME j < i PROVE Reported(j)
      <4>1. j \notin todo[w]
        BY <2>1, <3>1, <3>3, <1>t DEF IsNext
      <4> QED
        BY <4>1, <3>1, <2>2, <1>0 DEF Accounted, Busy
    <3> QED
      BY <3>2, <3>3
  <2>7. \A j \in todo[w] \ {i} : i < j
    BY <2>1, <1>t DEF IsNext
  <2>8. Heading'
    <3> SUFFICES ASSUME NEW v \in Workers
                 PROVE  /\ \A n \in todo'[v], j \in ChunkOf(v) : Reported(j) => j < n
                        /\ pc'[v] \in Busy =>
                             /\ \A j \in ChunkOf(v) : Reported(j) <=> j < job'[v]
                             /\ \A n \in todo'[v] : job'[v] < n
      BY <1>1, <2>4 DEF Heading
    <3>1. CASE v = w
      BY <3>1, <2>3, <2>6, <2>7 DEF Heading
    <3>2. CASE v # w
      BY <3>2, <2>3 DEF Heading
    <3> QED
      BY <3>1, <3>2
  <2> QED
    BY <2>5, <2>8
<1>4. CASE PushReport(w)
  <2> DEFINE n == Slot
  <2>1. /\ DOMAIN results' = DOMAIN results \cup {n} /\ n \in Nat
        /\ \A k \in DOMAIN results : results'[k] = results[k] /\ k \in Nat /\ k < n
        /\ results'[n] = [item |-> job[w], status |-> outcome[w]]
    BY <1>0, <1>4, Pushed
  <2>2. /\ pc[w] = "report" /\ todo' = todo
        /\ pc'[w] = IF StopsAfter(w) THEN "abort" ELSE "head"
        /\ \A v \in Workers \ {w} : pc'[v] = pc[v] /\ job'[v] = job[v]
    BY <1>0, <1>4, <1>t, Pushed
  <2> HIDE DEF n
  <2>3. job[w] \in Indices /\ job[w] \in ChunkOf(w) /\ WorkerOf(job[w]) = w
    BY <1>0, <2>2, ChunkFacts DEF OneAtATime, Busy
  <2>4. \A j \in ChunkOf(w) : Reported(j) <=> j < job[w]
    BY <2>2 DEF Heading, Busy
  <2>5. \A i : Reported(i)' <=> Reported(i) \/ i = job[w]
    BY <1>0, <1>4, PushedReport
  <2>6. \A k \in DOMAIN results : WorkerOf(results[k].item) = w =>
          /\ results[k].item < job[w]
          /\ results[k].status = "ok" \/ cfg.onErrorContinue
    <3> SUFFICES ASSUME NEW k \in DOMAIN results, WorkerOf(results[k].item) = w
                 PROVE  /\ results[k].item < job[w]
                        /\ results[k].status = "ok" \/ cfg.onErrorContinue
      OBVIOUS
    <3>1. results[k].item \in ChunkOf(w) /\ Reported(results[k].item)
      BY <1>t, ChunkFacts DEF Reported
    <3> QED
      BY <2>2, <2>4, <3>1 DEF Stopping, Busy
  <2>7. Ascending'
    <3> SUFFICES ASSUME NEW k \in DOMAIN results', NEW l \in DOMAIN results', l < k,
                        WorkerOf(results'[l].item) = WorkerOf(results'[k].item)
                 PROVE  /\ results'[l].item < results'[k].item
                        /\ results'[l].status = "ok" \/ cfg.onErrorContinue
      BY <1>1 DEF Ascending
    <3>1. CASE k = n
      <4>1. l \in DOMAIN results
        BY <3>1, <2>1
      <4> QED
        BY <3>1, <4>1, <2>1, <2>3, <2>6
    <3>2. CASE k # n
      <4>1. k \in DOMAIN results /\ l \in DOMAIN results
        BY <3>2, <2>1
      <4> QED
        BY <4>1, <2>1 DEF Ascending
    <3> QED
      BY <3>1, <3>2
  <2>8. Gapless'
    BY <1>1, <2>3, <2>4, <2>5 DEF Gapless
  <2>9. Heading'
    <3> SUFFICES ASSUME NEW v \in Workers
                 PROVE  /\ \A i \in todo[v], j \in ChunkOf(v) : Reported(j)' => j < i
                        /\ pc'[v] \in Busy =>
                             /\ \A j \in ChunkOf(v) : Reported(j)' <=> j < job'[v]
                             /\ \A i \in todo[v] : job'[v] < i
      BY <1>1, <2>2 DEF Heading
    <3>1. CASE v = w
      BY <3>1, <2>2, <2>5 DEF Heading, Busy
    <3>2. CASE v # w
      <4>1. job[w] \notin ChunkOf(v)
        BY <3>2, <2>3, ChunkFacts
      <4> QED
        BY <3>2, <4>1, <2>2, <2>5 DEF Heading
    <3> QED
      BY <3>1, <3>2
  <2>10. Stopping'
    <3> SUFFICES ASSUME ~cfg.onErrorContinue, NEW v \in Workers,
                        pc'[v] \in Busy \cup {"head"}, NEW k \in DOMAIN results',
                        WorkerOf(results'[k].item) = v
                 PROVE  results'[k].status = "ok"
      BY <1>1 DEF Stopping
    <3>1. v = w => outcome[w] = "ok"
      BY <2>2, <1>0 DEF StopsAfter, Busy, TypeInv, TypeOK, Status
    <3>2. CASE k = n
      BY <3>1, <3>2, <2>1, <2>3
    <3>3. CASE k # n
      <4>1. pc[v] \in Busy \cup {"head"}
        BY <2>2 DEF Busy
      <4> QED
        BY <3>3, <4>1, <2>1 DEF Stopping
    <3> QED
      BY <3>2, <3>3
  <2> QED
    BY <2>7, <2>8, <2>9, <2>10
<1> QED
  BY <1>0, <1>2, <1>3, <1>4, QuietSteps

\* What is wrong with an output is reported, or is still being written.
LEMMA StepDamaged ==
  ASSUME TypeInv, OneAtATime, SoleOutput, OkMeansWritten, Damaged,
         NEW w \in Workers, Worker(w)
  PROVE  Damaged'
<1>1. /\ Indices' = Indices /\ Workers' = Workers /\ cfg' = cfg
      /\ \A i : WorkerOf(i)' = WorkerOf(i) /\ OutputOf(i)' = OutputOf(i)
                /\ DataOf(i)' = DataOf(i) /\ Sole(i)' = Sole(i)
  BY WorkerKeepsBatch, BatchStable
<1>2. \A i \in Indices : WorkerOf(i) \in Workers /\ OutputOf(i) \in Path /\ DataOf(i) \in Data
  BY ChunkFacts, ItemFacts DEF TypeInv
<1>3. pc[w] \in Busy => job[w] \in Indices /\ WorkerOf(job[w]) = w
  BY ChunkFacts DEF OneAtATime
<1> USE DEF Goto, At, Finish, Succeed, Fail, Busy
\* A step that neither writes nor reports.
<1>4. ASSUME fs' = fs, results' = results, pc[w] \notin {"write", "report"},
             \A v \in Workers \ {w} : pc'[v] = pc[v] /\ outcome'[v] = outcome[v] /\ job'[v] = job[v]
      PROVE  Damaged'
  <2>1. ASSUME NEW i \in Indices, Hurts(WorkerOf(i), i) PROVE Hurts(WorkerOf(i), i)'
    BY <2>1, <1>1, <1>2, <1>4 DEF Hurts
  <2> QED
    BY <2>1, <1>1, <1>4, SameReports DEF Damaged
\* A step that writes the output of its item.
<1>5. ASSUME pc[w] \in {"open", "write"}, results' = results, job' = job,
             \A v \in Workers \ {w} : pc'[v] = pc[v] /\ outcome'[v] = outcome[v],
             \A p \in Path : p # OutputOf(job[w]) => fs'[p] = fs[p],
             \/ pc'[w] = "write"
             \/ pc'[w] = "report" /\ outcome'[w] = "failed"
             \/ Sole(job[w]) => fs'[OutputOf(job[w])] = DataOf(job[w])
      PROVE  Damaged'
  <2> SUFFICES ASSUME NEW i \in Indices, Sole(i), fs'[OutputOf(i)] \in {"truncated", "garbled"}
               PROVE  ReportedAs(i, "failed") \/ Hurts(WorkerOf(i), i)'
    BY <1>1, <1>5, SameReports DEF Damaged
  <2>1. CASE i = job[w]
    <3>1. fs'[OutputOf(i)] \notin Data
      BY DataAssumption DEF FileState
    <3> QED
      BY <2>1, <3>1, <1>1, <1>2, <1>3, <1>5 DEF Hurts
  <2>2. CASE i # job[w]
    <3>1. fs'[OutputOf(i)] = fs[OutputOf(i)]
      BY <2>2, <1>2, <1>3, <1>5 DEF Sole
    <3>2. ReportedAs(i, "failed") \/ Hurts(WorkerOf(i), i)
      BY <3>1 DEF Damaged
    <3>3. ASSUME Hurts(WorkerOf(i), i) PROVE Hurts(WorkerOf(i), i)'
      BY <2>2, <3>3, <1>1, <1>2, <1>5 DEF Hurts
    <3> QED
      BY <3>2, <3>3
  <2> QED
    BY <2>1, <2>2
<1> USE DEF TypeInv, TypeOK
<1>6. CASE LeaveLoop(w)
  BY <1>4, <1>6 DEF LeaveLoop
<1>7. CASE TakeItem(w)
  BY <1>4, <1>7 DEF TakeItem
<1>8. CASE CheckOutput(w)
  BY <1>4, <1>8 DEF CheckOutput
<1>9. CASE Prepare(w) \/ PrepareFails(w) \/ Panic(w)
  BY <1>4, <1>9 DEF Prepare, PrepareFails, Panic
<1>10. CASE RaiseAbort(w)
  BY <1>4, <1>10 DEF RaiseAbort
<1>11. CASE OpenOutput(w)
  BY <1>5, <1>11 DEF OpenOutput
<1>12. CASE WriteFails(w)
  BY <1>5, <1>12 DEF WriteFails
<1>13. CASE FinishWrite(w)
  <2>1. /\ pc[w] = "write" /\ results' = results /\ job' = job
        /\ pc'[w] = "report" /\ outcome'[w] = "ok"
        /\ \A v \in Workers \ {w} : pc'[v] = pc[v] /\ outcome'[v] = outcome[v]
        /\ \A p \in Path : p # OutputOf(job[w]) => fs'[p] = fs[p]
    BY <1>13 DEF FinishWrite
  <2>2. SoleOutput'
    BY StepSoleOutput
  <2>3. Sole(job[w]) => fs'[OutputOf(job[w])] = DataOf(job[w])
    BY <2>1, <2>2, <1>1, <1>3 DEF SoleOutput
  <2> QED
    BY <2>1, <2>3, <1>5
<1>14. CASE PushReport(w)
  <2>1. /\ fs' = fs /\ outcome' = outcome /\ pc[w] = "report"
        /\ \A v \in Workers \ {w} : pc'[v] = pc[v] /\ job'[v] = job[v]
    BY <1>14, Pushed
  <2>2. \A i, s : ReportedAs(i, s)' <=> ReportedAs(i, s) \/ (i = job[w] /\ s = outcome[w])
    BY <1>14, PushedReport
  <2>3. ASSUME NEW i \in Indices, Hurts(WorkerOf(i), i)
        PROVE  ReportedAs(i, "failed")' \/ Hurts(WorkerOf(i), i)'
    <3>1. CASE WorkerOf(i) = w
      BY <2>1, <2>2, <2>3, <3>1 DEF Hurts
    <3>2. CASE WorkerOf(i) # w
      BY <2>1, <2>3, <3>2, <1>1, <1>2 DEF Hurts
    <3> QED
      BY <3>1, <3>2
  <2> QED
    BY <2>1, <2>2, <2>3, <1>1 DEF Damaged
<1> QED
  BY <1>6, <1>7, <1>8, <1>9, <1>10, <1>11, <1>12, <1>13, <1>14 DEF Worker
-----------------------------------------------------------------------------
(* The main thread.                                                         *)

\* A tally is a number, and is not zero when the vector has such a report.
LEMMA Counted ==
  ASSUME TypeInv, NEW s
  PROVE  Tally(s) \in Nat /\ (Tally(s) > 0 <=> \E i \in Indices : ReportedAs(i, s))
<1> DEFINE F == {k \in DOMAIN results : results[k].status = s}
<1>1. results \in Seq([item : Indices, status : Status])
  BY DEF TypeInv, TypeOK
<1>2. DOMAIN results = 1..Len(results) /\ Len(results) \in Nat
  BY <1>1
<1>3. \A k \in DOMAIN results : results[k].item \in Indices
  <2>1. \A k \in DOMAIN results : results[k] \in [item : Indices, status : Status]
    BY <1>1, <1>2, ElementOfSeq
  <2> QED
    BY <2>1
<1>4. IsFiniteSet(F)
  <2>1. IsFiniteSet(DOMAIN results)
    BY <1>2, FS_Interval
  <2> QED
    BY <2>1, FS_Subset
<1>5. Cardinality(F) \in Nat /\ (Cardinality(F) = 0 <=> F = {})
  BY <1>4, FS_CardinalityType, FS_EmptySet
<1>6. F # {} <=> \E i \in Indices : ReportedAs(i, s)
  BY <1>3 DEF ReportedAs
<1>7. Tally(s) = Cardinality(F)
  BY DEF Tally
<1> HIDE DEF F
<1> QED
  BY <1>5, <1>6, <1>7

\* Reports have a status, and an item has one report.
LEMMA OneStatus ==
  ASSUME TypeInv, Once, NEW i \in Indices
  PROVE  /\ Reported(i) <=> ReportedAs(i, "ok") \/ ReportedAs(i, "failed")
         /\ ~(ReportedAs(i, "ok") /\ ReportedAs(i, "failed"))
<1>1. results \in Seq([item : Indices, status : Status])
  BY DEF TypeInv, TypeOK
<1>2. DOMAIN results = 1..Len(results)
  BY <1>1
<1>3. \A k \in DOMAIN results : results[k] \in [item : Indices, status : Status]
  BY <1>1, <1>2, ElementOfSeq
<1>4. \A k \in DOMAIN results : results[k].status \in {"ok", "failed"}
  BY <1>3 DEF Status
<1> QED
  BY <1>4 DEF Once, Reported, ReportedAs

\* Once joined, a worker that did not panic has reported its chunk, unless a
\* failure stopped the run.
LEMMA Joined ==
  ASSUME TypeInv, Accounted, JoinWorkers, NEW i \in Indices, pc[WorkerOf(i)] # "panicked"
  PROVE  Reported(i) \/ SomeFailure
<1>1. WorkerOf(i) \in Workers /\ pc[WorkerOf(i)] = "exited" /\ phase = "running"
  BY ChunkFacts DEF JoinWorkers, Joinable
<1> QED
  BY <1>1 DEF Accounted, Busy

LEMMA JoinIsTruthful ==
  ASSUME TypeInv, Accounted, Once, Damaged, JoinWorkers
  PROVE  EndIsTruthful'
<1>1. /\ UNCHANGED <<items, cfg, fs, pc, results>> /\ exit' = ExitCode
      /\ \A w \in Workers : pc[w] \in {"exited", "panicked"}
  BY DEF JoinWorkers, Joinable
<1>2. /\ Indices' = Indices /\ Workers' = Workers
      /\ \A i : OutputOf(i)' = OutputOf(i) /\ Sole(i)' = Sole(i)
      /\ \A i, s : ReportedAs(i, s)' = ReportedAs(i, s)
  BY <1>1, BatchStable, SameReports
<1>3. DamageIsReported'
  <2>1. \A i \in Indices : ~Hurts(WorkerOf(i), i)
    BY <1>1, ChunkFacts DEF Hurts
  <2> QED
    BY <2>1, <1>1, <1>2 DEF Damaged, DamageIsReported
<1>4. /\ Failed \in Nat /\ (Failed > 0 <=> \E i \in Indices : ReportedAs(i, "failed"))
      /\ Succeeded \in Nat /\ (Succeeded > 0 <=> \E i \in Indices : ReportedAs(i, "ok"))
  BY Counted DEF Failed, Succeeded
<1>5. ExitCodeTruthful'
  <2> SUFFICES ASSUME ~Panicked
               PROVE  /\ ExitCode = 0 => \A i \in Indices : ReportedAs(i, "ok")
                      /\ ExitCode = 4 => /\ \E i \in Indices : ReportedAs(i, "ok")
                                         /\ \E i \in Indices : ~ReportedAs(i, "ok")
                      /\ ExitCode = 1 => \A i \in Indices : ~ReportedAs(i, "ok")
    BY <1>1, <1>2 DEF ExitCodeTruthful, Panicked
  <2>1. CASE Failed = 0
    <3>1. ExitCode = 0
      BY <2>1 DEF ExitCode
    <3>2. ASSUME NEW i \in Indices PROVE ReportedAs(i, "ok")
      <4>1. Reported(i)
        BY <2>1, <1>4, Joined, ChunkFacts DEF Panicked, SomeFailure
      <4> QED
        BY <4>1, <2>1, <1>4, OneStatus
    <3> QED
      BY <3>1, <3>2
  <2>2. CASE Failed # 0
    <3>1. \E i \in Indices : ~ReportedAs(i, "ok")
      BY <2>2, <1>4, OneStatus
    <3>2. ExitCode = IF Succeeded > 0 THEN 4 ELSE 1
      BY <2>2 DEF ExitCode
    <3> QED
      BY <3>1, <3>2, <1>4
  <2> QED
    BY <2>1, <2>2
<1> QED
  BY <1>3, <1>5 DEF EndIsTruthful

LEMMA InitRep == Init => RepInv
<1> SUFFICES ASSUME Init PROVE RepInv
  OBVIOUS
<1>1. Inv
  BY InitInv
<1>2. results = << >> /\ \A i : ~Reported(i)
  BY DEF Init, Reported
<1>3. \A i \in Indices : fs[OutputOf(i)] \in {"missing", "prior"}
  BY <1>1, PriorAssumption, ItemFacts DEF Init, Inv, TypeInv
<1>4. Once /\ Ascending /\ Gapless /\ Stopping /\ Damaged
  BY <1>2, <1>3 DEF Once, Ascending, Gapless, Stopping, Damaged
<1>5. Heading /\ Fresh /\ exit = -1
  BY <1>2 DEF Init, Heading, Busy, Fresh
<1> QED
  BY <1>1, <1>4, <1>5 DEF RepInv, RunInv, EndIsTruthful, Init

\* Nothing but the phase and the exit code moves.
LEMMA SameReporting ==
  ASSUME UNCHANGED <<items, cfg, fs, pc, todo, job, outcome, results>>
  PROVE  /\ Once' = Once /\ Ascending' = Ascending /\ Gapless' = Gapless
         /\ Heading' = Heading /\ Stopping' = Stopping /\ Damaged' = Damaged
         /\ DamageIsReported' = DamageIsReported
         /\ exit' = exit => ExitCodeTruthful' = ExitCodeTruthful
<1>1. /\ Indices' = Indices /\ Workers' = Workers
      /\ \A i : OutputOf(i)' = OutputOf(i) /\ Sole(i)' = Sole(i)
      /\ \A i : WorkerOf(i)' = WorkerOf(i) /\ ChunkOf(i)' = ChunkOf(i)
  BY BatchStable
<1>2. /\ \A i : Reported(i)' = Reported(i)
      /\ \A i, s : ReportedAs(i, s)' = ReportedAs(i, s)
  BY SameReports
<1>3. Once' = Once /\ Ascending' = Ascending /\ Gapless' = Gapless
  BY <1>1, <1>2 DEF Once, Ascending, Gapless
<1>4. Heading' = Heading /\ Stopping' = Stopping
  BY <1>1, <1>2 DEF Heading, Stopping
<1>5. Damaged' = Damaged /\ DamageIsReported' = DamageIsReported
  BY <1>1, <1>2 DEF Damaged, DamageIsReported, Hurts
<1>6. exit' = exit => ExitCodeTruthful' = ExitCodeTruthful
  BY <1>1, <1>2 DEF ExitCodeTruthful, Panicked
<1> QED
  BY <1>3, <1>4, <1>5, <1>6

LEMMA NextRep == RepInv /\ [Next]_vars => RepInv'
<1> SUFFICES ASSUME RepInv, [Next]_vars PROVE RepInv'
  OBVIOUS
<1>1. Inv'
  BY NextInv DEF RepInv
<1>2. CASE TemplateFails
  <2>1. /\ phase' = "done" /\ UNCHANGED <<items, fs, pc>> /\ exit' = 1
        /\ results' = [i \in Indices |-> [item |-> i, status |-> "failed"]]
    BY <1>2 DEF TemplateFails
  <2>2. Indices' = Indices
    BY <2>1 DEF Indices
  <2>3. Once' /\ \A i \in Indices : ReportedAs(i, "failed")' /\ ~ReportedAs(i, "ok")'
    BY <2>1 DEF Once, ReportedAs
  <2>4. EndIsTruthful'
    BY <2>1, <2>2, <2>3 DEF EndIsTruthful, DamageIsReported, ExitCodeTruthful
  <2> QED
    BY <1>1, <2>1, <2>3, <2>4 DEF RepInv
<1>3. ASSUME NEW w \in Workers, Worker(w) PROVE RepInv'
  <2>1. phase = "running" /\ phase' = "running"
    BY <1>3, WorkerKeepsBatch
  <2>2. Once'
    BY <1>3, <2>1, StepOnce DEF RepInv, Inv
  <2>3. Ascending' /\ Gapless' /\ Heading' /\ Stopping'
    BY <1>3, <2>1, StepOrder DEF RepInv, RunInv
  <2>4. Damaged'
    BY <1>3, <2>1, StepDamaged DEF RepInv, RunInv, Inv
  <2>5. exit' = exit
    BY <1>3 DEF Worker, LeaveLoop, TakeItem, CheckOutput, Prepare, PrepareFails, Panic,
       OpenOutput, FinishWrite, WriteFails, PushReport, RaiseAbort
  <2> QED
    BY <1>1, <2>1, <2>2, <2>3, <2>4, <2>5 DEF RepInv, RunInv, Fresh, EndIsTruthful
<1>4. CASE SpawnWorkers
  <2>1. /\ UNCHANGED <<items, cfg, fs, pc, todo, job, outcome, results, exit>>
        /\ phase = "template" /\ phase' = "running"
    BY <1>4 DEF SpawnWorkers
  <2> QED
    BY <1>1, <2>1, SameReporting DEF RepInv, RunInv, Fresh, EndIsTruthful
<1>5. CASE JoinWorkers
  <2>1. /\ UNCHANGED <<items, cfg, fs, pc, todo, job, outcome, results>>
        /\ phase = "running" /\ phase' = "done"
    BY <1>5 DEF JoinWorkers
  <2>2. EndIsTruthful'
    BY <1>5, <2>1, JoinIsTruthful DEF RepInv, RunInv, Inv
  <2> QED
    BY <1>1, <2>1, <2>2, SameReporting DEF RepInv
<1>6. CASE UNCHANGED vars
  <2>1. UNCHANGED <<items, cfg, phase, fs, pc, todo, job, outcome, results, exit>>
    BY <1>6 DEF vars
  <2>2. Fresh' = Fresh
    <3>1. Workers' = Workers
      BY <2>1, BatchStable
    <3> QED
      BY <2>1, <3>1 DEF Fresh
  <2> QED
    BY <1>1, <2>1, <2>2, SameReporting DEF RepInv, RunInv, EndIsTruthful
<1> QED
  BY <1>2, <1>3, <1>4, <1>5, <1>6 DEF Next, Terminated

THEOREM Reporting == Spec => []RepInv
  BY InitRep, NextRep, PTL DEF Spec

\* However the pushes of the workers interleave, each worker's reports are its
\* chunk from the front, without a gap, up to its first failure.
THEOREM FollowsChunks == Spec => []ReportsFollowChunks
<1>1. RepInv => ReportsFollowChunks
  <2> SUFFICES ASSUME RepInv, phase = "running", NEW k \in DOMAIN results
               PROVE  LET mine == {l \in DOMAIN results :
                                     WorkerOf(results[l].item) = WorkerOf(results[k].item)}
                      IN /\ \A l \in mine : l < k =>
                              /\ results[l].item < results[k].item
                              /\ results[l].status = "ok" \/ cfg.onErrorContinue
                         /\ \A i \in ChunkOf(WorkerOf(results[k].item)) :
                              i < results[k].item => \E l \in mine : results[l].item = i
    BY DEF ReportsFollowChunks
  <2>1. results[k].item \in Indices
    <3>1. results \in Seq([item : Indices, status : Status])
      BY DEF RepInv, Inv, TypeInv, TypeOK
    <3>2. results[k] \in [item : Indices, status : Status]
      <4>1. DOMAIN results = 1..Len(results)
        BY <3>1
      <4> QED
        BY <3>1, <4>1, ElementOfSeq
    <3> QED
      BY <3>2
  <2>2. ASSUME NEW i \in ChunkOf(WorkerOf(results[k].item)), i < results[k].item
        PROVE  \E l \in DOMAIN results :
                 /\ WorkerOf(results[l].item) = WorkerOf(results[k].item)
                 /\ results[l].item = i
    <3>1. WorkerOf(i) = WorkerOf(results[k].item)
      BY DEF ChunkOf
    <3>2. Reported(i)
      BY <2>1, <2>2 DEF RepInv, RunInv, Gapless, Reported
    <3> QED
      BY <3>1, <3>2 DEF Reported
  <2> QED
    BY <2>2 DEF RepInv, RunInv, Ascending
<1> QED
  BY <1>1, Reporting, PTL

\* At the end of a run the report names every damaged output, and the exit
\* code sums the report up.
THEOREM EndTruthful == Spec => []EndIsTruthful
<1>1. RepInv => EndIsTruthful
  BY DEF RepInv
<1> QED
  BY <1>1, Reporting, PTL
-----------------------------------------------------------------------------
(* The run implements BatchPromise.                                         *)

Having(v) == {i \in Indices : VerdictOf(i) = v}

LEMMA PromiseTerms ==
  /\ Promise!All = Indices
  /\ \A v : Promise!With(v) = Having(v)
  BY DEF Promise!All, Promise!With, Having, Verdicts

\* The verdict of an item with reports of one status.
LEMMA VerdictFacts ==
  ASSUME TypeInv, Once, NEW i \in Indices
  PROVE  /\ VerdictOf(i) = "ok" <=> ReportedAs(i, "ok")
         /\ VerdictOf(i) = "failed" <=> ReportedAs(i, "failed")
         /\ VerdictOf(i) = "open" <=> ~Reported(i) /\ pc[WorkerOf(i)] # "panicked"
         /\ VerdictOf(i) = "lost" <=> ~Reported(i) /\ pc[WorkerOf(i)] = "panicked"
  BY OneStatus DEF VerdictOf

LEMMA InitPromise == Init => Promise!Init
<1> SUFFICES ASSUME Init PROVE Promise!Init
  OBVIOUS
<1>1. TypeInv
  BY InitType
<1>2. \A i \in Indices : VerdictOf(i) = "open"
  BY ChunkFacts DEF Init, VerdictOf, ReportedAs
<1>3. Verdicts \in Seq({"open"})
  <2>1. Indices = 1..Len(items) /\ Len(items) \in Nat
    BY <1>1, ItemFacts DEF TypeInv
  <2>2. Verdicts \in [1..Len(items) -> {"open"}]
    BY <1>2, <2>1 DEF Verdicts
  <2> QED
    BY <2>1, <2>2, SeqDef
<1> QED
  BY <1>3, ConfigsAssumption DEF Promise!Init, Verdicts, Init, Config

LEMMA CondemnMaps ==
  ASSUME RepInv, TemplateFails
  PROVE  Promise!Condemn
<1>1. /\ phase = "template" /\ UNCHANGED <<items, cfg, pc>> /\ exit' = 1
      /\ results' = [i \in Indices |-> [item |-> i, status |-> "failed"]]
  BY DEF TemplateFails
<1>2. results = << >> /\ exit = -1 /\ \A w \in Workers : pc[w] = "head"
  BY <1>1 DEF RepInv, RunInv, Fresh
<1>3. Having("open") = Indices
  BY <1>2, ChunkFacts DEF Having, VerdictOf, ReportedAs
<1>4. Indices' = Indices
  BY <1>1 DEF Indices
<1>5. Verdicts' = [i \in Indices |-> "failed"]
  BY <1>1, <1>4 DEF Verdicts, VerdictOf, ReportedAs
<1> QED
  BY <1>1, <1>2, <1>3, <1>5, PromiseTerms DEF Promise!Condemn, Verdicts

\* No verdict moves when neither the vector nor the dead threads do.
LEMMA SameVerdicts ==
  ASSUME UNCHANGED <<items, cfg, results>>,
         \A w \in Workers : pc'[w] = "panicked" <=> pc[w] = "panicked"
  PROVE  Verdicts' = Verdicts
<1>1. Indices' = Indices /\ \A i : WorkerOf(i)' = WorkerOf(i)
  BY BatchStable
<1>2. \A i \in Indices : VerdictOf(i)' = VerdictOf(i)
  BY <1>1, SameReports, ChunkFacts DEF VerdictOf
<1> QED
  BY <1>1, <1>2 DEF Verdicts

LEMMA CloseMaps ==
  ASSUME RepInv, JoinWorkers, ~Panicked
  PROVE  Promise!Close
<1>1. /\ phase = "running" /\ UNCHANGED <<items, cfg, pc, results>> /\ exit' = ExitCode
      /\ TypeInv /\ Once /\ Accounted /\ exit = -1
  BY DEF JoinWorkers, RepInv, RunInv, Inv
<1>2. \A i \in Indices :
        /\ VerdictOf(i) = "ok" <=> ReportedAs(i, "ok")
        /\ VerdictOf(i) = "failed" <=> ReportedAs(i, "failed")
        /\ VerdictOf(i) = "open" => ~Reported(i) /\ pc[WorkerOf(i)] # "panicked"
        /\ VerdictOf(i) \in {"ok", "failed", "open"}
  BY <1>1, VerdictFacts, ChunkFacts DEF Panicked, VerdictOf
<1>3. Having("open") # {} => ~cfg.onErrorContinue /\ Having("failed") # {}
  BY <1>1, <1>2, Joined DEF Having, SomeFailure
<1>4. /\ Failed \in Nat /\ (Failed > 0 <=> \E i \in Indices : ReportedAs(i, "failed"))
      /\ Succeeded \in Nat /\ (Succeeded > 0 <=> \E i \in Indices : ReportedAs(i, "ok"))
  BY <1>1, Counted DEF Failed, Succeeded
<1>5. (Failed = 0 <=> Having("failed") = {}) /\ (Succeeded > 0 <=> Having("ok") # {})
  BY <1>2, <1>4 DEF Having
<1>6. Having("failed") = {} <=> Having("ok") = Indices
  <2>1. ASSUME Having("failed") = {} PROVE Having("ok") = Indices
    <3>1. Having("open") = {}
      BY <1>3, <2>1
    <3> QED
      BY <1>2, <2>1, <3>1 DEF Having
  <2>2. ASSUME Having("ok") = Indices PROVE Having("failed") = {}
    BY <2>2 DEF Having
  <2> QED
    BY <2>1, <2>2
<1>8. exit' = IF Having("ok") = Indices THEN 0 ELSE IF Having("ok") # {} THEN 4 ELSE 1
  BY <1>1, <1>5, <1>6 DEF ExitCode
<1>7. Verdicts' = Verdicts
  BY <1>1, SameVerdicts
<1> QED
  BY <1>1, <1>3, <1>7, <1>8, PromiseTerms DEF Promise!Close, Verdicts

\* After a panic the verdicts stay as they are when the run ends.
LEMMA PanickedEnds ==
  ASSUME RepInv, JoinWorkers, Panicked
  PROVE  EndsUnderPanic
<1>1. /\ UNCHANGED <<items, cfg, pc, results>> /\ exit' = ExitCode /\ exit = -1
  BY DEF JoinWorkers, RepInv, RunInv, Inv
<1>2. exit' # -1
  BY <1>1 DEF ExitCode
<1>3. Verdicts' = Verdicts
  BY <1>1, SameVerdicts
<1> QED
  BY <1>1, <1>2, <1>3 DEF EndsUnderPanic

LEMMA DecideMaps ==
  ASSUME RepInv, NEW w \in Workers, PushReport(w)
  PROVE  Promise!Decide
<1>1. /\ UNCHANGED <<items, cfg, exit>> /\ phase = "running"
      /\ TypeInv /\ Once /\ OneAtATime /\ exit = -1
  BY DEF PushReport, At, RepInv, RunInv, Inv
<1>2. /\ pc[w] = "report" /\ outcome' = outcome
      /\ pc' = [pc EXCEPT ![w] = IF StopsAfter(w) THEN "abort" ELSE "head"]
  BY <1>1, Pushed
<1>3. \A v \in Workers : pc'[v] = "panicked" <=> pc[v] = "panicked"
  BY <1>1, <1>2 DEF TypeInv, TypeOK
<1>4. /\ job[w] \in Indices /\ WorkerOf(job[w]) = w /\ ~Reported(job[w])
      /\ outcome[w] \in {"ok", "failed"}
  BY <1>1, <1>2, ChunkFacts DEF OneAtATime, Busy, TypeInv, TypeOK, Status
<1>5. Indices' = Indices /\ \A i : WorkerOf(i)' = WorkerOf(i)
  BY <1>1, BatchStable
<1>6. \A i, s : ReportedAs(i, s)' <=> ReportedAs(i, s) \/ (i = job[w] /\ s = outcome[w])
  BY <1>1, PushedReport
<1>7. VerdictOf(job[w]) = "open"
  BY <1>1, <1>2, <1>4, VerdictFacts
<1>8. ASSUME NEW i \in Indices
      PROVE  VerdictOf(i)' = IF i = job[w] THEN outcome[w] ELSE VerdictOf(i)
  <2>1. CASE i = job[w]
    <3>1. ~ReportedAs(i, "ok") /\ ~ReportedAs(i, "failed")
      BY <2>1, <1>4 DEF Reported, ReportedAs
    <3> QED
      BY <2>1, <3>1, <1>4, <1>6 DEF VerdictOf
  <2>2. CASE i # job[w]
    <3>1. WorkerOf(i) \in Workers
      BY ChunkFacts
    <3> QED
      BY <2>2, <3>1, <1>3, <1>5, <1>6 DEF VerdictOf
  <2> QED
    BY <2>1, <2>2
<1>9. Verdicts' = [Verdicts EXCEPT ![job[w]] = outcome[w]]
  BY <1>4, <1>5, <1>8 DEF Verdicts
<1>10. job[w] \in Promise!With("open")
  BY <1>4, <1>7, PromiseTerms DEF Having
<1> QED
  BY <1>1, <1>4, <1>9, <1>10 DEF Promise!Decide, Verdicts

LEMMA LoseMaps ==
  ASSUME RepInv, NEW w \in Workers, Panic(w)
  PROVE  Promise!Lose
<1> DEFINE S == {i \in Indices : WorkerOf(i) = w /\ ~Reported(i)}
<1>1. /\ UNCHANGED <<items, cfg, exit, results>> /\ phase = "running"
      /\ TypeInv /\ Once /\ exit = -1
      /\ pc[w] = "prepare" /\ pc' = [pc EXCEPT ![w] = "panicked"]
  BY DEF Panic, At, Goto, RepInv, RunInv, Inv
<1>2. Indices' = Indices /\ \A i : WorkerOf(i)' = WorkerOf(i)
  BY <1>1, BatchStable
<1>3. pc'[w] = "panicked" /\ \A v \in Workers \ {w} : pc'[v] = pc[v]
  BY <1>1 DEF TypeInv, TypeOK
<1>4. S \subseteq Having("open")
  BY <1>1, VerdictFacts DEF Having
<1>5. ASSUME NEW i \in Indices
      PROVE  VerdictOf(i)' = IF i \in S THEN "lost" ELSE VerdictOf(i)
  <2>1. \A s : ReportedAs(i, s)' = ReportedAs(i, s)
    BY <1>1, SameReports
  <2>2. Reported(i) <=> ReportedAs(i, "ok") \/ ReportedAs(i, "failed")
    BY <1>1, OneStatus
  <2>3. WorkerOf(i) \in Workers
    BY ChunkFacts
  <2> QED
    BY <2>1, <2>2, <2>3, <1>2, <1>3 DEF VerdictOf
<1>6. Verdicts' = [i \in Indices |-> IF i \in S THEN "lost" ELSE Verdicts[i]]
  BY <1>2, <1>5 DEF Verdicts
<1>7. S \in SUBSET Promise!With("open")
  BY <1>4, PromiseTerms
<1> HIDE DEF S
<1> QED
  BY <1>1, <1>6, <1>7, PromiseTerms DEF Promise!Lose, Verdicts

LEMMA StepPromise ==
  RepInv /\ [Next]_vars => [Promise!Next \/ EndsUnderPanic]_(Promise!promiseVars)
<1> SUFFICES ASSUME RepInv, [Next]_vars
             PROVE  [Promise!Next \/ EndsUnderPanic]_(Promise!promiseVars)
  OBVIOUS
<1> USE DEF Promise!Next
<1>1. CASE TemplateFails
  BY <1>1, CondemnMaps
<1>2. CASE JoinWorkers
  BY <1>2, CloseMaps, PanickedEnds
<1>3. ASSUME UNCHANGED <<items, cfg, results, exit>>,
             \A w \in Workers : pc'[w] = "panicked" <=> pc[w] = "panicked"
      PROVE  UNCHANGED Promise!promiseVars
  BY <1>3, SameVerdicts DEF Promise!promiseVars, Verdicts
<1>4. CASE SpawnWorkers \/ UNCHANGED vars
  BY <1>3, <1>4 DEF SpawnWorkers, vars
<1>5. ASSUME NEW w \in Workers, Worker(w) PROVE [Promise!Next \/ EndsUnderPanic]_(Promise!promiseVars)
  <2>1. CASE PushReport(w)
    BY <2>1, DecideMaps
  <2>2. CASE Panic(w)
    BY <2>2, LoseMaps
  <2>3. CASE ~PushReport(w) /\ ~Panic(w)
    <3>1. /\ UNCHANGED <<items, cfg, results, exit>>
          /\ \A v \in Workers : pc'[v] = "panicked" <=> pc[v] = "panicked"
      BY <1>5, <2>3 DEF Worker, LeaveLoop, TakeItem, CheckOutput, Prepare, PrepareFails,
         OpenOutput, FinishWrite, WriteFails, RaiseAbort, At, Goto, Finish, Succeed, Fail,
         RepInv, Inv, TypeInv, TypeOK
    <3> QED
      BY <1>3, <3>1
  <2> QED
    BY <2>1, <2>2, <2>3
<1> QED
  BY <1>1, <1>2, <1>4, <1>5 DEF Next, Terminated

\* The runner implements the promise: one verdict per item, never revised, and
\* one exit code drawn from them, 0 only if every item is written, unless a thread
\* panicked (batch.rs:68-180).
THEOREM PromiseHolds == Spec => PromiseKept
  BY InitPromise, StepPromise, Reporting, PTL DEF Spec, PromiseKept
-----------------------------------------------------------------------------
(* The Job.                                                                 *)

\* A Job that goes on has not used up its back-off limit, and a pod runs only
\* for a Job that goes on.
PodsCounted ==
  /\ jobState = "active" => pods \in 0 .. BackoffLimit
  /\ pod # "none" => jobState = "active"

JobTypeInv == JobTypeOK /\ PodsCounted

\* A pod reports and exits only when it has settled every input.
SettledFirst ==
  pod \in {"reporting", "exiting"} => \A i \in Inputs : item[i] \in Settled

\* In the pod that wrote it, what is ok is whole.
OkIsWhole == \A i \in Inputs : item[i] = "ok" => out[i] = "whole"

\* Only to-json skips.  In the first pod there is nothing to skip: an output
\* exists only for an input whose turn came, and before that pod none did.
NoSkip ==
  /\ mode = "fill" => \A i \in Inputs : item[i] # "skipped"
  /\ pods = 0 => \A i \in Inputs :
       /\ item[i] # "skipped"
       /\ item[i] = "waiting" => out[i] = "missing"
       /\ pod = "none" /\ jobState = "active" => item[i] = "waiting"

JobInv ==
  /\ JobTypeInv
  /\ SettledFirst
  /\ OkIsWhole
  /\ NoSkip
  /\ ReportOkIsWhole
  /\ CompleteIsWhole
-----------------------------------------------------------------------------
(* Types.                                                                   *)

LEMMA JobInitType == JobInit => JobTypeInv
  BY JobAssumption DEF JobInit, JobTypeInv, JobTypeOK, PodsCounted

LEMMA JobNextType == JobTypeInv /\ [JobNext]_jobVars => JobTypeInv'
<1> SUFFICES ASSUME JobTypeInv, [JobNext]_jobVars PROVE JobTypeInv'
  OBVIOUS
<1> USE JobAssumption DEF JobTypeInv, JobTypeOK, PodsCounted, Settled, given, Transient, Becomes
<1>1. CASE StartPod
  BY <1>1 DEF StartPod
<1>2. CASE Prepared
  BY <1>2 DEF Prepared
<1>3. CASE NotPrepared
  BY <1>3 DEF NotPrepared
<1>4. CASE ItemsDone
  BY <1>4 DEF ItemsDone
<1>5. CASE WriteReport
  BY <1>5 DEF WriteReport, Listed, Unreported
<1>6. CASE PodExits
  BY <1>6 DEF PodExits, PodFailed, GoesOn
<1>7. CASE Killed
  BY <1>7 DEF Killed, PodFailed, GoesOn, Unreported
<1>8. ASSUME NEW i \in Inputs,
             Refuse(i) \/ ItemFails(i) \/ ItemPanics(i) \/ StartOutput(i) \/ FinishOutput(i) \/ OutputFails(i)
      PROVE  JobTypeInv'
  <2>1. CASE Refuse(i)
    BY <2>1 DEF Refuse, Takes
  <2>2. CASE ItemFails(i)
    BY <2>2 DEF ItemFails, Takes
  <2>3. CASE ItemPanics(i)
    BY <2>3 DEF ItemPanics, Takes
  <2>4. CASE StartOutput(i)
    BY <2>4 DEF StartOutput, Takes
  <2>5. CASE FinishOutput(i)
    BY <2>5 DEF FinishOutput
  <2>6. CASE OutputFails(i)
    BY <2>6 DEF OutputFails
  <2> QED
    BY <1>8, <2>1, <2>2, <2>3, <2>4, <2>5, <2>6
<1>9. CASE Over \/ UNCHANGED jobVars
  BY <1>9 DEF Over, jobVars
<1> QED
  BY <1>1, <1>2, <1>3, <1>4, <1>5, <1>6, <1>7, <1>8, <1>9 DEF JobNext, Step

\* Every reachable state of a Job is well typed; above all its pods stay within
\* the back-off limit.
THEOREM JobTypes == JobSpec => []JobTypeOK
  BY JobInitType, JobNextType, PTL DEF JobSpec, JobTypeInv
-----------------------------------------------------------------------------
(* The volume and the report.                                               *)

LEMMA JobInitInv == JobInit => JobInv
<1> SUFFICES ASSUME JobInit PROVE JobInv
  OBVIOUS
<1>1. JobTypeInv
  BY JobInitType
<1> QED
  BY <1>1 DEF JobInit, JobInv, SettledFirst, OkIsWhole, NoSkip, ReportOkIsWhole, CompleteIsWhole

LEMMA JobNextInv == JobInv /\ [JobNext]_jobVars => JobInv'
<1> SUFFICES ASSUME JobInv, [JobNext]_jobVars PROVE JobInv'
  OBVIOUS
<1>0. JobTypeInv'
  BY JobNextType DEF JobInv
<1> USE <1>0, JobAssumption
    DEF JobInv, JobTypeInv, JobTypeOK, PodsCounted, SettledFirst, OkIsWhole, NoSkip, ReportOkIsWhole,
        CompleteIsWhole, Settled, given, Transient, Becomes
<1>1. CASE StartPod
  BY <1>1 DEF StartPod
<1>2. CASE Prepared
  BY <1>2 DEF Prepared
<1>3. CASE NotPrepared
  BY <1>3 DEF NotPrepared
<1>4. CASE ItemsDone
  BY <1>4 DEF ItemsDone, AllSettled
<1>5. CASE WriteReport
  BY <1>5 DEF WriteReport, Listed, Unreported
<1>6. CASE PodExits
  <2>1. CASE PodExitCode = 0
    <3>1. \A i \in Inputs : item[i] # "failed"
      BY <2>1 DEF PodExitCode, Some
    <3> QED
      BY <1>6, <2>1, <3>1 DEF PodExits
  <2>2. CASE PodExitCode # 0
    BY <1>6, <2>2 DEF PodExits, PodFailed, GoesOn
  <2> QED
    BY <2>1, <2>2
<1>7. CASE Killed
  BY <1>7 DEF Killed, PodFailed, GoesOn, Unreported
<1>8. ASSUME NEW i \in Inputs,
             Refuse(i) \/ ItemFails(i) \/ ItemPanics(i) \/ StartOutput(i) \/ FinishOutput(i) \/ OutputFails(i)
      PROVE  JobInv'
  <2>1. CASE Refuse(i)
    BY <2>1 DEF Refuse, Takes, Taken
  <2>2. CASE ItemFails(i)
    BY <2>2 DEF ItemFails, Takes
  <2>3. CASE ItemPanics(i)
    BY <2>3 DEF ItemPanics, Takes
  <2>4. CASE StartOutput(i)
    BY <2>4 DEF StartOutput, Takes, Taken
  <2>5. CASE FinishOutput(i)
    BY <2>5 DEF FinishOutput
  <2>6. CASE OutputFails(i)
    BY <2>6 DEF OutputFails
  <2> QED
    BY <1>8, <2>1, <2>2, <2>3, <2>4, <2>5, <2>6
<1>9. CASE Over \/ UNCHANGED jobVars
  BY <1>9 DEF Over, jobVars
<1> QED
  BY <1>1, <1>2, <1>3, <1>4, <1>5, <1>6, <1>7, <1>8, <1>9 DEF JobNext, Step

THEOREM JobInvariant == JobSpec => []JobInv
  BY JobInitInv, JobNextInv, PTL DEF JobSpec

\* Without --overwrite the report on the volume calls no output ok that is not
\* whole, through any number of retries (main.rs:103-112).
THEOREM ReportIsTrue == JobSpec => []ReportOkIsWhole
<1>1. JobInv => ReportOkIsWhole
  BY DEF JobInv
<1> QED
  BY <1>1, JobInvariant, PTL

\* A completed fill Job has every output whole but those of a panicked thread,
\* and so has a to-json Job that needed one pod (batch.rs:190,
\* service/mod.rs:125).
THEOREM CompleteJobIsWhole == JobSpec => []CompleteIsWhole
<1>1. JobInv => CompleteIsWhole
  BY DEF JobInv
<1> QED
  BY <1>1, JobInvariant, PTL

\* Without --overwrite no retry damages a whole document (batch.rs:190,
\* service/mod.rs:30).
THEOREM RetriesSpare == JobSpec => WholeStays
<1> DEFINE Spares == ~overwrite => \A i \in Inputs : out[i] = "whole" => out'[i] = "whole"
<1>1. JobTypeOK /\ [JobNext]_jobVars => [Spares]_jobVars
  <2> SUFFICES ASSUME JobTypeOK, JobNext PROVE Spares
    BY DEF jobVars
  <2>1. CASE out' = out
    BY <2>1
  <2>2. ASSUME NEW i \in Inputs, StartOutput(i) PROVE Spares
    BY <2>2 DEF StartOutput, Taken, JobTypeOK
  <2>3. ASSUME NEW i \in Inputs, FinishOutput(i) PROVE Spares
    BY <2>3 DEF FinishOutput, JobTypeOK
  <2> QED
    BY <2>1, <2>2, <2>3 DEF JobNext, Step, StartPod, Prepared, NotPrepared, ItemsDone, WriteReport,
       PodExits, Killed, Over, jobVars, Refuse, ItemFails, ItemPanics, OutputFails
<1> QED
  BY <1>1, JobTypes, PTL DEF JobSpec, WholeStays
-----------------------------------------------------------------------------
(* The retries heal.                                                        *)

\* Every failed pod met trouble of its own, and so did the one that is running
\* if it has a failed item: no input is hopeless and no output is refused.
Healing ==
  /\ jobState = "failed" => pods > BackoffLimit
  /\ overwrite /\ hopeless = {} =>
       /\ trouble >= pods
       /\ pod # "none" /\ Some("failed") => trouble > pods

LEMMA NextHealing == JobTypeInv /\ Healing /\ [JobNext]_jobVars => Healing'
<1> SUFFICES ASSUME JobTypeInv, Healing, [JobNext]_jobVars PROVE Healing'
  OBVIOUS
<1>t. /\ pods \in Nat /\ trouble \in Nat /\ BackoffLimit \in Nat
      /\ item \in [Inputs -> {"waiting", "open"} \cup Settled]
  BY JobAssumption DEF JobTypeInv, JobTypeOK
<1> USE <1>t DEF Healing, Some, Transient, Becomes, given
<1>1. CASE StartPod
  BY <1>1 DEF StartPod
<1>2. CASE Prepared \/ ItemsDone
  BY <1>2 DEF Prepared, ItemsDone
<1>3. CASE NotPrepared
  BY <1>3 DEF NotPrepared
<1>4. CASE WriteReport
  BY <1>4 DEF WriteReport
<1>5. CASE PodExits
  <2>1. CASE PodExitCode = 0
    BY <1>5, <2>1 DEF PodExits
  <2>2. CASE PodExitCode # 0
    <3>1. Some("failed")
      BY <2>2 DEF PodExitCode
    <3> QED
      BY <1>5, <2>2, <3>1 DEF PodExits, PodFailed, GoesOn
  <2> QED
    BY <2>1, <2>2
<1>6. CASE Killed
  BY <1>6 DEF Killed, PodFailed, GoesOn
<1>7. ASSUME NEW i \in Inputs,
             Refuse(i) \/ ItemFails(i) \/ ItemPanics(i) \/ StartOutput(i) \/ FinishOutput(i) \/ OutputFails(i)
      PROVE  Healing'
  <2>1. CASE Refuse(i)
    BY <2>1 DEF Refuse, Taken, Takes
  <2>2. CASE ItemFails(i)
    BY <2>2 DEF ItemFails, Takes
  <2>3. CASE ItemPanics(i)
    BY <2>3 DEF ItemPanics, Takes
  <2>4. CASE StartOutput(i)
    BY <2>4 DEF StartOutput, Takes
  <2>5. CASE FinishOutput(i)
    BY <2>5 DEF FinishOutput
  <2>6. CASE OutputFails(i)
    BY <2>6 DEF OutputFails
  <2> QED
    BY <1>7, <2>1, <2>2, <2>3, <2>4, <2>5, <2>6
<1>8. CASE Over \/ UNCHANGED jobVars
  BY <1>8 DEF Over, jobVars
<1> QED
  BY <1>1, <1>2, <1>3, <1>4, <1>5, <1>6, <1>7, <1>8 DEF JobNext, Step

\* With --overwrite a Job whose inputs are all good fails only if every one of
\* its pods met trouble of its own: each retry starts from scratch
\* (batch.rs:190, service/mod.rs:30).
THEOREM RetriesHeal == JobSpec => []OverwriteHeals
<1>1. JobInit => Healing
  BY JobAssumption DEF JobInit, Healing, Some
<1>2. JobTypeInv /\ Healing => OverwriteHeals
  BY JobAssumption DEF JobTypeInv, JobTypeOK, Healing, OverwriteHeals, Disturbed
<1> QED
  BY <1>1, <1>2, JobInitType, JobNextType, NextHealing, PTL DEF JobSpec
=============================================================================
