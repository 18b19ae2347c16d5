----------------------------- MODULE BatchRunner -----------------------------
(***************************************************************************)
(* The batch runner of rhwp-batch (rhwp-batch/src/batch.rs): the template   *)
(* is parsed once, the items are cut into chunks, one thread per chunk      *)
(* fills and writes its items, the reports meet in a shared vector, and the *)
(* first failure may ask every thread to stop.                              *)
(*                                                                          *)
(* A document is abstracted to the data it was filled with, so the content  *)
(* of an output path is an element of Data, or one of the four states of    *)
(* FileState.  Reading, parsing, filling and serializing an item touch      *)
(* nothing another thread can see, so together they are one step, which     *)
(* succeeds, fails, or panics inside the library.                           *)
(***************************************************************************)
EXTENDS Integers, Sequences, FiniteSets

CONSTANTS Data,      \* the data files (what a document can be filled with)
          Path,      \* the output paths
          Batches,   \* the item lists the command line can yield
          Configs,   \* the values of BatchConfig
          Prior      \* the possible contents of the output tree beforehand

FileState == {"missing", "prior", "truncated", "garbled"}
Content == FileState \cup Data
Item == [data : Data, output : Path]
Config == [onErrorContinue : BOOLEAN, overwrite : BOOLEAN, threads : Nat]

ASSUME BatchesAssumption == Batches \subseteq Seq(Item)
ASSUME ConfigsAssumption == Configs \subseteq Config
ASSUME PriorAssumption == Prior \subseteq [Path -> {"missing", "prior"}]
ASSUME DataAssumption == Data \cap FileState = {}

VARIABLES
  items,     \* the (data, output) pairs of this run
  cfg,       \* BatchConfig
  phase,     \* the main thread: "template", "running" or "done"
  fs,        \* the output tree: what every path holds
  pc,        \* per worker: the next step of the loop over its chunk
  todo,      \* per worker: indices of its chunk it has not taken yet
  job,       \* per worker: the index in progress, 0 when there is none
  outcome,   \* per worker: the result process_one returned for job
  results,   \* the vector under the mutex: [item, status] in push order
  abort,     \* the AtomicBool
  exit       \* the exit code run_batch returns, -1 before

vars == <<items, cfg, phase, fs, pc, todo, job, outcome, results, abort, exit>>

Indices == DOMAIN items
Status == {"ok", "failed"}
Report == [item : Nat, status : Status]

(* items.len().div_ceil(threads.max(1)).max(1)                              *)
ChunkSize ==
  LET threads == IF cfg.threads = 0 THEN 1 ELSE cfg.threads
      size    == (Len(items) + threads - 1) \div threads
  IN IF size = 0 THEN 1 ELSE size

WorkerOf(i) == ((i - 1) \div ChunkSize) + 1
Workers == {WorkerOf(i) : i \in Indices}
ChunkOf(w) == {i \in Indices : WorkerOf(i) = w}

OutputOf(i) == items[i].output
DataOf(i) == items[i].data

Init ==
  /\ items \in Batches
  /\ cfg \in Configs
  /\ phase = "template"
  /\ fs \in Prior
  /\ pc = [w \in Workers |-> "head"]
  /\ todo = [w \in Workers |-> ChunkOf(w)]
  /\ job = [w \in Workers |-> 0]
  /\ outcome = [w \in Workers |-> "ok"]
  /\ results = << >>
  /\ abort = FALSE
  /\ exit = -1

-----------------------------------------------------------------------------
(* The main thread before the workers.                                      *)

\* Reading or parsing the template fails: every item is reported failed.
TemplateFails ==
  /\ phase = "template"
  /\ phase' = "done"
  /\ results' = [i \in Indices |-> [item |-> i, status |-> "failed"]]
  /\ exit' = 1
  /\ UNCHANGED <<items, cfg, fs, pc, todo, job, outcome, abort>>

\* The template is parsed and one thread per chunk is spawned.
SpawnWorkers ==
  /\ phase = "template"
  /\ phase' = "running"
  /\ UNCHANGED <<items, cfg, fs, pc, todo, job, outcome, results, abort, exit>>

-----------------------------------------------------------------------------
(* One worker.                                                              *)

Goto(w, step) == pc' = [pc EXCEPT ![w] = step]
At(w, step) == phase = "running" /\ pc[w] = step

Finish(w, status) ==
  /\ outcome' = [outcome EXCEPT ![w] = status]
  /\ Goto(w, "report")
Succeed(w) == Finish(w, "ok")
Fail(w) == Finish(w, "failed")

\* The loop ends: the chunk is exhausted or the abort flag is seen.
LeaveLoop(w) ==
  /\ At(w, "head")
  /\ todo[w] = {} \/ abort
  /\ Goto(w, "exited")
  /\ UNCHANGED <<items, cfg, phase, fs, todo, job, outcome, results, abort, exit>>

\* A chunk is consumed from its front.  Mutants: from its end; and an item
\* that stays in the chunk.
IsLast(i, S) == \A j \in S : i >= j
IsNext(i, S) == \A j \in S : i <= j
RestKept(w, i) == todo[w]
RestOf(w, i) == todo[w] \ {i}

\* The next item of the chunk is taken.
TakeItem(w) ==
  /\ At(w, "head")
  /\ ~abort
  /\ \E i \in todo[w] :
       /\ IsNext(i, todo[w])
       /\ job' = [job EXCEPT ![w] = i]
       /\ todo' = [todo EXCEPT ![w] = RestOf(w, i)]
  /\ Goto(w, "exists")
  /\ UNCHANGED <<items, cfg, phase, fs, outcome, results, abort, exit>>

\* process_one refuses an output that exists unless --overwrite is given.
\* Mutant: the check is forgotten.
NeverRefused(w) == FALSE
Refused(w) == fs[OutputOf(job[w])] # "missing" /\ ~cfg.overwrite

CheckOutput(w) ==
  /\ At(w, "exists")
  /\ IF Refused(w)
       THEN Fail(w)
       ELSE Goto(w, "prepare") /\ UNCHANGED outcome
  /\ UNCHANGED <<items, cfg, phase, fs, todo, job, results, abort, exit>>

\* Data read, parsed, filled in a clone of the template and serialized,
\* and the parent directory created.
Prepare(w) ==
  /\ At(w, "prepare")
  /\ Goto(w, "open")
  /\ UNCHANGED <<items, cfg, phase, fs, todo, job, outcome, results, abort, exit>>

\* Any of those steps returns an error, or fs::write cannot open the path.
PrepareFails(w) ==
  /\ At(w, "prepare")
  /\ Fail(w)
  /\ UNCHANGED <<items, cfg, phase, fs, todo, job, results, abort, exit>>

\* The library panics while filling or serializing: the thread is gone with
\* the rest of its chunk, and nothing is reported.
Panic(w) ==
  /\ At(w, "prepare")
  /\ Goto(w, "panicked")
  /\ UNCHANGED <<items, cfg, phase, fs, todo, job, outcome, results, abort, exit>>

\* A mutant of OpenOutput: success is returned before the bytes are flushed.
OpenUnflushed(w) ==
  /\ At(w, "open")
  /\ fs' = [fs EXCEPT ![OutputOf(job[w])] = "truncated"]
  /\ Succeed(w)
  /\ UNCHANGED <<items, cfg, phase, todo, job, results, abort, exit>>

\* fs::write creates the file, or truncates the one that is there.
OpenOutput(w) ==
  /\ At(w, "open")
  /\ fs' = [fs EXCEPT ![OutputOf(job[w])] = "truncated"]
  /\ Goto(w, "write")
  /\ UNCHANGED <<items, cfg, phase, todo, job, outcome, results, abort, exit>>

OtherWriter(w) ==
  \E v \in Workers \ {w} :
    pc[v] = "write" /\ OutputOf(job[v]) = OutputOf(job[w])

\* Undisturbed since its truncation, a write leaves its own document.  When
\* another writer of the path overlapped it, the bytes of the two land in
\* one file at the same offsets, and which of them survive is open.
Written(w) ==
  LET p == OutputOf(job[w]) IN
  IF fs[p] = "truncated" /\ ~OtherWriter(w)
    THEN {DataOf(job[w])}
    ELSE {DataOf(job[w]), "garbled", fs[p]}

FinishWrite(w) ==
  /\ At(w, "write")
  /\ \E c \in Written(w) : fs' = [fs EXCEPT ![OutputOf(job[w])] = c]
  /\ Succeed(w)
  /\ UNCHANGED <<items, cfg, phase, todo, job, results, abort, exit>>

\* A mutant of WriteFails: the error of fs::write is dropped.
WriteErrorDropped(w) ==
  /\ At(w, "write")
  /\ \E c \in {"garbled", fs[OutputOf(job[w])]} :
       fs' = [fs EXCEPT ![OutputOf(job[w])] = c]
  /\ Succeed(w)
  /\ UNCHANGED <<items, cfg, phase, todo, job, results, abort, exit>>

\* The disk fills up: some of the bytes, or none, are in the file.
WriteFails(w) ==
  /\ At(w, "write")
  /\ \E c \in {"garbled", fs[OutputOf(job[w])]} :
       fs' = [fs EXCEPT ![OutputOf(job[w])] = c]
  /\ Fail(w)
  /\ UNCHANGED <<items, cfg, phase, todo, job, results, abort, exit>>

\* Does a failure end the loop?  Mutants: never, and always.
NeverStops(w) == FALSE
AlwaysStops(w) == outcome[w] = "failed"
StopsAfter(w) == outcome[w] = "failed" /\ ~cfg.onErrorContinue

\* The report is pushed under the mutex; on a failure without --on-error
\* continue the flag is still to be raised, in a step of its own.
PushReport(w) ==
  /\ At(w, "report")
  /\ results' = Append(results, [item |-> job[w], status |-> outcome[w]])
  /\ job' = [job EXCEPT ![w] = 0]
  /\ Goto(w, IF StopsAfter(w) THEN "abort" ELSE "head")
  /\ UNCHANGED <<items, cfg, phase, fs, todo, outcome, abort, exit>>

RaiseAbort(w) ==
  /\ At(w, "abort")
  /\ abort' = TRUE
  /\ Goto(w, "exited")
  /\ UNCHANGED <<items, cfg, phase, fs, todo, job, outcome, results, exit>>

Worker(w) ==
  \/ LeaveLoop(w) \/ TakeItem(w) \/ CheckOutput(w)
  \/ Prepare(w) \/ PrepareFails(w) \/ Panic(w)
  \/ OpenOutput(w) \/ FinishWrite(w) \/ WriteFails(w)
  \/ PushReport(w) \/ RaiseAbort(w)

-----------------------------------------------------------------------------
(* The main thread after the workers.                                       *)

Tally(s) == Cardinality({k \in DOMAIN results : results[k].status = s})
Succeeded == Tally("ok")
Failed == Tally("failed")

\* Mutants of ExitCode: the number of failures, or success if anything succeeded.
ExitWithCount == Failed
ExitLenient == IF Succeeded > 0 THEN 0 ELSE 1

ExitCode == IF Failed = 0 THEN 0 ELSE IF Succeeded > 0 THEN 4 ELSE 1

\* A handle joins when its thread returned or panicked.  Mutant: the main
\* thread waits for every loop to end, as on a latch.
LoopEnded == {"exited"}
Joinable == {"exited", "panicked"}

\* Every handle is joined, a panic is ignored, and the reports are tallied.
JoinWorkers ==
  /\ phase = "running"
  /\ \A w \in Workers : pc[w] \in Joinable
  /\ phase' = "done"
  /\ exit' = ExitCode
  /\ UNCHANGED <<items, cfg, fs, pc, todo, job, outcome, results, abort>>

Terminated == phase = "done" /\ UNCHANGED vars

Next ==
  \/ TemplateFails
  \/ SpawnWorkers
  \/ \E w \in Workers : Worker(w)
  \/ JoinWorkers
  \/ Terminated

Spec == Init /\ [][Next]_vars

\* No worker waits for another, so a process that keeps being scheduled is
\* all that termination needs.
FairSpec == Spec /\ WF_vars(Next)
-----------------------------------------------------------------------------
(* What the runner must get right.                                          *)

TypeOK ==
  /\ items \in Batches
  /\ cfg \in Configs
  /\ phase \in {"template", "running", "done"}
  /\ fs \in [Path -> Content]
  /\ pc \in [Workers -> {"head", "exists", "prepare", "open", "write", "report",
                          "abort", "exited", "panicked"}]
  /\ todo \in [Workers -> SUBSET Indices]
  /\ job \in [Workers -> Indices \cup {0}]
  /\ outcome \in [Workers -> Status]
  /\ results \in Seq([item : Indices, status : Status])
  /\ abort \in BOOLEAN
  /\ exit \in {-1, 0, 1, 4}

Reported(i) == \E k \in DOMAIN results : results[k].item = i
ReportedAs(i, s) ==
  \E k \in DOMAIN results : results[k].item = i /\ results[k].status = s
Panicked == \E w \in Workers : pc[w] = "panicked"

\* No other item of the batch writes the output of item i.
Sole(i) == \A j \in Indices : OutputOf(j) = OutputOf(i) => j = i

\* An item reported "ok" whose output is its own has its document, whole, at
\* that output, from its report to the end of the run, whatever the other
\* threads do (batch.rs:208 before batch.rs:157).
OkMeansWritten ==
  \A i \in Indices : ReportedAs(i, "ok") /\ Sole(i) => fs[OutputOf(i)] = DataOf(i)

\* A worker reports its chunk in order, without a gap and without repeating
\* an item, however the pushes of the workers interleave; and without
\* --on-error continue it reports nothing after a failure (batch.rs:127-161).
ReportsFollowChunks ==
  phase = "running" =>
    \A k \in DOMAIN results :
      LET mine == {l \in DOMAIN results :
                     WorkerOf(results[l].item) = WorkerOf(results[k].item)}
      IN /\ \A l \in mine : l < k =>
              /\ results[l].item < results[k].item
              /\ results[l].status = "ok" \/ cfg.onErrorContinue
         /\ \A i \in ChunkOf(WorkerOf(results[k].item)) :
              i < results[k].item => \E l \in mine : results[l].item = i

\* An item missing from the report of a finished run was given up because
\* some item failed without --on-error continue, or because a thread
\* panicked: the abort flag has no other cause (batch.rs:128-161).
NothingSkippedSilently ==
  phase = "done" /\ ~Panicked =>
    \A i \in Indices : Reported(i) \/ (~cfg.onErrorContinue /\ Failed > 0)

\* When the run is over, an output left truncated or garbled belongs to an
\* item the report calls failed: fs::write is not atomic, so the report is
\* the only sign of the damage (batch.rs:208).
DamageIsReported ==
  \A i \in Indices :
    fs[OutputOf(i)] \in {"truncated", "garbled"} /\ Sole(i) => ReportedAs(i, "failed")

\* The exit code tells the three outcomes apart: 0 only if every item was
\* written, 4 only if some were and some were not, 1 only if none was
\* (batch.rs:169-171), as long as no thread panicked.
ExitCodeTruthful ==
  ~Panicked =>
    /\ exit = 0 => \A i \in Indices : ReportedAs(i, "ok")
    /\ exit = 4 => /\ \E i \in Indices : ReportedAs(i, "ok")
                  /\ \E i \in Indices : ~ReportedAs(i, "ok")
    /\ exit = 1 => \A i \in Indices : ~ReportedAs(i, "ok")

\* What a finished run leaves behind can be trusted: the report names every
\* damaged output, and the exit code sums the report up (batch.rs:168-180).
EndIsTruthful == phase = "done" => DamageIsReported /\ ExitCodeTruthful

\* Without --overwrite no step changes a path that was there before the run,
\* nor a document written for an item that shares its output with no other
\* (the check of batch.rs:190 against the write of batch.rs:208).
NothingClobbered ==
  [][~cfg.overwrite =>
       \A p \in Path :
         \/ fs[p] = "prior"
         \/ fs[p] \in Data /\ \A i \in Indices : OutputOf(i) = p => Sole(i)
         => fs'[p] = fs[p]]_vars

\* Every run ends, and with --on-error continue it ends with every item
\* reported, except those of a thread that panicked (batch.rs:166).
EveryItemAnswered ==
  <>(phase = "done" /\ (cfg.onErrorContinue =>
       \A i \in Indices : Reported(i) \/ pc[WorkerOf(i)] = "panicked"))

\* The verdict the caller may draw from the reports and the dead threads.
VerdictOf(i) ==
  IF ReportedAs(i, "ok") THEN "ok"
  ELSE IF ReportedAs(i, "failed") THEN "failed"
  ELSE IF pc[WorkerOf(i)] = "panicked" THEN "lost"
  ELSE "open"

Verdicts == [i \in Indices |-> VerdictOf(i)]

Promise == INSTANCE BatchPromise
  WITH verdict <- Verdicts,
       stops <- ~cfg.onErrorContinue,
       code <- exit

\* The end of a run that lost a thread.  Nothing is promised of its exit code: lost
\* items are in no count, and it can be 0 (batch.rs:166).
EndsUnderPanic ==
  /\ Panicked
  /\ exit = -1 /\ exit' # -1
  /\ UNCHANGED <<Verdicts, cfg>>

\* The threads, the flag and the shared vector implement the promise: one verdict
\* per item, never revised, and one exit code drawn from them, which is 0 only if
\* every item is written; but for the exit code of a run that lost a thread
\* (batch.rs:68-180).
PromiseKept ==
  /\ Promise!Init
  /\ [][Promise!Next \/ EndsUnderPanic]_(Promise!promiseVars)
=============================================================================
