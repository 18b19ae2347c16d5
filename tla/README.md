# rhwp-batch: a verification in TLA+

The repository holds `rhwp-batch`, a command that fills HWP/HWPX templates from
JSON data (`fill`) and converts documents to JSON (`to-json`), and a vendored
copy of the upstream `rhwp` crate it is built on, with a command line, a server
and a document core of its own.  The modules here model what `rhwp-batch` does
itself, in full where it is concurrent or meets failure, and those parts of
upstream that keep state across calls, processes or failures.

Paths below are relative to the repository; a file is called by its name where
that is enough: `batch.rs:190` is `rhwp-batch/src/batch.rs`, line 190.

## 1. Inventory

### The system's parts

| Part | State it keeps | Operations | Talks to |
|---|---|---|---|
| Batch runner (`rhwp-batch/src/batch.rs`) | item list, `results` under a mutex, `abort` flag, one thread per chunk, output files | `run_batch`, `process_one` | template filling, serializer, file system; its report and exit code go to `main.rs` |
| Batch job (`main.rs`, `service/mod.rs`, `deploy/k8s/job-template.yaml`) | a persistent volume: outputs and `_report.json`; the Job's count of failures | `run_fill`, `to_json_dir`, restarts | batch runner, converter, Kubernetes |
| Ordered record stream (`rhwp/src/cli/batch/ordered.rs`) | reorder buffer under a mutex, two condition variables, `next_claim`, `next_emit`, `abort` | `stream_records` | upstream's batch commands, which give it the work and print its records |
| Text markers (`template/mod.rs`, `fill_paragraph`) | a paragraph: text, offsets, character shapes, line segments | `find_markers`, `resolve_value`, `adjust_char_shapes` | parser before, serializer after it |
| Table markers (`template/mod.rs`, `expand_table`) | a table: cells, grid, row count, row sizes | `expand_table`, `substitute_table_row`, `rebuild_grid`, `fill_paragraphs` | text markers; the table record of parser and serializer |
| Document conversion (`adapter/from_ir.rs`, `dto/mod.rs`) | blocks, assets, id counter, stack of headings, image files | `process_paragraph`, `process_table`, `process_picture`, `fill_near_text` | `to_json_dir`, which writes the result |
| Logs and settlement (`rhwp/src/anchor_log.rs`, `settle.rs`, `cli/protocol/exchange/settlement.rs`, `cli/protocol/trust/anchor.rs`) | a file of chained lines, no lock; checkpoints given to third parties | `settle record`, `anchor add`, `checkpoint`, `verify` | other processes running the same commands |
| Plans and edits (`rhwp/src/cli/protocol/plan/execution.rs` and `condition.rs`, `cli/integrity.rs`, `cli/commands/edit/text.rs`) | one lock per path, documents on disk, digests | `run` with a plan, `edit replace-text`, dry runs, `--expect-before-sha256`, verification | other processes on the same files |
| MCP server (`rhwp/src/mcp_serve.rs`) | the workspace's list, open handles, the journal, pipes to a child | the scan at the start; opening (by path or by id), editing, saving and closing documents; tools that start a command | a client on its standard streams, child processes, the disk |
| Document core: incremental pagination (`rhwp/src/document_core/queries/rendering.rs`, `commands/text_editing.rs`, `commands/table_ops.rs`) | per section `dirty_sections`, `dirty_paragraphs`, `measured_sections`, pages; `batch_mode`, `deferred_pagination_descriptor` and `_revision`, `pending_pagination_job` | edits, batches, `paginate`, deferred edits, `begin`, `step` and `flush` of a job | an editor's calls, one at a time |
| Command line (`rhwp-batch/src/cli/mod.rs`) | none | parses arguments | all of the above |
| Parsers and serializers (upstream) | none between calls | bytes to document and back | all of the above |
| Layout, painting, metafiles, bindings (upstream) | caches | - | the document core |

### What is hard

- **Interleaving.** The batch runner's threads share a flag, a vector and the
  output tree; the check that an output is absent and the write of it are apart
  (`batch.rs:190`, `:208`).  The record stream has one mutex, two condition
  variables and atomics that are stored outside of the mutex
  (`ordered.rs:127`).  Processes share a log without a lock
  (`settlement.rs:398`), and files of which only some commands take the lock.
- **Failure.** `fs::write` truncates, then fills; a thread may panic; a pod, a
  command or a child process may be killed; an image may not be written; stdout
  may close; a line may be torn.
- **Restart.** A Job runs the same command again on the same volume and keeps
  no memory of the first run but the files.  A command on a log finds what a
  killed one left.
- **Stale state.** Filling changes a text whose markers, shapes and offsets
  were recorded before it; expanding changes a table whose grid and row sizes
  were; a plan is checked against a file that changes before it is written; a
  cache of measurements outlives the edit it was made before; a job lays out a
  document that goes on changing.
- **Order.** Captions are emitted before what they belong to, headings open and
  close sections, records finish in any order, answers must follow requests.
- **Bounds.** The reorder buffer, the pipes between server and child, and the
  scan of a workspace are bounded, and something waits or is left out there.

### What makes each part correct

| Part | Correct means |
|---|---|
| Batch runner | "ok" in the report means a whole document at the output; no file of an earlier run is touched without `--overwrite`; every missing item has a reason; the exit code tells all, some and none apart; it ends |
| Record stream | records come out in input order, each once; memory stays bounded; the exit code is that of the worst record; it returns |
| Batch job | no later run destroys what an earlier one finished; the report that is left is true; a completed Job is complete; every Job ends |
| Text markers | each marker gives way to its value in the marker's style, all else stays; a marker that cannot be resolved fails the item |
| Table markers | rows land where the rules of `template_syntax.md` put them, the table has no holes or overlaps, and the saved record is read back |
| Conversion | every block has the headings above it, every caption its referent, every cell its place, every asset its file; exit 0 means converted |
| Logs and settlement | a log that can be read accepts each result once; what was reported is in it; a checkpoint proves what it was taken of |
| Plans and edits | an edit with a precondition replaces what it read and none is lost; a refused plan leaves the disk alone; a run does what its preview shows, but for steps that earlier ones disturb; commands end |
| MCP server | the same workspace gives the same ids; the journal explains every handle's document; answers follow the order of requests; no child's behaviour stops the server |
| Incremental pagination | what is shown is what laying out everything would show; pages change all at once; page numbers run on from section to section |

The list of hazards with their lines is in `PROJECT.json`.

## 2. Modules

| Module | Models | State and code |
|---|---|---|
| `BatchRunner` | `run_batch`, `process_one` | `pc[w]` is a thread's place in the loop of `batch.rs:127-162`, `todo` the rest of its chunk, `job` its item, `outcome` the `item_result`, `results` and `abort` the shared values, `fs` the output tree.  One action per step that another thread can see |
| `BatchPromise` | what a caller may count on | a verdict per item, decided once; one exit code drawn from the verdicts, 0 only if every item is done |
| `StreamRecords` | `stream_records` | `lock` is the mutex of `buf`, `onSpace` and `onReady` the waiters of the two condition variables, `pc`/`epc` the places of workers and emitter, `drained` the records taken out and not yet written |
| `OrderedStream` | what the consumer of the stream sees | records in input order, then one exit code |
| `BatchJob` | `fill` and `to-json` under a Job | `pod` is the phase of the running command, `item` what it has done with each input, `out` and `report` what is on the volume, `pods` the failures counted against `backoffLimit` |
| `TextFill` | `fill_paragraph`, with what the parser gives and the serializer writes | `layout`, `values`, `onMissing` are what it is given; `stage` how far it is; `text`, `shapes` (`char_shapes`), `lineSegs` the paragraph; `markers`, and `left`, how many of them are still to do; `deltas` (`char_shape_deltas`); `saved` |
| `TableExpand` | `expand_table` and the table record | `table` with `cells`, `grid`, `rows` (`row_count`), `sizes` (`row_sizes`), `border`, `zones` |
| `Ordered` | sorted lists in both | pure operators: the members of a family by their ranks |
| `ToJson` | `to_json_dir` and the `Converter` | `para`, `ctl` are the place in the document, `blocks`, `assets`, `counter`, `headings` the fields of `Converter`, `files` and `jsons` what is on disk |
| `AnchorLog` | one log: a line, its chain, parsing, adding a line, the Merkle root, settlement's verdicts | pure operators on the lines of a file; a digest is what it was taken of |
| `LogCommands` | processes that load, decide and write one log | `text` is the file, `pc` a command's place between its system calls, `seen` what it loaded, `buf` what it is to write, `checkpoint` the last one |
| `PlanSteps` | what a plan does to a document | pure operators: conditions, steps, the preview and the run of a plan.  A document is its `text`, a word per place, and its `fields`; `Found` is what grep finds (conditions, preview), `Matches` what `search_all` finds (execution): they do not visit the same places |
| `PlanRun` | processes that run plans and edits on one disk | `disk`, `lock` per path; `pc` a command's place between reading and writing, `expect` its digest, `read` and `edited` its documents, `exit` its code |
| `McpServer` | the server's loop, its tools, its child | `todo`, `found`, `truncated` the scan; `docs`, `nextId`, `journal` the handles; `inbox`, `outbox`, `pipe` the pipes; `left`, `swept`, `got` what is still to go through them |
| `Repagination` | marks, measurements, batches, deferred edits and jobs of an open document | `sections` with `measured`, `dirty`, `bits` (`dirty_paragraphs`), `pages`; `batch`, `revision`, `descriptor`, `job` the fields of `DocumentCore` |
| `...Proofs` | theorems on the module they are named for; `BatchProofs` on `BatchRunner` and `BatchJob`, `TemplateProofs` on `TextFill` and `TableExpand` | section 5 |
| `MC...` | small instances of each | constants for TLC only |

How they fit together: a `BatchJob` item is a `BatchRunner` item with an output
of its own (that outputs may coincide is `BatchRunner`'s subject, so `BatchJob`
takes them distinct); what `BatchRunner` calls the document of an item is what
`TextFill` and `TableExpand` make of it; the conversion step of `BatchJob` in
to-json mode is `ToJson` without its documents' contents.  `LogCommands` and
`PlanRun` put the operators of `AnchorLog` and `PlanSteps` between the system
calls of concurrent processes.  What `McpServer` calls an editing tool changes
a document whose pages `Repagination` keeps.  `BatchRunner` implements
`BatchPromise`, but for the exit code of a run that lost a thread, and
`StreamRecords` implements `OrderedStream`, by the refinement mappings at the end
of the two modules.

What the models abstract:

- a document is the name of the data it was filled from, a sequence of texts
  (`PlanSteps`, `McpServer`), or the heights of its paragraphs (`Repagination`);
  a file is missing, there from before, truncated, garbled by two writers, or a
  document;
- a digest is what it was taken of: no two documents share one;
- a glyph, `{{`, `}}`, a prefix or a key is one token with its width in UTF-16
  units (a control has eight), which is all that positions depend on;
- in `PlanSteps` a cell and a field are one place of the text each, and a field
  is not in a cell; a word that a step looks for is the whole of its place;
- a cell is one token; an image is its content, a hash the content itself;
- errors of reading, parsing, filling and serializing are one nondeterministic
  failure before the output is opened, an error of writing is one after it;
- laying out a paragraph gives its height, and what is laid out from the cache
  of measurements takes the height it finds there.

## 3. Runs

Every modelled component has a passing run; a run marked (x) is meant to find
its property violated, and is a finding in `PROJECT.json`.  The operators that
a comment calls mutants are plausible slips in the code; each property of a
passing run is violated when one of them takes its original's place.

| Run | Bounds | Shows |
|---|---|---|
| `batch` | 3 items with distinct outputs, 3 items of which two share one, or none; 0, 2 or 3 threads; both flags; 4 output trees | `OkMeansWritten`: the report can be trusted on files.  `ReportsFollowChunks`, `NothingSkippedSilently`: it can be trusted on items.  `EndIsTruthful`: at the end, a damaged file has an error in the report and the exit code tells all, some and none apart.  `NothingClobbered`: no file of an earlier run is lost.  `PromiseKept`: refinement; the exit code is 0 only if every item was done, unless a thread panicked.  `EveryItemAnswered`: it ends |
| `stream` | 5 records, 2 workers, `CapFactor` 1, six mixes of verdicts, a stdout that may break at any record, spurious wakeups at any time | `InputOrder`: until stdout breaks, each record claimed is in one place and what is out is in order.  `Backpressure`: memory is bounded.  `StreamKept`: refinement.  `Returns`, unless stdout breaks |
| `cut_stream` (x) | the same, all records clean | after stdout broke, a worker between its check of the condition and its wait misses the notification and sleeps forever: `abort` is stored without the mutex (`ordered.rs:127`) |
| `job` | 3 inputs, none or one hopeless; both commands; with and without `--overwrite`; 2 writers; `backoffLimit` 2; at most 3 kills and transient errors | `WholeStays`, `ReportOkIsWhole` at any time; `CompleteIsWhole`, `OverwriteHeals` at the end; `JobEnds` |
| `skipped_partial` (x) | to-json without `--overwrite` | a document half-written by a killed run is skipped as done by the next, and the Job completes (`service/mod.rs:125`) |
| `text_fill` | paragraphs of up to 9 glyphs with up to 3 shapes; values that are empty, long, missing, or look like markers; 3 policies | `FilledAsExpected`: while markers are replaced those still to do stay where they were found, the saved paragraph reads as the reference says, controls before all text keep their place, and it fails for a marker without a value and for nothing else |
| `table_expand` | 9 tables (merged cells, several marked rows, no marker, no column), arrays of 0 to 3 items | `RowsInPlace`: if the rows fit their numbers, the cells tile the table after expansion, each slot shows the item of its row, and a table whose rows stayed is read back from its record |
| `to_json` | every document of three paragraphs out of eight kinds around one of seven with tables, notes, pictures; directories of up to three documents; one failing write | `BlocksRelate`: heading paths, captions and cells.  `FilesMatch`: assets have their files, and exit 0 means converted |
| `logs` | 2 processes, 2 capsules, 4 commands, 2 kills, failures or deletions; both kinds of log | `AcceptedOnce`: a ledger that loads accepts a capsule once, whatever overlapped, failed or was killed.  `ReportedStays`: commands that ran one at a time and to their end leave what they reported; of an anchor log that loads and was not deleted, that much is true always.  `CheckpointProves`: `verify` confirms a capsule exactly when the log still begins with the lines the checkpoint was taken of |
| `plan` | 3 processes, each with one of six commands of up to five steps; 2 files, one of five places with a cell, a field and a text box in a cell; one kill or failed write | `NoEditLost`: where every command on a file expects a digest of what it replaces, each write replaces what its edit was computed from, and the last stays.  `RefusedLeavesDisk`: a plan refused by its check, its precondition or its verification has not written, nor has a command that fails without a fault of the disk.  `RunsAsPreviewed`: a run skips the steps its dry run shows as skipped, and a step that no earlier one disturbs replaces what the preview counts, or overwrites what it shows.  `CommandsEnd` |
| `mcp` | 4 lines, the first opens a document; 3 paths, 2 of them in the list; pipes of 2 lines; one failure | `WorkspaceIds`: the list is that of the smallest paths, in whatever order directories are listed.  `JournalExplains`: the document of a handle is the one it was opened with, changed as the journal says.  `AnswersInOrder`: one answer to each request, with its id, in their order.  `EveryLineHandled`: each line is handled however the child behaves, if the client reads |
| `repaginate` | 3 documents: a table broken between rows alone; a table in a section before a text in another, whose numbers run on or start again; heights 1 and 2; 2 cells | `PagesFollowEdits`: unless a mark was lost, the pages of an unmarked section are those of its paragraphs.  `PublishesWhole`: pages change only to all the pages of a section, and a flush leaves nothing pending.  `NumbersContinue`: page numbers follow the sections' pages |

### Bounds, and why they are enough

- *Batch runner.*  Threads meet in the flag, the vector and one output; two
  threads on one output and a third aside give every way they meet.  Three
  items on two threads give a chunk of two, so "the rest of a chunk" is there;
  `threads = 0` exercises `max(1)`.
- *Stream.*  `cap` is `8 * threads` in the code.  With factor 1 and two threads
  it is 2, and five records fill it, exceed it by the record whose turn it is,
  and empty it again.
- *Job.*  `MaxTrouble` exceeds `BackoffLimit`, so a Job can fail by trouble
  alone, and can meet trouble in each of its runs.
- *Text.*  Two markers show the shift of the second by the first; three shapes
  put one before, one in and one after a marker.
- *Tables.*  Three items make a shift of two; rows above and below the template
  row, with cells merged beside it.  `Word` is 65536, as in the code.
- *Conversion.*  Three paragraphs nest headings two deep and close them; one
  image failing leaves others.
- *Logs.*  Two commands overlap in every way two can; the third and fourth read
  what they left.  Two capsules tell a result recorded twice from two results.
  The processes are symmetric, and so are the capsules.
- *Plans.*  Two commands on one file race; a third waits for the lock both
  want, or writes without it.  The plans have steps that a step before disturbs,
  steps that none does, conditions that an earlier step makes false or true, and
  a word that grep finds in one place less.  Which process has which command makes no
  difference, so the choices are taken in one order only.
- *Server.*  With `ScanCap` one below the number of paths the list is cut.  A
  payload and an output longer than `PipeCap` fill both pipes at a time, which
  is where server and child could wait for each other.  Of the three
  lines after the first, one can edit, one save or close, and one come after it.
- *Repagination.*  An edit has a paragraph on each side of it when there are three; the
  document of two sections is bounded to two and one deferred edit.
  Paragraphs and deferred edits share one bound (`MaxSize`), which is what
  keeps `revision` finite.

### Fairness

- `BatchRunner`: weak fairness of the whole step.  No thread waits for another,
  so any scheduler that runs the process runs it to its end.
- `StreamRecords`: weak fairness of each thread (the operating system schedules
  it) and strong fairness of taking the mutex, because a mutex that is
  released infinitely often is acquired in the end.  Spurious wakeups and the
  breaking of stdout get none.
- `BatchJob`: weak fairness of the running command and of the controller's
  restart, none of kills.
- `PlanRun`: weak fairness of each process's work.  Only the lock makes a process
  wait, and as each process runs one command, a lock is taken finitely often:
  strong fairness is not needed.  None of kills and failing writes.
- `McpServer`: weak fairness of the server and of the child, as the operating
  system schedules them, and of the client's reading, without which its pipe
  fills and the server waits.  None of the client's sending and of failures.
- `LogCommands` and `Repagination` state no liveness: commands there never wait
  for one another, and the document core does what it is called for before it
  returns.

## 4. Divergences without a run

Seen while modelling, and visible in the models as they stand, but without a
run of their own.  Where a passing property has a condition, it is there for
one of these.

In `rhwp-batch`:

- Two items with one output that both check before either writes are both "ok"
  (`batch.rs:190`; `template_syntax.md:136` says the second fails).
  `OkMeansWritten` is about outputs that are an item's alone.
- A panicked thread is joined and forgotten: its items are in no count, and
  the exit code can be 0 (`batch.rs:166`; `README.md:211` says that 0 is all
  done).  `EndIsTruthful` assumes that no thread panicked; `PromiseKept` holds
  such a run to its verdicts and leaves only its exit code open (`EndsUnderPanic`),
  as `BatchPromise` itself allows no 0 over an item that was not done.
- A batch never exits with 3, which `deploy/ops_guide.md:154` gives for an
  output conflict (`batch.rs:171`).
- The retries of a Job without `--overwrite` fail on the outputs of the first
  run, so one transient error fails the Job (`batch.rs:190`;
  `ops_guide.md:127` counts on the retries).  `OverwriteHeals` has the condition.
- Shape positions count a control as 8 and thresholds do not, so the text
  before a marker can change its style (`template/mod.rs:413`;
  `template_syntax.md:54`).
- `char_offsets` are not updated, so a control after a marker is written at
  another place (`template/mod.rs:300`).  `LeadingControlsStay`, a part of
  `FilledAsExpected`, is about controls before all text.
- `row_sizes` keeps the template's length, so the reader takes border and zones
  for sizes (`template/mod.rs:123`; the writer is `control.rs:692`).
  `SameRowsReopen`, a part of `RowsInPlace`, is about tables whose rows stayed.
- An empty array leaves a row without cells (`template/mod.rs:81`), where
  `template_syntax.md:97` says the row is removed.
- A cell merged across the template row is neither copied nor stretched
  (`template/mod.rs:87`); row numbers are cut to 16 bits
  (`template/mod.rs:100`, `:107`, `:123`).  `RowsInPlace` is about tables whose rows
  can be counted in 16 bits, and its tiling about rows that stand alone.
- Copied rows are filled once more, so a value that looks like a marker is
  replaced or rejected (`template/mod.rs:232`; `template_syntax.md:144`).
- The text of a paragraph that holds a table, a picture or a note is in no
  block, and with several controls of other kinds it is in several
  (`from_ir.rs:201`).
- Columns with equal headers collide in the rows of a table
  (`from_ir.rs:314`; `dto_schema.md:82`).
- With `--image-dir`, image files are named by a document's own ids, so the
  second document's first image replaces the first's, whose `sha256` no longer
  matches (`service/mod.rs:111`; `dto_schema.md:132`).
- `a.hwp` and `a.hwpx` have one output: the second is skipped and the run exits
  0 (`service/mod.rs:108`).  `FilesMatch` is about documents whose name is
  their own.
- The error of writing an image is dropped (`from_ir.rs:440`).  `FilesMatch`
  excludes those images.

In the logs, plans and edits of `rhwp`:

- `settle record` writes the whole ledger back without a lock: of two that
  overlap one loses its entry after reporting it, and a kill or a failed second
  reading leaves a ledger that is shorter and valid (`settlement.rs:398`,
  `:405`).  `ReportedStays` is about ledgers on which commands ran one at a time.
- Two first `anchor add`s glue their lines together, and the log loads no more
  (`anchor.rs:48`).
- A plan is checked against the document it is given and executed step by step
  on what the earlier steps left, so a step counted as possible in the preview
  can do nothing or fail (`execution.rs:645`; the comment before it says that
  check and run cannot differ).  Besides, conditions and preview search with
  grep, which does not look into a text box in a table cell, and replacing
  searches with `search_all`, which does, so the numbers can differ for a first
  step too.  `RunsAsPreviewed` is about the steps that no earlier one disturbs and
  that look for words in places both searches see (`Clear`).
- A plan or an edit that names no digest takes no lock and writes over
  whatever came between; `fs::write` leaves a cut file when it is killed.
  `NoEditLost` excludes files that such a command was run on.
- `edit --verify` fails after the file was written (`cli/commands/edit/text.rs:201`).
  What `RefusedLeavesDisk` says of exit code 3 is about plans.

In the server:

- What a killed child had written is passed on as a result if there was any
  (`mcp_serve.rs:2591`).
- A replacement or a filling that fails halfway leaves the open document partly
  edited.  `JournalExplains` counts such calls.
- Two handles may hold one path: the last one saved wins.  The journal grows
  without a bound.

In incremental pagination:

- A later section that is not marked keeps its page numbers when an earlier
  one's page count changes (`rendering.rs:5061`).  `NumbersContinue` is about
  steps that lay a section out.
- Adding or removing a paragraph while all paragraphs of a section are marked
  (`None`) puts a bitmap in its place that marks only the neighbours
  (`rendering.rs:4303`, `:4337`; the comment at `:4266` says that all stays
  all).  A table changed in a batch then keeps its old height.  The ghost
  `lost` records it, and `PagesFollowEdits` excludes it.
- A job does not hear of a field that is filled or a batch that begins between
  its steps, and its last step clears the marks they made
  (`rendering.rs:4789-4843`).  The ghost `missed` records it.

## 5. Proofs

Eight modules hold theorems, for every value of the constants that satisfies the
named `ASSUME` of the module they are about; TLC evaluates each of those in its
run.  None of the properties is inductive by itself: for each module an
inductive invariant adds what is needed, as a conjunction of parts, and each
part is kept by each action - one lemma per part, one step per action.

| Module | Theorem | Says |
|---|---|---|
| `BatchProofs` | `TypeCorrect`, `ReportedIsWritten`, `NothingIsSkipped` | `[]TypeOK`, `[]OkMeansWritten`, `[]NothingSkippedSilently` |
| | `RunSpares` | `NothingClobbered` |
| | `FollowsChunks`, `EndTruthful` | `[]ReportsFollowChunks`, `[]EndIsTruthful` |
| | `PromiseHolds` | `BatchRunner` implements `BatchPromise`, but for the exit code of a run that lost a thread (`PromiseKept`) |
| | `JobTypes`, `ReportIsTrue`, `CompleteJobIsWhole`, `RetriesHeal` | `[]JobTypeOK`, `[]ReportOkIsWhole`, `[]CompleteIsWhole`, `[]OverwriteHeals` |
| | `RetriesSpare` | `WholeStays` |
| `StreamRecordsProofs` | `TypeCorrect`, `Bounded`, `InOrder` | `[]TypeOK`, `[]Backpressure`, `[]InputOrder` |
| | `StreamIsOrdered` | `StreamRecords` implements `OrderedStream` |
| `TemplateProofs` | `FillsAsExpected`, `RowsStay` | `[]FilledAsExpected`, `[]RowsInPlace` |
| `ToJsonProofs` | `FilesAgree`, `BlocksAgree` | `[]FilesMatch`, `[]BlocksRelate` |
| `LogCommandsProofs` | `TypeCorrect`, `AcceptsOnce`, `ReportsHold`, `CheckpointsProve` | `[]TypeOK`, `[]AcceptedOnce`, `[]ReportedStays`, `[]CheckpointProves` |
| `PlanRunProofs` | `TypeCorrect`, `RefusalsLeaveDisk`, `EditsKept`, `PreviewTrusted` | `[]TypeOK`, `[]RefusedLeavesDisk`, `[]NoEditLost`, `[]RunsAsPreviewed` |
| `McpServerProofs` | `TypeCorrect`, `SameIds`, `Explains`, `OneAnswerEach` | `[]TypeOK`, `[]WorkspaceIds`, `[]JournalExplains`, `[]AnswersInOrder` |
| `RepaginationProofs` | `TypeCorrect`, `PagesFollow` | `[]TypeOK`, `[]PagesFollowEdits` |
| | `Publishes`, `NumbersRunOn` | `PublishesWhole`, `NumbersContinue` |

The arguments.

- *Batch runner.*  `TypeInv`: a busy thread has an item.  `OneAtATime`: it is
  of the thread's own chunk, no longer to be taken and not yet reported, so two
  threads never have one item.  `SoleOutput`: what a thread knows of an output
  that is its item's alone, at each step from the check to the report.
  `PriorSpared`: past its check a thread is not heading for a file of an earlier
  run.  `Accounted`: an item that is nowhere was given up for a failure.  The
  reports add, until the end: `Once`, no item has two; `Ascending`, `Gapless`
  and `Heading`, the reports of a chunk are its beginning, and a busy thread's
  item comes next; `Stopping`, why a chunk stops early; `Damaged` and `Fresh`,
  which file a report without "ok" may have touched.  The refinement maps a
  step of a thread to a verdict when it reports, and to a stutter otherwise.
  Joining the threads maps to the exit code, which is 0 only over verdicts "ok",
  because without a panic each item that is nowhere was given up for a failure
  (`CloseMaps`); with one, it is a step of `EndsUnderPanic`.
- *Batch job.*  `Counted`, a Job goes on only within its limit; `SettledFirst`,
  a pod reports when every input is settled; `OkIsWhole`, what this pod calls
  ok is whole, which makes the next report true; `NoSkip`, `fill` skips nothing
  and before the first pod nothing is there to skip, which is why a to-json Job
  of one pod is complete and one of several (`skipped_partial`) need not be.
  `Healing` is what `RetriesHeal` needs: with `--overwrite` and no hopeless
  input, a pod that fails had trouble of its own, so the failures are at most
  the troubles.
- *Stream.*  `Mutex`, who is where the mutex is needed has it; `Held`, a record
  in the buffer or with a worker is of a claimed input whose turn has not
  passed, and of one only; `NoneLost`, each such input has its record in one of
  the two; `Ordered` and `EmitterPlace`, what is drained follows what is out;
  `Room`, a record enters below the bound or because its turn has come;
  `TallyTrue`, the tally counts what is out.
- *Logs.*  `MadeSound`: each line was made from a log that loads and holds no
  acceptance the line repeats.  A line names only the one before it; that two
  logs of one last line are one log is an argument by the least place where
  they would differ, and gives `AcceptedOnce` whatever the file went through.
  `Orderly`: commands that run one at a time find what was reported, but for the
  moment the file is empty.  `InPlace`: an appended log that loads has each
  reported line at its number.  For checkpoints: a level of the tree has half as
  many nodes as the one below, so some level has one (`HeightIs`); the path of a
  leaf climbs through its ancestors to the root (`PathClimbs`), whatever the
  number of leaves; and two rows of leaves of one length with one root are one
  (`RootTells`), as a node tells its children.  `NotedInv` says what a checkpoint
  was taken of.
- *Plans.*  `TypeInv`: `Holding`, a command that expects a digest holds its
  lock as long as it runs; `Untouched`, a command touches its output only from
  the moment it writes, and has no exit code before it ends.  `EditInv`, on
  files that only commands with a digest write: `Tame`, they write where they
  read; `ReadsExpected`, what they read is what they expect, and is still there
  when they are ready to write; `WritesLast`, `Writers`,
  `EachReplacesWhatItRead` and `LastWritten`, the chain of what was written,
  whose end is on the disk unless a write is under way or failed.  `PreviewTrusted`
  follows a plan step by step.  Every document of its `Trace` has the places and
  the fields of the input (`TraceDocuments`).  If no earlier step disturbs a step,
  the places where its word stands are those of the input, and so is the word in
  its cell: were it not so, there would be a first document that differs, and the
  step before it is one that `Disturbs` (`UndisturbedStep`, `ClearKept`).  Both
  searches then find the same places, as many as the preview counts; of a single
  occurrence, exactly one of a finite set of places has that many before it
  (`OneAtRank`).  What is skipped was decided on the input.  `DocsInv`: what
  a command read is a document, on which its plan was found feasible.
- *Server.*  `ScanInv`: what is kept are the smallest of what was seen, and
  something was left out only if the list is full.  `JournalInv`: each entry starts
  where the handle's previous one ended; the greatest earlier entry is found by
  least counterexample, as `Max` is a `CHOOSE`.  `OneAnswerEach`: the lines asked
  so far are one more with each request handled, so that the rank of the newest is
  the number of answers.
- *Repagination.*  `AllGood`: each section is typed, not empty, and, unless a
  mark was lost, `Sound`: it has a measurement for each paragraph, which fits
  wherever no mark stands, and an unmarked section's pages are those of its
  paragraphs.  `JobIsFresh`: a job whose target is current and that missed
  nothing has measured the table as it is.  `TargetStaysMarked` and `Revisions`
  connect a deferred edit to its marks and a job to its edit.  `NumbersRunOn`
  unfolds `LastPages` at two neighbouring sections.
- *Text markers.*  Markers are replaced from the last to the first while widths
  and shapes are counted from the front, so `FillInv` follows every character
  of the given text: there are numbers `start[j]`, how many characters of the
  text as it is now come before what became of the `j`-th (`TextFits`).  A kept
  character is at its `start`; a replaced marker is its value; before the markers
  still to do nothing has moved (`MarkersStayPut`); and the width up to a
  `start` is the old width shifted by the deltas so far.  Replacing one marker
  keeps this (`FitsMore`), because a delta counts only for positions behind its
  marker.  At the end the widths turn the rule for a shape's new position into
  a place in the new text (`ShapePlaced`), so that the last shape before a kept
  character, or before a marker, is the one it had (`LastChange`, `ShapeShown`).
  The expected text is the same list of pieces laid end to end (`FlattenIs`).
  Controls before all text are written with the first character, whatever became
  of the rest (`LedSerialized`).  A failure is of the marker that was next, so of
  one that has no value; when all were replaced, each had one.
- *Tables.*  Expanding sorts what was pushed, and the sorted list is written as
  the cells by their rank.  A rank is the number of cells up to one; as the order
  is total, ranks tell the pushed cells apart, so as many ranks as cells fill
  `1 .. n` and the list is a permutation (`RanksOnto`).  `RowMoves`, where a cell
  of each kind goes: below `Word` the shifts do not wrap, and a slot `(r, k)` is
  covered by a pushed cell exactly if the cell it was made of covered the slot's
  source, one row of the template for each copy.  As the source had one holder,
  so has the slot (`ExpandTiles`), and what that cell shows is what the rules
  expect (`ExpectedIs`).  `WordsAre` and `ReopenedParts`: where each part of the
  record begins, which the reader finds again if the sizes are as many as the
  rows.  `TableInv` carries these facts from expanding to reopening.
- *Conversion.*  `PlaceInv`, where the run and the converter are.  `FileInv`:
  the JSON files there are belong to documents that are done, with what was
  made of them; a document whose name is its own finds none, and no other writes
  into its images.  `BlockInv`: each block is `Fine`, under its headings and over
  what it refers to; `StackInv`, the stack of headings is that of the headings
  above whatever comes next, in ascending order and with ascending levels, which
  is why ending those of the same or a deeper level is right.  That filling in
  the neighbouring texts of images changes none of this is a lemma of its own.

Every safety and action property of a passing run is a theorem.  Model-checked
only: liveness (`EveryItemAnswered`, `Returns`, `JobEnds`, `CommandsEnd`,
`EveryLineHandled`), as the prover has no rules for fairness and ENABLED.

What a recursive function computes for data of any size takes induction over
data, and the library's induction theorems take operators as parameters, which
no prover here instantiates.  Where a theorem needs it (`CheckpointsProve`,
`PreviewTrusted`, `NumbersRunOn`, `FillsAsExpected`), a lemma shows that functions with the
recursion's equation exist on each `0 .. n`: if there were none for some `n`,
there would be a least such `n`, and the function for `n - 1` can be extended.

The assumptions on the constants say what the program gives them.
`LayoutAssumption`: what the parser reads and what the data holds are finite
sequences, a shape is a number, no control is a brace or a prefix; it sets no
limit on lengths, widths or the number of markers and shapes.
`TableAssumption`: a table's cells lie in it and it has a size for every row,
which is up to the document (the parsers see only to the spans).
`TreeAssumption`: heading levels are at most 6 (`heading_level`), a cell spans
at least one row and one column (both parsers).  `PlanAssumption`: steps have
one of the actions the preview accepts and an occurrence is a number or all of
them, documents are finite and the place of a field is not in a cell.  The others give
types and bounds.

## 6. Plan

Done: all modules of section 2, in this order: the batch runner, its promise and
proofs; the stream; the job and its proofs; text, tables, conversion; logs;
plans; the server; the remaining proofs of the first three; incremental
pagination and its proofs; the proofs about conversion, checkpoints, previews,
answers, page numbers, tables and text markers.

Left, most important first:

1. `AtomicFile` (`rhwp/src/atomic_file.rs`): temporary file, sync, rename, with
   crashes between the steps.
2. Snapshots and undo of the document core, composed with `Repagination`.
3. Headers, endnotes and row floors in `Repagination`; the cache of rendered
   pages and who invalidates it.
4. Template and import steps of plans; claims and capsules around the logs.
5. A small `Word` in `TableExpand`: what more than 65535 rows do.
6. The single-file modes and the inline image mode of `to-json`.

## 7. Not modelled

Most of the repository's 684 thousand lines are numbers and formats: tables of
font metrics (generated), layout of lines and tables, painting, the readers and
writers of HWP, HWPX and vector formats, bindings, diagnostics.  They keep no
state between calls and run in one thread, so what could be wrong in them is
arithmetic on real documents, which small instances do not decide; the map
therefore covers a small share of the lines, though it covers the parts where
steps, actors or failures meet.

- *Command line*: argument definitions and the choice of a mode.  The
  single-file modes repeat steps of the batch and directory modes.
- *Input lists* (`items_from_data_dir`, `items_from_manifest`): a listing.  Its
  hazard, two items with one output, is an input of `batch`.
- *Parsers and serializers* as byte formats: what matters here, positions in a
  paragraph and the table record, is in `TextFill` and `TableExpand`.
  Paragraphs with fields, tabs and automatic numbers, cells with nested tables
  or shapes are left out.
- *Normalised text, markdown, hashes, units* in the conversion: they are data
  that no property here tells apart.
- *Plans*: template and import steps, errors in the syntax of conditions,
  fields of one name in several places.
- *Logs*: the claims and capsules that lines are made of, keys and signatures;
  the replacement of whole files in `atomic_file.rs`.
- *Server*: resources and prompts, which are data; `wasm_api.rs` and the other
  bindings, which pass calls on.
- *Document core*: what text and tables contain, undo, queries; of pagination,
  the floors that rows keep from the edit before (`floor_rows_to_prev`),
  headers and footers, master pages, endnotes, normalisation before rendering,
  bands of pictures, the loops that lay out again until heights agree, the
  cache of page trees.
- *Layout, painting, metafiles*: see above.

## 8. Running it

    tlc -config BatchRunner.cfg MCBatchRunner     # and so on, section 3
    tlapm BatchProofs.tla                         # and so on, section 5

The longest run takes a minute or two, the longest proofs (`RepaginationProofs`,
`TemplateProofs`, `ToJsonProofs`) some minutes.
