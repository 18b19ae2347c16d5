---------------------------- MODULE Repagination ----------------------------
(***************************************************************************)
(* How the document core keeps the pages of an edited document up to date:  *)
(* an edit marks what has to be measured again, `paginate` measures and      *)
(* lays out what is marked, a batch of edits puts that off to its end, and   *)
(* an edit in a table may leave it to a job that works in steps and shows    *)
(* its pages when all of them are done.                                      *)
(*                                                                          *)
(* A paragraph is a text or a table of some structure, and has a height.    *)
(* Laying out reads the text's height from the document and the table's     *)
(* from the cache of measurements.  Rows keep no floor from earlier edits,   *)
(* and headers, endnotes and master pages are left out.                      *)
(***************************************************************************)
EXTENDS Integers, Sequences, SequencesExt

CONSTANTS
  Documents,     \* the documents to open: sequences of [paras, restarts]
  Heights,       \* how many pages a paragraph may fill
  Tables,        \* structures of tables
  Resumable,     \* those that a job can lay out: broken between rows, alone in their paragraph
  Cells,         \* the cells of a table
  None,          \* no bitmap, target or job
  MaxParagraphs, \* per number of sections, bound on a document's paragraphs
  MaxSize        \* the same on its paragraphs and deferred edits together

Text == "text"
Paragraph == [kind : {Text} \cup Tables, height : Heights]
Target == [revision : Nat, section : Nat, para : Nat, cell : Cells, flow : BOOLEAN, kind : Tables]

ASSUME RepaginationAssumption ==
  /\ Heights \subseteq Nat \ {0}
  /\ Resumable \subseteq Tables /\ Text \notin Tables
  /\ Documents \subseteq Seq([paras : Seq(Paragraph), restarts : BOOLEAN])
  /\ \A d \in Documents : d # <<>> /\ \A s \in DOMAIN d : d[s].paras # <<>>
  /\ None \notin Seq(BOOLEAN)
  /\ None \notin Target

VARIABLES
  sections,   \* per section [paras, restarts, measured, dirty, bits, pages, lost]:
              \* its paragraphs, whether it restarts page numbers, measured_sections,
              \* dirty_sections, dirty_paragraphs, the heights its published pages
              \* were laid out from; lost is a ghost, see Forgets and Commit
  firstPage,  \* per section, the number of its first published page
  batch,      \* batch_mode
  revision,   \* deferred_pagination_revision
  descriptor, \* deferred_pagination_descriptor
  job         \* pending_pagination_job: [target, measured, missed]; missed is a ghost,
              \* that an edit came after it began which it was not told of

vars == <<sections, firstPage, batch, revision, descriptor, job>>
-----------------------------------------------------------------------------
(* Marks *)

Resize(b, n) == [i \in 1..n |-> IF i <= Len(b) THEN b[i] ELSE FALSE]
AllClean(n) == [i \in 1..n |-> FALSE]

\* recompose_section.  Mutant: the bitmap is left as it is.
RecomposedKeepingBits(x) == [x EXCEPT !.dirty = TRUE]
RecomposedSection(x) == [x EXCEPT !.dirty = TRUE, !.bits = None]

\* mark_paragraph_dirty.  None, which says all, stays.
MarkBit(b, n, i) == IF b = None THEN None ELSE [Resize(b, n) EXCEPT ![i] = TRUE]

\* recompose_paragraph, and the marks of an edit in a cell.
Marked(x, i) == [x EXCEPT !.dirty = TRUE, !.bits = MarkBit(@, Len(x.paras), i)]

\* Where None says all, adding or removing a paragraph puts a bitmap in its
\* place that marks only the neighbours.
Forgets(x) == x.bits = None /\ x.measured # <<>>
Bits(x) == IF x.bits = None THEN AllClean(Len(x.paras)) ELSE x.bits

\* insert_composed_paragraph, after the paragraph was put in at i.
InsertBit(b, n, i) ==
  LET grown == Resize(IF i <= Len(b) + 1 THEN InsertAt(b, i, TRUE) ELSE b, n)
  IN  IF i > 1 THEN [grown EXCEPT ![i - 1] = TRUE] ELSE grown
ShiftForInsert(m, i) == IF i <= Len(m) + 1 THEN InsertAt(m, i, 0) ELSE m
Inserted(x, i) ==
  [x EXCEPT !.dirty = TRUE, !.measured = ShiftForInsert(@, i),
            !.bits = InsertBit(Bits(x), Len(x.paras), i), !.lost = @ \/ Forgets(x)]

\* remove_composed_paragraph, after the paragraph was taken out at i.
RemoveBit(b, n, i) ==
  LET shrunk == Resize(IF i <= Len(b) THEN RemoveAt(b, i) ELSE b, n)
  IN  [j \in 1..n |-> shrunk[j] \/ j \in {i - 1, i}]
ShiftForRemove(m, i) == IF i <= Len(m) THEN RemoveAt(m, i) ELSE m
\* Mutant: the cache of measurements keeps its places.
RemovedUnshifted(x, i) ==
  [x EXCEPT !.dirty = TRUE,
            !.bits = RemoveBit(Bits(x), Len(x.paras), i), !.lost = @ \/ Forgets(x)]
Removed(x, i) ==
  [x EXCEPT !.dirty = TRUE, !.measured = ShiftForRemove(@, i),
            !.bits = RemoveBit(Bits(x), Len(x.paras), i), !.lost = @ \/ Forgets(x)]
-----------------------------------------------------------------------------
(* Measuring and laying out *)

HeightsOf(paras) == [i \in DOMAIN paras |-> paras[i].height]

\* measure_section, or measure_section_selective where something is cached.
MeasuresAll(x) == x.measured = <<>> \/ x.bits = None
Cached(x, i) == i \in DOMAIN x.bits /\ ~x.bits[i] /\ i \in DOMAIN x.measured
Measure(x) ==
  IF MeasuresAll(x) THEN HeightsOf(x.paras)
  ELSE [i \in DOMAIN x.paras |-> IF Cached(x, i) THEN x.measured[i] ELSE x.paras[i].height]

\* typeset_section_with_variant: the heights that the pages are made of.
Typeset(paras, measured) ==
  [i \in DOMAIN paras |-> IF paras[i].kind = Text THEN paras[i].height ELSE measured[i]]

\* A section with its marks gone and its pages published.
Published(x, measured, pages, lost) ==
  [x EXCEPT !.measured = measured, !.dirty = FALSE, !.bits = AllClean(Len(x.paras)),
            !.pages = pages, !.lost = lost]

Laid(x) ==
  IF ~x.dirty THEN x
  ELSE Published(x, Measure(x), Typeset(x.paras, Measure(x)), x.lost /\ ~MeasuresAll(x))

Count(pages) ==
  LET upTo[i \in 0..Len(pages)] == IF i = 0 THEN 0 ELSE upTo[i - 1] + pages[i]
  IN  upTo[Len(pages)]

\* Page numbers run on from the section before, be it laid out again or not.
\* Mutant: a section that is not laid out again passes nothing on.
LastPagesSkipping(xs) ==
  LET last[s \in 0..Len(xs)] ==
        IF s = 0 THEN 0
        ELSE IF xs[s].dirty
             THEN (IF xs[s].restarts THEN 0 ELSE last[s - 1]) + Count(Laid(xs[s]).pages)
             ELSE last[s - 1]
  IN  last
LastPages(xs) ==
  LET last[s \in 0..Len(xs)] ==
        IF s = 0 THEN 0
        ELSE IF xs[s].dirty
             THEN (IF xs[s].restarts THEN 0 ELSE last[s - 1]) + Count(Laid(xs[s]).pages)
             ELSE firstPage[s] - 1 + Count(xs[s].pages)
  IN  last

\* paginate
Paginate(xs) ==
  /\ sections' = [s \in DOMAIN xs |-> Laid(xs[s])]
  /\ firstPage' = [s \in DOMAIN xs |->
       IF xs[s].dirty THEN 1 + (IF xs[s].restarts THEN 0 ELSE LastPages(xs)[s - 1]) ELSE firstPage[s]]
  /\ descriptor' = None
  /\ job' = None

\* An edit whose pages are left to a later pagination, without a word to the job.
LeaveDirty(xs) ==
  /\ sections' = xs
  /\ job' = IF job = None \/ xs = sections THEN job ELSE [job EXCEPT !.missed = TRUE]
  /\ UNCHANGED <<firstPage, descriptor>>

\* paginate_if_needed
PaginateIfNeeded(xs) == IF batch THEN LeaveDirty(xs) ELSE Paginate(xs)
-----------------------------------------------------------------------------
(* Opening and editing *)

Opened(d) ==
  [s \in DOMAIN d |->
     [paras |-> d[s].paras, restarts |-> d[s].restarts, measured |-> <<>>,
      dirty |-> TRUE, bits |-> None, pages |-> <<>>, lost |-> FALSE]]

\* A file is opened, and its pages are made.
Init ==
  \E d \in Documents :
    /\ sections = [s \in DOMAIN d |-> Laid(Opened(d)[s])]
    /\ firstPage = [s \in DOMAIN d |->
         1 + (IF d[s].restarts THEN 0 ELSE LastPages(Opened(d))[s - 1])]
    /\ batch = FALSE
    /\ revision = 0
    /\ descriptor = None
    /\ job = None

\* set_document and restore_snapshot_native, with rebuild_derived_state: the
\* pages are made at once, in a batch too.
SetDocument ==
  /\ \E d \in Documents : Paginate(Opened(d))
  /\ UNCHANGED <<batch, revision>>

Paras(s) == sections[s].paras
Length == FoldLeft(LAMBDA n, x : n + Len(x.paras), 0, sections)
DeferralRoom == Length + revision < MaxSize[Len(sections)]
Room == Length < MaxParagraphs[Len(sections)] /\ DeferralRoom
TextOf(h) == [kind |-> Text, height |-> h]
IsText(s, i) == Paras(s)[i].kind = Text
\* Section s with other paragraphs, its marks not yet set.
Edited(s, paras) == [sections[s] EXCEPT !.paras = paras]
Resized(s, i, h) == Edited(s, [Paras(s) EXCEPT ![i].height = h])
\* The sections after section s became x.
With(s, x) == [sections EXCEPT ![s] = x]

\* insert_text_native, delete_text_native, in the body.
EditText ==
  \E s \in DOMAIN sections, h \in Heights : \E i \in DOMAIN Paras(s) :
    /\ IsText(s, i)
    /\ PaginateIfNeeded(With(s, Marked(Resized(s, i, h), i)))
    /\ UNCHANGED <<batch, revision>>

\* replace_text_in_cell_native_impl, delete_in_cell, paginate_immediately.
EditCell ==
  \E s \in DOMAIN sections, h \in Heights : \E i \in DOMAIN Paras(s) :
    /\ ~IsText(s, i)
    /\ PaginateIfNeeded(With(s, Marked(Resized(s, i, h), i)))
    /\ UNCHANGED <<batch, revision>>

\* The same calls with the pages left to a job.  An edit may change the flow of
\* its cell and not the height of the table; of edits of one place it is
\* remembered that one changed the flow.
SamePlace(s, i, c) ==
  descriptor # None /\ descriptor.section = s /\ descriptor.para = i /\ descriptor.cell = c
EditCellDeferred ==
  \E s \in DOMAIN sections, h \in Heights, c \in Cells, flow \in BOOLEAN : \E i \in DOMAIN Paras(s) :
    /\ ~IsText(s, i)
    /\ h # Paras(s)[i].height => flow
    /\ DeferralRoom
    /\ revision' = revision + 1
    /\ descriptor' = [revision |-> revision + 1, section |-> s, para |-> i, cell |-> c,
                      flow |-> flow \/ (SamePlace(s, i, c) /\ descriptor.flow),
                      kind |-> Paras(s)[i].kind]
    /\ sections' = With(s, Marked(Resized(s, i, h), i))
    /\ UNCHANGED <<firstPage, batch, job>>

\* Filling a field, replacing all, setting a form's value: the section is
\* composed anew and its pages are left to the next pagination.
FillField ==
  \E s \in DOMAIN sections, h \in Heights : \E i \in DOMAIN Paras(s) :
    /\ LeaveDirty(With(s, RecomposedSection(Resized(s, i, h))))
    /\ UNCHANGED <<batch, revision>>

\* repaginate_if_needed
Repaginate ==
  /\ PaginateIfNeeded(sections)
  /\ UNCHANGED <<batch, revision>>

\* The paragraphs after text i was cut in two.
CutInTwo(s, i, h, g) == InsertAt([Paras(s) EXCEPT ![i].height = h], i + 1, TextOf(g))

\* split_paragraph_native
SplitParagraph ==
  \E s \in DOMAIN sections, h, g \in Heights : \E i \in DOMAIN Paras(s) :
    /\ IsText(s, i) /\ Room
    /\ PaginateIfNeeded(With(s, Inserted(Marked(Edited(s, CutInTwo(s, i, h, g)), i), i + 1)))
    /\ UNCHANGED <<batch, revision>>

\* insert_page_break_native
BreakPage ==
  \E s \in DOMAIN sections, h, g \in Heights : \E i \in DOMAIN Paras(s) :
    /\ IsText(s, i) /\ Room
    /\ PaginateIfNeeded(With(s, RecomposedSection(Edited(s, CutInTwo(s, i, h, g)))))
    /\ UNCHANGED <<batch, revision>>

\* insert_paragraph_native
InsertParagraph ==
  \E s \in DOMAIN sections, h \in Heights : \E i \in 1..Len(Paras(s)) + 1 :
    /\ Room
    /\ PaginateIfNeeded(With(s, Inserted(Edited(s, InsertAt(Paras(s), i, TextOf(h))), i)))
    /\ UNCHANGED <<batch, revision>>

\* merge_paragraph_native
MergeParagraph ==
  \E s \in DOMAIN sections, h \in Heights : \E i \in DOMAIN Paras(s) \ {1} :
    /\ IsText(s, i) /\ IsText(s, i - 1)
    /\ PaginateIfNeeded(With(s,
         Marked(Removed(Edited(s, RemoveAt([Paras(s) EXCEPT ![i - 1].height = h], i)), i), i - 1)))
    /\ UNCHANGED <<batch, revision>>

\* delete_paragraph_native
DeleteParagraph ==
  \E s \in DOMAIN sections : \E i \in DOMAIN Paras(s) :
    /\ Len(Paras(s)) > 1
    /\ PaginateIfNeeded(With(s,
         Marked(Removed(Edited(s, RemoveAt(Paras(s), i)), i), IF i = 1 THEN 1 ELSE i - 1)))
    /\ UNCHANGED <<batch, revision>>

\* insert_table_row_native and its like
ChangeTable ==
  \E s \in DOMAIN sections, h \in Heights, k \in Tables : \E i \in DOMAIN Paras(s) :
    /\ ~IsText(s, i)
    /\ PaginateIfNeeded(With(s, RecomposedSection(
         Edited(s, [Paras(s) EXCEPT ![i] = [kind |-> k, height |-> h]]))))
    /\ UNCHANGED <<batch, revision>>

BeginBatch ==
  /\ batch' = TRUE
  /\ UNCHANGED <<sections, firstPage, revision, descriptor, job>>

EndBatch ==
  /\ batch' = FALSE
  /\ Paginate(sections)
  /\ UNCHANGED revision
-----------------------------------------------------------------------------
(* The job *)

\* deferred_pagination_target_status.  Mutant: it is enough that the table is there.
TargetThere(t) ==
  /\ t.section \in DOMAIN sections
  /\ t.para \in DOMAIN Paras(t.section)
  /\ Paras(t.section)[t.para].kind = t.kind
Current(t) ==
  /\ t.revision = revision /\ descriptor = t
  /\ t.section \in DOMAIN sections
  /\ t.para \in DOMAIN Paras(t.section)
  /\ Paras(t.section)[t.para].kind = t.kind

\* Only a document of one section of one table is left to a job.
Startable ==
  /\ descriptor # None
  /\ descriptor.flow
  /\ Current(descriptor)
  /\ Len(sections) = 1 /\ Len(Paras(1)) = 1
  /\ descriptor.kind \in Resumable

NewJob ==
  IF Startable
  THEN [target |-> descriptor, measured |-> Measure(sections[1]), missed |-> FALSE]
  ELSE None

BeginDeferredPagination ==
  /\ job' = NewJob
  /\ UNCHANGED <<sections, firstPage, batch, revision, descriptor>>

\* The last step of job j.  What it missed is lost: the marks go with it.
Commit(j) ==
  /\ sections' = With(1, Published(sections[1], j.measured, j.measured, sections[1].lost \/ j.missed))
  /\ firstPage' = [firstPage EXCEPT ![1] = 1]
  /\ descriptor' = None
  /\ job' = None

\* A step that leaves some of the table to do changes nothing of this.
StepDeferredPagination ==
  /\ job # None
  /\ IF Current(job.target)
     THEN Commit(job)
     ELSE job' = None /\ UNCHANGED <<sections, firstPage, descriptor>>
  /\ UNCHANGED <<batch, revision>>

CancelDeferredPagination ==
  /\ job' = None
  /\ UNCHANGED <<sections, firstPage, batch, revision, descriptor>>

FlushDeferredPagination ==
  /\ LET j == IF job = None THEN NewJob ELSE job
     IN  IF j # None /\ Current(j.target) THEN Commit(j) ELSE Paginate(sections)
  /\ UNCHANGED <<batch, revision>>
-----------------------------------------------------------------------------
Next ==
  \/ SetDocument
  \/ EditText
  \/ EditCell
  \/ EditCellDeferred
  \/ FillField
  \/ Repaginate
  \/ SplitParagraph
  \/ BreakPage
  \/ InsertParagraph
  \/ MergeParagraph
  \/ DeleteParagraph
  \/ ChangeTable
  \/ BeginBatch
  \/ EndBatch
  \/ BeginDeferredPagination
  \/ StepDeferredPagination
  \/ CancelDeferredPagination
  \/ FlushDeferredPagination

Spec == Init /\ [][Next]_vars
-----------------------------------------------------------------------------
(* Properties *)

SectionState ==
  [paras : Seq(Paragraph), restarts : BOOLEAN, measured : Seq(Heights \cup {0}), dirty : BOOLEAN,
   bits : Seq(BOOLEAN) \cup {None}, pages : Seq(Heights \cup {0}), lost : BOOLEAN]
Job == [target : Target, measured : Seq(Heights \cup {0}), missed : BOOLEAN]

\* Types.  Page numbers are the subject of NumbersContinue.
TypeOK ==
  /\ sections \in Seq(SectionState)
  /\ batch \in BOOLEAN
  /\ revision \in Nat
  /\ descriptor \in Target \cup {None}
  /\ job \in Job \cup {None}

\* The pages of a section without a mark are those of its paragraphs as they
\* are, unless it lost a mark: by adding or removing a paragraph while all was
\* marked, or by a job that was not told of an edit.
PagesAreFresh ==
  \A s \in DOMAIN sections :
    ~sections[s].dirty /\ ~sections[s].lost => sections[s].pages = HeightsOf(Paras(s))

\* A job runs on a document of one section, and what it measured is what the
\* table measures for as long as its target is the newest edit.
JobIsFresh ==
  job # None =>
    /\ Len(sections) = 1
    /\ descriptor = job.target /\ ~job.missed /\ ~sections[1].lost =>
         job.measured = HeightsOf(Paras(1))

\* The section of an edit that is left to a job stays marked until its pages are out.
TargetStaysMarked ==
  descriptor # None =>
    descriptor.section \in DOMAIN sections /\ sections[descriptor.section].dirty

\* The incremental pagination of rendering.rs: selective measuring and the job
\* give the pages that a full pagination gives.
PagesFollowEdits == TypeOK /\ PagesAreFresh /\ JobIsFresh /\ TargetStaysMarked

Fresh(s) == sections[s].pages = HeightsOf(Paras(s))
Republished(s) == s \notin DOMAIN sections \/ sections'[s].pages # sections[s].pages

\* What is shown is never half done: pages change only to all the pages of the
\* section as it is then, and a flush leaves nothing marked and nothing pending.
PublishesWhole ==
  [][/\ \A s \in DOMAIN sections' :
          Republished(s) => ~sections'[s].dirty /\ (sections'[s].lost \/ Fresh(s)')
     /\ FlushDeferredPagination =>
          /\ \A s \in DOMAIN sections' : ~sections'[s].dirty
          /\ descriptor' = None /\ job' = None]_vars

\* A section that is laid out gets the numbers after those of the section before
\* it, whether that one was laid out with it or kept its pages.
NumbersContinue ==
  [][\A s \in DOMAIN sections' :
       (s \notin DOMAIN sections \/ sections[s].dirty) /\ ~sections'[s].dirty =>
         firstPage'[s] = IF s = 1 \/ sections'[s].restarts THEN 1
                         ELSE firstPage'[s - 1] + Count(sections'[s - 1].pages)]_vars
=============================================================================
