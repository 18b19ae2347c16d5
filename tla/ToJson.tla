-------------------------------- MODULE ToJson --------------------------------
(***************************************************************************)
(* `to-json` over a directory: the loop over its documents and the writing   *)
(* of a JSON file each (rhwp-batch/src/service/mod.rs, to_json_dir), and the *)
(* Converter that walks a document paragraph by paragraph and control by     *)
(* control (rhwp-batch/src/adapter/from_ir.rs).                              *)
(*                                                                          *)
(* Texts are what clean_text leaves of them, "" if nothing; a block's id is  *)
(* its number; an image is its content, and a file named for the picture's   *)
(* id in a directory of images.                                              *)
(***************************************************************************)
EXTENDS Naturals, Sequences, FiniteSets, SequencesExt

CONSTANTS Trees,      \* sequences of documents, in the order WalkDir finds them
          ImageDir,   \* the possible values of "--image-dir is given"
          Overwrite,  \* and of --overwrite
          MaxTrouble  \* bound on writes that fail

\* A document is [name, ext, parses, paras, images]; its name is its path
\* without the extension, images gives the contents that are in the file.  A
\* paragraph is [level, text, controls], level 0 if its style is no heading; a
\* control is a table, a picture, a note (header, footer, footnote, endnote) or
\* of another kind.  The parsers give a cell a span of 1 at least.
IsList(s) == s \in Seq(ToSet(s))

IsCell(c) == c.row \in Nat /\ c.col \in Nat /\ c.rowSpan \in Nat \ {0} /\ c.colSpan \in Nat \ {0}

IsControl(c) ==
  /\ c.kind \in {"table", "picture", "header", "footer", "footnote", "endnote", "other"}
  /\ c.kind = "table" =>
       /\ c.rows \in Nat /\ c.cols \in Nat
       /\ IsList(c.cells) /\ \A cell \in ToSet(c.cells) : IsCell(cell)

IsDocument(d) ==
  /\ IsList(d.paras)
  /\ \A p \in ToSet(d.paras) :
       /\ p.level \in 0 .. 6
       /\ IsList(p.controls) /\ \A c \in ToSet(p.controls) : IsControl(c)

ASSUME TreeAssumption ==
  /\ ImageDir \subseteq BOOLEAN /\ Overwrite \subseteq BOOLEAN /\ MaxTrouble \in Nat
  /\ \A tree \in Trees : IsList(tree) /\ \A d \in ToSet(tree) : IsDocument(d)

VARIABLES
  tree, shared, overwrite,
  at,       \* the document of the tree that is next, or being converted
  pc,       \* "next", "convert" or "write"
  para, ctl, \* the Converter's place
  blocks, assets, counter, headings,
  files,    \* image files: functions from paths to contents
  jsons,    \* JSON files: functions from names to what is in them
  anyError,
  failed    \* image files whose write failed

converter == <<para, ctl, blocks, assets, counter, headings>>
vars == <<tree, shared, overwrite, at, pc, converter, files, jsons, anyError, failed>>

Doc == tree[at]
Partial == "partial"
Set(f, x, v) == [y \in DOMAIN f \cup {x} |-> IF y = x THEN v ELSE f[y]]

Init ==
  /\ tree \in Trees
  /\ shared \in ImageDir
  /\ overwrite \in Overwrite
  /\ at = 1 /\ pc = "next"
  /\ para = 1 /\ ctl = 1 /\ blocks = << >> /\ assets = << >> /\ counter = 0 /\ headings = << >>
  /\ files = << >> /\ jsons = << >>
  /\ anyError = FALSE
  /\ failed = {}

-----------------------------------------------------------------------------
(* to_json_dir and to_json_single, up to the conversion.                    *)

ToNext == at' = at + 1 /\ pc' = "next"

\* An output that exists is skipped with a warning.
Skip ==
  /\ pc = "next" /\ at <= Len(tree)
  /\ Doc.name \in DOMAIN jsons /\ ~overwrite
  /\ ToNext
  /\ UNCHANGED <<tree, shared, overwrite, converter, files, jsons, anyError, failed>>

Begins == pc = "next" /\ at <= Len(tree) /\ (Doc.name \in DOMAIN jsons => overwrite)

\* Mutant: the error is logged and forgotten.
UnreadableForgotten ==
  /\ Begins
  /\ ~Doc.parses
  /\ ToNext
  /\ UNCHANGED <<tree, shared, overwrite, converter, files, jsons, anyError, failed>>

Unreadable ==
  /\ Begins
  /\ ~Doc.parses
  /\ anyError' = TRUE
  /\ ToNext
  /\ UNCHANGED <<tree, shared, overwrite, converter, files, jsons, failed>>

Begin ==
  /\ Begins
  /\ Doc.parses
  /\ pc' = "convert"
  /\ para' = 1 /\ ctl' = 1 /\ blocks' = << >> /\ assets' = << >> /\ counter' = 0
  /\ headings' = << >>
  /\ UNCHANGED <<tree, shared, overwrite, at, files, jsons, anyError, failed>>

-----------------------------------------------------------------------------
(* The Converter.                                                           *)

Para == Doc.paras[para]
InPara == pc = "convert" /\ para <= Len(Doc.paras)
Ctl == Para.controls[ctl]
AtControl(kinds) == InPara /\ Para.controls # << >> /\ Ctl.kind \in kinds

Advance ==
  IF ctl < Len(Para.controls) THEN ctl' = ctl + 1 /\ UNCHANGED para
                              ELSE para' = para + 1 /\ ctl' = 1

Titles(stack) == [k \in DOMAIN stack |-> stack[k].text]

\* heading_path_push: headings of the same or a deeper level end.  Mutant: only
\* those of a deeper level.
EndsDeeper(h, level) == h.level > level
Ends(h, level) == h.level >= level
Pushed(level, text) ==
  LET kept == {k \in 0 .. Len(headings) :
                 \A j \in (k + 1) .. Len(headings) : Ends(headings[j], level)}
  IN Append(SubSeq(headings, 1, CHOOSE k \in kept : \A j \in kept : k <= j),
            [level |-> level, text |-> text])

\* next_id.  Mutant: the counter is read and not advanced.
IdNotTaken == counter
NextId == counter + 1

\* Appends one block, with the next id, unless its text is empty.
EmitText(type, text, path) ==
  IF text = "" THEN UNCHANGED <<blocks, counter>>
  ELSE /\ counter' = NextId
       /\ blocks' = Append(blocks, [type |-> type, id |-> NextId, text |-> text,
                                    level |-> 0, path |-> path])

\* A paragraph without controls.
TextParagraph ==
  /\ InPara
  /\ Para.controls = << >>
  /\ IF Para.level # 0 /\ Para.text # ""
       THEN /\ headings' = Pushed(Para.level, Para.text)
            /\ counter' = NextId
            /\ blocks' = Append(blocks, [type |-> "heading", id |-> NextId,
                                         text |-> Para.text, level |-> Para.level,
                                         path |-> Titles(headings')])
       ELSE EmitText("paragraph", Para.text, Titles(headings)) /\ UNCHANGED headings
  /\ Advance
  /\ UNCHANGED <<tree, shared, overwrite, at, pc, assets, files, jsons, anyError, failed>>

Note ==
  /\ AtControl({"header", "footer", "footnote", "endnote"})
  /\ EmitText(IF Ctl.kind = "endnote" THEN "footnote" ELSE Ctl.kind, Ctl.text, << >>)
  /\ Advance
  /\ UNCHANGED <<tree, shared, overwrite, at, pc, assets, headings, files, jsons, anyError, failed>>

\* Any other control stands for its paragraph's text.
OtherControl ==
  /\ AtControl({"other"})
  /\ EmitText("paragraph", Para.text, Titles(headings))
  /\ Advance
  /\ UNCHANGED <<tree, shared, overwrite, at, pc, assets, headings, files, jsons, anyError, failed>>

\* A table or picture takes its id before its caption does, and follows it.
\* Mutant: the caption names itself.
RefOfCaption(id) == id + 1
RefOf(id) == id
EmitWithCaption(block, caption) ==
  LET own == [block EXCEPT !.id = NextId]
  IN IF caption = ""
       THEN counter' = NextId /\ blocks' = Append(blocks, own)
       ELSE /\ counter' = NextId + 1
            /\ blocks' = blocks \o
                 <<[type |-> "caption", id |-> NextId + 1, text |-> caption,
                    ref |-> RefOf(NextId), path |-> Titles(headings)], own>>

\* Does the cell fill this slot of the grid?  Mutant: every slot it spans.
Spans(c, r, k) == r \in c.row .. (c.row + c.rowSpan - 1) /\ k \in c.col .. (c.col + c.colSpan - 1)
FillsSpan(c, r, k) == Spans(c, r, k)
Fills(c, r, k) == Spans(c, r, k) /\ c.row = r /\ c.col = k

\* cell_grid gives a slot to the last cell that spans it, the anchor or not; in
\* its absence the last anchor counts.
Slot(t, r, k) ==
  LET here == {n \in DOMAIN t.cells : IF t.gridded THEN Spans(t.cells[n], r, k)
                                                   ELSE Fills(t.cells[n], r, k)}
      last == CHOOSE n \in here : \A m \in here : m <= n
  IN IF here = {} \/ ~Fills(t.cells[last], r, k) THEN "" ELSE t.cells[last].text

Column(header, k) == IF header = "" THEN <<"col", k>> ELSE <<header>>

\* The rows map the header of a column to the cell: of columns with the same
\* header, the last.
RowsOf(grid) ==
  LET keys == [k \in DOMAIN grid[1] |-> Column(grid[1][k], k - 1)]
  IN [r \in 1 .. (Len(grid) - 1) |->
        [key \in {keys[k] : k \in DOMAIN keys} |->
           LET k == CHOOSE k \in DOMAIN keys :
                      keys[k] = key /\ \A j \in DOMAIN keys : keys[j] = key => j <= k
           IN grid[r + 1][k]]]

Table ==
  /\ AtControl({"table"})
  /\ LET grid == [r \in 1 .. Ctl.rows |-> [k \in 1 .. Ctl.cols |-> Slot(Ctl, r - 1, k - 1)]]
     IN IF grid = << >> THEN UNCHANGED <<blocks, counter>>
        ELSE EmitWithCaption([type |-> "table", id |-> 0, path |-> Titles(headings),
                              grid |-> grid, rows |-> RowsOf(grid), of |-> Ctl], Ctl.caption)
  /\ Advance
  /\ UNCHANGED <<tree, shared, overwrite, at, pc, assets, headings, files, jsons, anyError, failed>>

\* Where the images of a document go.  Mutant: all into one directory.
ImagesOfTree(d) == "assets"
ImagesOf(d) == IF shared THEN "assets" ELSE d.name

\* The first picture with this image makes the asset and its file; an error of
\* the file system is dropped.
NewAsset == Ctl.image \notin DOMAIN assets /\ Ctl.image \in DOMAIN Doc.images

ImageBlock == [type |-> "image", id |-> 0, path |-> Titles(headings), image |-> Ctl.image,
               before |-> "", after |-> ""]

Picture(writes) ==
  /\ AtControl({"picture"})
  /\ IF ~NewAsset THEN UNCHANGED <<assets, files, failed>>
     ELSE LET path == <<ImagesOf(Doc), Ctl.image>>
              content == Doc.images[Ctl.image]
          IN /\ assets' = Set(assets, Ctl.image, [path |-> path, sha |-> content])
             /\ IF writes THEN files' = Set(files, path, content) /\ UNCHANGED failed
                ELSE /\ files' \in {files, Set(files, path, Partial)}
                     /\ failed' = failed \cup {path}
  /\ EmitWithCaption(ImageBlock, Ctl.caption)
  /\ Advance
  /\ UNCHANGED <<tree, shared, overwrite, at, pc, headings, jsons, anyError>>

PictureWritten == Picture(TRUE)
PictureNotWritten ==
  Cardinality(failed) < MaxTrouble /\ AtControl({"picture"}) /\ NewAsset /\ Picture(FALSE)

\* fill_near_text: the nearest paragraph or heading on either side.
Nearby(n) == blocks[n].type \in {"paragraph", "heading"}
TextBefore(i) ==
  LET near == {n \in 1 .. (i - 1) : Nearby(n)}
  IN IF near = {} THEN "" ELSE blocks[CHOOSE n \in near : \A m \in near : m <= n].text
TextAfter(i) ==
  LET near == {n \in (i + 1) .. Len(blocks) : Nearby(n)}
  IN IF near = {} THEN "" ELSE blocks[CHOOSE n \in near : \A m \in near : n <= m].text

FillNearText ==
  /\ pc = "convert" /\ para > Len(Doc.paras)
  /\ blocks' = [i \in DOMAIN blocks |->
                  IF blocks[i].type # "image" THEN blocks[i]
                  ELSE [blocks[i] EXCEPT !.before = TextBefore(i), !.after = TextAfter(i)]]
  /\ pc' = "write"
  /\ UNCHANGED <<tree, shared, overwrite, at, para, ctl, assets, counter, headings, files,
                 jsons, anyError, failed>>

-----------------------------------------------------------------------------
(* The end of to_json_single.                                               *)

WriteJson ==
  /\ pc = "write"
  /\ jsons' = Set(jsons, Doc.name, [of |-> at, assets |-> assets])
  /\ ToNext
  /\ UNCHANGED <<tree, shared, overwrite, converter, files, anyError, failed>>

WriteJsonFails ==
  /\ pc = "write"
  /\ MaxTrouble > 0
  /\ jsons' \in {jsons, Set(jsons, Doc.name, [of |-> 0, assets |-> << >>])}
  /\ anyError' = TRUE
  /\ ToNext
  /\ UNCHANGED <<tree, shared, overwrite, converter, files, failed>>

Finished == pc = "next" /\ at > Len(tree)
Done == Finished /\ UNCHANGED vars

Next == \/ Skip \/ Unreadable \/ Begin \/ TextParagraph \/ Note \/ OtherControl
        \/ Table \/ PictureWritten \/ PictureNotWritten \/ FillNearText
        \/ WriteJson \/ WriteJsonFails \/ Done

Spec == Init /\ [][Next]_vars
-----------------------------------------------------------------------------
(* Properties.                                                              *)

PathsOf(d) == {<<dir, i>> : dir \in {"assets", d.name}, i \in DOMAIN d.images}
Paths == UNION {PathsOf(tree[n]) : n \in DOMAIN tree}

\* Types; ids count the blocks, so that none is given twice or skipped.
TypeOK ==
  /\ at \in 1 .. (Len(tree) + 1)
  /\ pc \in {"next", "convert", "write"}
  /\ pc # "next" => at <= Len(tree)
  /\ counter = Len(blocks)
  /\ {blocks[n].id : n \in DOMAIN blocks} = 1 .. counter
  /\ DOMAIN files \subseteq Paths /\ failed \subseteq Paths
  /\ DOMAIN jsons \subseteq {tree[n].name : n \in DOMAIN tree}
  /\ anyError \in BOOLEAN

\* A heading is above what follows it until one of its own or a higher level
\* comes.
Over(h, i) ==
  /\ blocks[h].type = "heading"
  /\ \A n \in (h + 1) .. i : blocks[n].type = "heading" => blocks[n].level > blocks[h].level
Above(i) == {h \in 1 .. i : Over(h, i)}

\* path names the headings of the set above, from the first to the last.
Names(path, above) ==
  \E list \in [DOMAIN path -> above] :
    /\ \A h \in above : \E k \in DOMAIN path : list[k] = h
    /\ \A k, l \in DOMAIN path : k < l => list[k] < list[l]
    /\ \A k \in DOMAIN path : path[k] = blocks[list[k]].text

UnderHeadings(i) ==
  blocks[i].type \in {"heading", "paragraph", "table", "image", "caption"} =>
    Names(blocks[i].path, Above(i))

\* A caption names the table or image that comes after it, although that took
\* its id first.
Refers(i) ==
  blocks[i].type = "caption" =>
    /\ i + 1 \in DOMAIN blocks
    /\ blocks[i + 1].type \in {"table", "image"}
    /\ blocks[i + 1].id = blocks[i].ref

Apart(t) == \A m, n \in DOMAIN t.cells : m # n =>
  \A r \in 0 .. (t.rows - 1), k \in 0 .. (t.cols - 1) :
    ~(Spans(t.cells[m], r, k) /\ Spans(t.cells[n], r, k))

\* Of cells that do not overlap, each is in the grid once, at its first slot,
\* and what it covers is empty, with cell_grid and without (D25,
\* process_table).
CellsOnce ==
  \A i \in DOMAIN blocks : blocks[i].type = "table" /\ Apart(blocks[i].of) =>
    LET t == blocks[i].of
    IN \A r \in 1 .. t.rows, k \in 1 .. t.cols :
         LET first == {n \in DOMAIN t.cells : t.cells[n].row = r - 1 /\ t.cells[n].col = k - 1}
         IN blocks[i].grid[r][k] =
              IF first = {} THEN "" ELSE t.cells[CHOOSE n \in first : TRUE].text

\* Blocks relate to one another as the document has it: each has the path of
\* the headings it is under (ROADMAP.md, D23), whatever tables and notes are
\* between, each caption names what it stands over, and the ids count the
\* blocks; and a table's grid has each cell once (heading_path_push, process_table,
\* process_picture, next_id).
BlocksRelate ==
  /\ TypeOK
  /\ CellsOnce
  /\ \A i \in DOMAIN blocks : UnderHeadings(i) /\ Refers(i)

Single(n) == \A m \in DOMAIN tree : m # n => tree[m].name # tree[n].name
Asset(n, i) == jsons[tree[n].name].assets[i]

\* The hash in a JSON file is that of the image it points to, unless writing
\* that image failed.
ImagesMatch ==
  ~shared =>
    \A n \in DOMAIN tree : Single(n) /\ tree[n].name \in DOMAIN jsons =>
      \A i \in DOMAIN jsons[tree[n].name].assets :
        \/ Asset(n, i).path \in failed
        \/ /\ Asset(n, i).path \in DOMAIN files
           /\ files[Asset(n, i).path] = Asset(n, i).sha

\* A run that exits 0 has converted every document.
ExitZeroConverts ==
  Finished /\ ~anyError =>
    \A n \in DOMAIN tree : Single(n) =>
      tree[n].name \in DOMAIN jsons /\ jsons[tree[n].name].of = n

\* What is on disk agrees with itself and with the exit code: without
\* --image-dir every JSON file has its own images to the end of the run, and exit
\* 0 means that there is one for every document that shares its name with no
\* other (save_image_file, to_json_dir).
FilesMatch == ImagesMatch /\ ExitZeroConverts
=============================================================================
