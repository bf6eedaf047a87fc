--------------------------- MODULE TranselecExport ---------------------------
(***************************************************************************)
(* The planilla downloaded with its web edits, and the download edited and *)
(* downloaded again.  Which edits there are is the web's state; here any   *)
(* list of them is tried.                                                  *)
(***************************************************************************)
EXTENDS WorkbookPatch

CONSTANTS
    Packages,     \* uploaded workbooks
    ColumnKind,   \* the kind of the field each column holds
    EditRows,     \* rows that have an edit
    TextEdits, DateEdits,   \* the values edits give
    MaxEditsAtOnce, MaxDownloads   \* bounds

VARIABLES
    package,    \* the uploaded workbook
    download,   \* the answer to the last export
    downloads   \* exports so far

exVars == <<package, download, downloads>>

\* mapping_report["sheet_name"]: the report's constant, whatever the sheet is called.
RESUMEN_SHEET_NAME == "Resumen"

EditsOf(column) == {NoValue} \cup IF ColumnKind[column] = "date" THEN DateEdits ELSE TextEdits

Edits == UNION {{CellEdit(r, c, ColumnKind[c], v, "nota") : v \in EditsOf(c)} : r \in EditRows, c \in CellColumns}

\* export_planilla_with_edits: the applied edits with a column and a row, in order.
export_planilla_with_edits(given) ==
    /\ downloads < MaxDownloads
    /\ download' = patch_workbook(package, RESUMEN_SHEET_NAME, given)
    /\ downloads' = downloads + 1
    /\ UNCHANGED package

\* The download comes back as the next version.
upload_download ==
    /\ download.status = "patched" /\ download.package # package
    /\ package' = download.package
    /\ download' = Refused(package')
    /\ UNCHANGED downloads

ExInit == package \in Packages /\ download = Refused(package) /\ downloads = 0

ExNext ==
    \/ \E given \in UNION {[1..n -> Edits] : n \in 0..(MaxEditsAtOnce - downloads)} : export_planilla_with_edits(given)
    \/ upload_download

-----------------------------------------------------------------------------
(* Properties.                                                             *)

CellsOf(parts) ==
    UNION {{[at |-> <<r, parts[<<"sheet", 1>>].rows[r].cells[i].column>>, cell |-> parts[<<"sheet", 1>>].rows[r].cells[i]] :
               i \in DOMAIN parts[<<"sheet", 1>>].rows[r].cells} : r \in DOMAIN parts[<<"sheet", 1>>].rows}

Shown(p, at) ==
    LET found == {x \in CellsOf(p.parts) : x.at = at} IN
    IF found = {} THEN NoValue
    ELSE calamine((CHOOSE x \in found : TRUE).cell, p.parts[<<"styles", 1>>], p.parts[<<"workbook", 1>>].date1904)

\* A downloaded file is one Excel opens without repair: cells in column order, inside
\* the row's hint, with a style and a fill that exist; every relationship has its part
\* and an id of its own; a note has one shape, and shapes have ids of their own
\* (_patch_row, web_style, _add_notes).
DownloadWellFormed ==
    download.status = "patched" =>
    LET parts == download.package.parts
        rels == IF <<"sheet_rels", 1>> \in DOMAIN parts THEN parts[<<"sheet_rels", 1>>] ELSE {} IN
    /\ \A r \in DOMAIN parts[<<"sheet", 1>>].rows :
          LET row == parts[<<"sheet", 1>>].rows[r] IN
          /\ \A i, j \in DOMAIN row.cells : i < j => row.cells[i].column < row.cells[j].column
          /\ row.spans # {} => \A i \in DOMAIN row.cells : row.cells[i].column \in row.spans
          /\ \A i \in DOMAIN row.cells : /\ row.cells[i].s \in DOMAIN parts[<<"styles", 1>>].xfs
                                         /\ parts[<<"styles", 1>>].xfs[row.cells[i].s].fill <= parts[<<"styles", 1>>].fills
    /\ \A x \in rels : x.target \in DOMAIN parts /\ \A y \in rels : x.id = y.id => x = y
    /\ ToSet(download.package.order) = DOMAIN parts
    /\ \A c \in Targets(rels, "comments"), v \in Targets(rels, "vml") :
          /\ {s.at : s \in parts[v].shapes} = DOMAIN parts[c].notes
          /\ \A s, u \in parts[v].shapes : s.id = u.id \/ s.at = u.at => s = u

\* What an edit says is what the downloaded file shows, read as the importer reads it;
\* except that a plain number given to a text field whose cell, row or column is
\* formatted as a date is shown as a date (_cell_xml, excel_serial, web_style).
EditsShown ==
    download.status = "patched" =>
        \A i \in DOMAIN download.written :
            LET x == download.written[i]
                shown == Shown(download.package, ref(x)) IN
            \/ shown = x.value
            \/ x.kind = "text" /\ shown.kind = "number" /\ x.value = Word(ToString(shown.n))
            \/ x.kind = "text" /\ shown.kind = "date" /\ x.value.word \in DOMAIN _PLAIN_NUMBER

\* Everything else is as it was: other cells, the styles that existed, earlier notes,
\* and every part the answer does not list (_patch).
NothingElseChanges ==
    download.status = "patched" =>
    LET was == package.parts  is == download.package.parts
        written == {ref(download.written[i]) : i \in DOMAIN download.written} IN
    /\ {x \in CellsOf(is) : x.at \notin written} = {x \in CellsOf(was) : x.at \notin written}
    /\ SubSeq(is[<<"styles", 1>>].xfs, 1, Len(was[<<"styles", 1>>].xfs)) = was[<<"styles", 1>>].xfs
    /\ \A n \in DOMAIN was : is[n] = was[n] \/ n \in download.touched
    /\ \A n \in DOMAIN was : n[1] = "comments" /\ n \in download.touched =>
          \A at \in DOMAIN was[n].notes : IsPrefix(was[n].notes[at], is[n].notes[at])
    /\ SubSeq(download.package.order, 1, Len(package.order)) = package.order

\* An edit is answered for once: it is written and noted, or skipped over a formula
\* and not noted (_patch_cells, _add_notes).
EachEditAnswered ==
    download.status = "patched" =>
    LET notes == [at \in {ref(e) : e \in Edits} |->
            LET in(p) == UNION {IF at \in DOMAIN p.parts[n].notes THEN {Len(p.parts[n].notes[at])} ELSE {} :
                                   n \in {m \in DOMAIN p.parts : m[1] = "comments" /\ m \in download.touched}} IN
            Max(in(download.package) \cup {0}) - Max(in(package) \cup {0})] IN
    /\ \A i \in DOMAIN download.written : notes[ref(download.written[i])] = 1
    /\ \A i \in DOMAIN download.skipped : notes[ref(download.skipped[i])] = 0

\* The downloaded planilla is the uploaded one with the edits in force: well formed,
\* every edit shown and answered for, nothing else touched.
DownloadIsThePlanilla ==
    DownloadWellFormed /\ EditsShown /\ EachEditAnswered /\ NothingElseChanges
=============================================================================
