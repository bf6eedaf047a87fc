------------------------- MODULE TranselecWorkbook -------------------------
(***************************************************************************)
(* The planilla as its readers meet it: an analyst changes it in Excel and *)
(* uploads it again.  The changes are the environment's; the upload is     *)
(* validate_and_project on the file.                                       *)
(***************************************************************************)
EXTENDS ImportProjection

CONSTANTS
    Books,       \* the workbooks the analyst starts from
    Headers,     \* headers a column is given
    Values,      \* what a cell is made to hold
    MaxEdits     \* bound on the changes made to one workbook

VARIABLES
    book,        \* [names, sheet, scannable]
    result,      \* what the last upload answered
    edits        \* changes made so far

wbVars == <<book, result, edits>>

Plain(cell) == [value |-> cell, xml |-> "plain"]

Width(sheet) == Len(sheet[1])
HeaderRow(b) == _detect_header_row(to_python(b.sheet)).row

-----------------------------------------------------------------------------
(* Changes to the sheet.                                                   *)

SwapColumns(sheet, c) ==
    [r \in DOMAIN sheet |-> [sheet[r] EXCEPT ![c] = sheet[r][c + 1], ![c + 1] = sheet[r][c]]]

InsertColumn(sheet, c, header, cell, h) ==
    [r \in DOMAIN sheet |-> InsertAt(sheet[r], c, Plain(IF r = h THEN header ELSE IF r > h THEN cell ELSE Blank))]

CopyColumn(sheet, c, at) == [r \in DOMAIN sheet |-> InsertAt(sheet[r], at, sheet[r][c])]

DropColumn(sheet, c) == [r \in DOMAIN sheet |-> RemoveAt(sheet[r], c)]

Moved(sheet) == {SwapColumns(sheet, c) : c \in 1..(Width(sheet) - 1)}

\* A column nobody announced: a header of its own or none, and perhaps a value in every row.
WithColumn(sheet, h) ==
    {InsertColumn(sheet, c, header, cell, h) :
        c \in 1..(Width(sheet) + 1), header \in {Blank, Text("nota", "plain")}, cell \in {Blank, Text("x", "plain")}}

WithRepeated(sheet) == {CopyColumn(sheet, c, at) : c \in 1..Width(sheet), at \in {1, Width(sheet) + 1}}

WithoutColumn(sheet) == {DropColumn(sheet, c) : c \in 1..Width(sheet)}

Renamed(sheet, h) == {[sheet EXCEPT ![h][c] = Plain(header)] : c \in 1..Width(sheet), header \in Headers}

Rewritten(sheet, h) ==
    {[sheet EXCEPT ![r][c] = cell] : r \in (h + 1)..Len(sheet), c \in 1..Width(sheet), cell \in Values}

\* What the analyst makes of a sheet whose header is in row h; one whose header is no
\* longer found is not worked on further.
EditedSheets(sheet, h) ==
    IF h = 0 THEN {}
    ELSE Moved(sheet) \cup WithColumn(sheet, h) \cup WithRepeated(sheet) \cup WithoutColumn(sheet)
         \cup Renamed(sheet, h) \cup Rewritten(sheet, h)
         \cup {<<sheet[h]>> \o sheet}      \* the header row once more, above the table

\* A second sheet called Resumen, another name for the first, and a program that writes
\* XML the scan refuses.
EditedBooks(b) ==
    {[b EXCEPT !.names = Append(@, Text("resumen", form))] : form \in {"plain", "folded"}}
    \cup {[b EXCEPT !.names[1] = Text("resumen 16feb26", "plain")], [b EXCEPT !.scannable = FALSE]}

\* The analyst's next file and its upload.
Upload ==
    /\ edits < MaxEdits
    /\ \E b \in EditedBooks(book) \cup {[book EXCEPT !.sheet = x] : x \in EditedSheets(book.sheet, HeaderRow(book))} :
         /\ book' = b
         /\ result' = validate_and_project(b)
    /\ edits' = edits + 1

WbInit == \E b \in Books : book = b /\ result = validate_and_project(b) /\ edits = 0

WbNext == Upload

WbSpec == WbInit /\ [][WbNext]_wbVars

-----------------------------------------------------------------------------
(* Properties.                                                             *)

\* validate_and_project answers one of four outcomes, and rows are stored only by an import.
WbTypeOK ==
    /\ result.status \in {"refused", "projection_error", "invariant_error", "imported"}
    /\ result.status = "imported" <=> result.rows # {}
    /\ \A i \in result.report.issues : i.severity \in {"info", "warning", "error"} /\ i.row_count >= Cardinality(i.rows)
    /\ edits \in 0..MaxEdits

Named(field, row) ==
    \E i \in result.report.issues :
        i.field = field /\ i.row_count > 0 /\ (row \in i.rows \/ i.row_count > Cardinality(i.rows))

NamedColumn(c, row) ==
    \/ \E region \in result.report.auxiliary_regions : c \in region
    \/ c \in DOMAIN result.report.columns /\
       \E i \in result.report.issues :
           c \in i.columns /\ (i.row_count = 0 \/ row \in i.rows \/ i.row_count > Cardinality(i.rows))

StoredRow(row) == CHOOSE x \in result.rows : x.source_row_number = row

\* No cell is lost in silence: what a stored import does not hold of a worksheet cell
\* is kept as text beside it, or an issue or a column decision of its report says so
\* (resolve_resumen_layout, _project_row).
NoCellDropped ==
    result.status = "imported" =>
    \A row \in (result.report.header_row + 1)..Len(book.sheet) : \A c \in 1..Width(book.sheet) :
        LET cell == to_python(book.sheet)[row][c]
            mapped == {f \in result.report.fields : f.column = c}
            copied == {f \in result.report.fields : c \in DOMAIN result.report.columns /\ f.column # c
                                                    /\ f.field = result.report.columns[c].field}
            field == (CHOOSE f \in mapped : TRUE).field IN
        ~_is_blank(cell) =>
        IF mapped = {} THEN /\ NamedColumn(c, row)
                            /\ \A f \in copied : _comparable(cell) = _comparable(to_python(book.sheet)[row][f.column])
        ELSE IF \A x \in result.rows : x.source_row_number # row THEN Named("pmf", row)
        ELSE \/ StoredRow(row).columns[field] # Blank
             \/ Named(field, row) /\ (FIELD_SPECS[field].kind = "date" /\ cell.kind = "text"
                                        /\ cell.word \notin _EXCEL_ERROR_VALUES
                                      => /\ field \in DOMAIN StoredRow(row).source_text_dates
                                         /\ StoredRow(row).source_text_dates[field].raw = strip(cell))

\* An import has a column for every identity and required field: of the reasons not to
\* report a field as missing, none hides the only error (resolve_resumen_layout).
EssentialFieldsBound ==
    result.status = "imported" =>
        {f \in Fields : FIELD_SPECS[f].tier \in {"identity", "required"}} \subseteq mapped_fields(result.report)

\* A workbook that passes the gate is imported: the projection's own checks only fail
\* for a surface that float() reads as nan and for a PMF that is the text of an Excel
\* error (read_validated_workbook, _verify_invariants).
AcceptedIsImported ==
    result.status \in {"projection_error", "invariant_error"} =>
        \E row \in DOMAIN book.sheet : \E c \in 1..Width(book.sheet) :
            LET cell == book.sheet[row][c].value IN
            cell.kind = "text" /\ cell.word \in _EXCEL_ERROR_VALUES \cup {"nan"}

SameAnswer(blind, seen) == has_errors(blind.report) = has_errors(seen.report) /\ blind.rows = seen.rows

\* The evidence of the sheet's XML never blocks an import, and changes no value
\* (scan_formula_cells).
EvidenceNeverBlocks ==
    DOMAIN scan_formula_cells(book) # {} =>
        SameAnswer(resolve_resumen_layout(to_python(book.sheet), << >>),
                   resolve_resumen_layout(to_python(book.sheet), scan_formula_cells(book)))

\* What passes the gate is imported whole: essential columns bound, no cell lost in
\* silence, and the evidence beside the cells decides nothing.
ImportedWhole ==
    WbTypeOK /\ AcceptedIsImported /\ EssentialFieldsBound /\ NoCellDropped /\ EvidenceNeverBlocks

\* What a workbook stores, column positions aside.
Stored(r) ==
    [status |-> r.status, rows |-> {[n |-> x.source_row_number, columns |-> x.columns] : x \in r.rows}]

Anchors == {"pmf", "tramite", "sector", _BARE_CARPETA}

Movable(b, c) ==
    LET s == scan_columns(to_python(b.sheet), HeaderRow(b)) IN
    c \notin s.blank /\ s.recognized[c] \notin Anchors

\* Exchanging two neighbouring columns that no Carpeta is read by changes nothing
\* that is stored (recognition, not position).
OrderDoesNotMatter ==
    \A c \in 1..(Width(book.sheet) - 1) :
       /\ HeaderRow(book) # 0 /\ book' = [book EXCEPT !.sheet = SwapColumns(@, c)]
       /\ Movable(book, c) /\ Movable(book, c + 1)
       => Stored(result') = Stored(result)

\* A column nobody announced, put between two columns of the table, changes nothing
\* that is stored: not even which folder a bare Carpeta is (_nearest_recognized).
StrangersDoNotMatter ==
    \A c \in 2..Width(book.sheet) :
       /\ HeaderRow(book) # 0
       /\ \E header \in {Blank, Text("nota", "plain")} :
             book' = [book EXCEPT !.sheet = InsertColumn(@, c, header, Text("x", "plain"), HeaderRow(book))]
       /\ {c - 1, c} \cap scan_columns(to_python(book.sheet), HeaderRow(book)).blank = {}
       => Stored(result') = Stored(result)

\* Columns are recognised, never counted: neither order nor strangers change an import.
RecognisedNotCounted == [][OrderDoesNotMatter /\ StrangersDoNotMatter]_wbVars

=============================================================================
