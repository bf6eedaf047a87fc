---------------------------- MODULE WorkbookPatch ----------------------------
(***************************************************************************)
(* xlsx_web_patch.py: web edits written into a copy of the uploaded        *)
(* planilla, part by part.  A package is [order, parts]; the parts that    *)
(* are rewritten are records of what their XML says, the others are        *)
(* opaque.  Style ids count from 1.                                        *)
(***************************************************************************)
EXTENDS Integers, Sequences, FiniteSets, FiniteSetsExt, SequencesExt, TLC

CONSTANTS
    CellColumns,            \* columns of the edited sheet, as numbers from 1
    Epoch1904,              \* days between the two epochs of Excel
    MAX_EDITED_PART_BYTES   \* the largest sheet that is edited

_BUILTIN_DATE_FORMATS == {14}
_DATE_FORMAT_ID == 14
NOTE_AUTHOR == "web"

\* Where a new part may be called: the first number that is free.
_next_free(used) == Min({n \in 1..(Cardinality(used) + 1) : n \notin used})

-----------------------------------------------------------------------------
(* Values.                                                                 *)

CellEdit(row, column, kind, value, note) ==
    [row |-> row, column |-> column, kind |-> kind, value |-> value, note |-> note]

ref(x) == <<x.row, x.column>>

NoValue == [kind |-> "none"]
Word(w) == [kind |-> "text", word |-> w]
Number(n) == [kind |-> "number", n |-> n]
Day(d) == [kind |-> "date", day |-> d]

\* Text that is a plain number.
_PLAIN_NUMBER == [w \in {"7"} |-> 7]

excel_serial(day, date1904) == IF date1904 THEN day - Epoch1904 ELSE day

\* What the importer's library shows of a stored cell: a number is a date when its
\* style says so.
calamine(cell, styles, date1904) ==
    IF cell.v.kind = "number" /\ styles.xfs[cell.s].fmt \in _BUILTIN_DATE_FORMATS
    THEN Day(cell.v.n + IF date1904 THEN Epoch1904 ELSE 0)
    ELSE cell.v

-----------------------------------------------------------------------------
(* Styles.                                                                 *)

\* What styles.xml says, and the clones made so far.
parse(part) == [xfs |-> part.xfs, fills |-> part.fills, fill_id |-> 0, clones |-> << >>]

is_date_format(fmt) == fmt \in _BUILTIN_DATE_FORMATS

_append_fill(styles) == [styles EXCEPT !.fills = @ + 1, !.fill_id = styles.fills + 1]

\* The original style with the web fill, and a date format if it needs one; made once.
\* No style (id 0) for an original that styles.xml does not have.
web_style(styles, original, needs_date_format) ==
    LET base == styles.xfs[original]
        add_date == needs_date_format /\ ~is_date_format(base.fmt)
        key == <<original, add_date>>
        filled == IF styles.fill_id = 0 THEN _append_fill(styles) ELSE styles
        clone == [base EXCEPT !.fill = filled.fill_id, !.fmt = IF add_date THEN _DATE_FORMAT_ID ELSE @]
        id == Len(styles.xfs) + 1 IN
    IF original \notin DOMAIN styles.xfs THEN [styles |-> styles, id |-> 0]
    ELSE IF key \in DOMAIN styles.clones THEN [styles |-> styles, id |-> styles.clones[key]]
    ELSE [styles |-> [filled EXCEPT !.xfs = Append(@, clone), !.clones = (key :> id) @@ @], id |-> id]

-----------------------------------------------------------------------------
(* Cells.  A row is [cells, spans, style]: a sequence ordered by column,   *)
(* the columns of the hint (none when there is no hint), and the row's own *)
(* style (0 when it has none).                                             *)

_cell_xml(x, style, numeric_ok, date1904) ==
    LET cell(t, v) == [column |-> x.column, s |-> style, t |-> t, v |-> v] IN
    CASE x.value = NoValue -> cell("n", NoValue)
      [] x.kind = "date" -> cell("n", Number(excel_serial(x.value.day, date1904)))
      [] x.kind = "text" /\ numeric_ok /\ x.value.word \in DOMAIN _PLAIN_NUMBER ->
            cell("n", Number(_PLAIN_NUMBER[x.value.word]))
      [] OTHER -> cell("s", x.value)

\* The style Excel shows for an absent cell: the row's, else the column's, else the first.
_blank_cell_style(row, column, column_styles) ==
    IF row.style # 0 THEN row.style ELSE column_styles[column]

_spans_cover(spans, column) == column \in spans

\* Before the first cell of a later column.
position_of(cells, column) ==
    Min({i \in DOMAIN cells : cells[i].column > column} \cup {Len(cells) + 1})

\* The row with the edit applied; skipped when the cell is a formula, refused when its
\* style is unknown.
_patch_row(row, x, styles, date1904, column_styles) ==
    LET at == {i \in DOMAIN row.cells : row.cells[i].column = x.column}
        existing == row.cells[Min(at)]
        original == IF at # {} THEN existing.s ELSE _blank_cell_style(row, x.column, column_styles)
        numeric_ok == at = {} \/ existing.t = "n"
        web == web_style(styles, original, x.kind = "date")
        replacement == _cell_xml(x, web.id, numeric_ok, date1904) IN
    IF at # {} /\ existing.t = "f" THEN [verdict |-> "skipped"]
    ELSE IF web.id = 0 THEN [verdict |-> "refused"]
    ELSE [verdict |-> "patched", styles |-> web.styles,
          row |-> IF at # {} THEN [row EXCEPT !.cells[Min(at)] = replacement]
                  ELSE [row EXCEPT !.cells = InsertAt(@, position_of(@, x.column), replacement),
                                   !.spans = IF _spans_cover(@, x.column) THEN @ ELSE {}]]

\* The edits in order: those of formula cells are skipped, an unknown row or style
\* refuses all.
_patch_cells(sheet, given, styles, date1904) ==
    LET step(acc, x) ==
            IF acc.refused \/ x.row \notin DOMAIN acc.sheet.rows THEN [acc EXCEPT !.refused = TRUE]
            ELSE LET p == _patch_row(acc.sheet.rows[x.row], x, acc.styles, date1904, sheet.column_styles) IN
                 CASE p.verdict = "skipped" -> [acc EXCEPT !.skipped = Append(@, x)]
                   [] p.verdict = "refused" -> [acc EXCEPT !.refused = TRUE]
                   [] OTHER -> [acc EXCEPT !.sheet.rows[x.row] = p.row, !.styles = p.styles, !.written = Append(@, x)] IN
    FoldLeft(step, [refused |-> FALSE, sheet |-> sheet, styles |-> styles, written |-> << >>, skipped |-> << >>], given)

-----------------------------------------------------------------------------
(* Notes: a comments part and a VML drawing, which belong together.        *)

Targets(rels, type) == {r.target : r \in {x \in rels : x.type = type}}

PartNumbers(names, type) == {n \in 1..(Cardinality(names) + 1) : <<type, n>> \in names}

\* Mutant: an existing note on the cell is replaced.
_write_note_over(comments, x) ==
    [comments EXCEPT !.notes = (ref(x) :> <<x.note>>) @@ @]

\* One note per cell: ours goes below one that exists.
_write_note(comments, x) ==
    IF ref(x) \in DOMAIN comments.notes
    THEN [comments EXCEPT !.notes[ref(x)] = Append(@, x.note)]
    ELSE [comments EXCEPT !.notes = (ref(x) :> <<x.note>>) @@ @]

next_shape(vml) == Max({s.id : s \in vml.shapes} \cup {1024}) + 1

_vml_shape(vml, x) == [vml EXCEPT !.shapes = @ \cup {[id |-> next_shape(vml), at |-> ref(x)]}]

\* The parts of a sheet that has no notes yet: two free names, two free relationship ids.
_new_notes(parts) ==
    LET names == DOMAIN parts
        comments == <<"comments", _next_free(PartNumbers(names, "comments"))>>
        vml == <<"vml", _next_free(PartNumbers(names, "vml"))>>
        used == {r.id : r \in parts[<<"sheet_rels", 1>>]}
        comments_id == _next_free(used)
        vml_id == _next_free(used \cup {comments_id}) IN
    [comments |-> comments, vml |-> vml,
     parts |-> (comments :> [authors |-> <<NOTE_AUTHOR>>, notes |-> << >>]) @@ (vml :> [shapes |-> {}]) @@
               [parts EXCEPT ![<<"sheet_rels", 1>>] =
                                @ \cup {[id |-> comments_id, type |-> "comments", target |-> comments],
                                        [id |-> vml_id, type |-> "vml", target |-> vml]},
                             ![<<"sheet", 1>>].drawing = vml_id,
                             ![<<"content_types", 1>>] = @ \cup {comments, <<"vml", 0>>}]]

\* The author the notes are signed with.
_with_author(comments) ==
    IF Contains(comments.authors, NOTE_AUTHOR) THEN comments
    ELSE [comments EXCEPT !.authors = Append(@, NOTE_AUTHOR)]

_add_notes(parts, written) ==
    LET rels == parts[<<"sheet_rels", 1>>]
        fresh == Targets(rels, "comments") = {}
        p == IF fresh THEN _new_notes(parts)
             ELSE [comments |-> CHOOSE t \in Targets(rels, "comments") : TRUE,
                   vml |-> CHOOSE t \in Targets(rels, "vml") : TRUE, parts |-> parts]
        step(acc, x) ==
            [comments |-> _write_note(acc.comments, x),
             vml |-> IF ref(x) \in DOMAIN acc.comments.notes THEN acc.vml ELSE _vml_shape(acc.vml, x)]
        noted == FoldLeft(step, [comments |-> _with_author(p.parts[p.comments]), vml |-> p.parts[p.vml]], written) IN
    [parts |-> [p.parts EXCEPT ![p.comments] = noted.comments, ![p.vml] = noted.vml],
     touched |-> {p.comments, p.vml} \cup IF fresh THEN {<<"sheet_rels", 1>>, <<"content_types", 1>>} ELSE {}]

-----------------------------------------------------------------------------
(* The package.                                                            *)

_recalculate_on_open(workbook) == [workbook EXCEPT !.full_calc = TRUE]

Pivots(names) == {n \in names : n[1] = "pivot"}

_refresh_pivot_on_open(parts) == [n \in DOMAIN parts |-> IF n \in Pivots(DOMAIN parts) THEN [refresh |-> TRUE] ELSE parts[n]]

\* The sheet of that very name.
_sheet_part(workbook, sheet_name) == workbook.sheet_name = sheet_name

\* What is refused before a cell is looked at.
_refuses(package, sheet_name, given) ==
    LET parts == package.parts
        rels == IF <<"sheet_rels", 1>> \in DOMAIN parts THEN parts[<<"sheet_rels", 1>>] ELSE {} IN
    \/ Cardinality({ref(given[i]) : i \in DOMAIN given}) # Len(given)
    \/ ~_sheet_part(parts[<<"workbook", 1>>], sheet_name)
    \/ <<"sheet", 1>> \notin DOMAIN parts
    \/ parts[<<"sheet", 1>>].bytes > MAX_EDITED_PART_BYTES
    \/ \E r \in rels : r.type \in {"comments", "vml"} /\ r.target \notin DOMAIN parts

Refused(package) ==
    [status |-> "refused", package |-> package, written |-> << >>, skipped |-> << >>, touched |-> {}]

\* The written cells with their notes, or the package as it was.
_with_edits(package, parts, cells) ==
    IF cells.written = << >> THEN [parts |-> package.parts, touched |-> {}]
    ELSE _add_notes([parts EXCEPT ![<<"sheet", 1>>] = cells.sheet,
                                  ![<<"styles", 1>>] = [xfs |-> cells.styles.xfs, fills |-> cells.styles.fills]],
                    cells.written)

\* Untouched entries keep their place; new parts come last.
_repack(package, cells, noted, final) ==
    [status |-> "patched", written |-> cells.written, skipped |-> cells.skipped,
     touched |-> noted \cup {<<"workbook", 1>>} \cup Pivots(DOMAIN final) \cup
                 IF cells.written = << >> THEN {} ELSE {<<"sheet", 1>>, <<"styles", 1>>},
     package |-> [order |-> package.order \o SetToSeq(DOMAIN final \ ToSet(package.order)), parts |-> final]]

_refreshed(package, cells, noted) ==
    _repack(package, cells, noted.touched,
            _refresh_pivot_on_open([noted.parts EXCEPT ![<<"workbook", 1>>] = _recalculate_on_open(@)]))

\* Notes of which only one half is there refuse what would write one.
_patch_parts(package, parts, cells) ==
    LET rels == parts[<<"sheet_rels", 1>>]
        one_sided == (Targets(rels, "comments") = {}) # (Targets(rels, "vml") = {}) IN
    IF cells.refused \/ (cells.written # << >> /\ one_sided) THEN Refused(package)
    ELSE _refreshed(package, cells, _with_edits(package, parts, cells))

_patch(package, sheet_name, given) ==
    LET parts == IF <<"sheet_rels", 1>> \in DOMAIN package.parts THEN package.parts
                 ELSE (<<"sheet_rels", 1>> :> {}) @@ package.parts IN
    _patch_parts(package, parts,
                 _patch_cells(parts[<<"sheet", 1>>], given, parse(parts[<<"styles", 1>>]),
                              parts[<<"workbook", 1>>].date1904))

patch_workbook(package, sheet_name, given) ==
    IF _refuses(package, sheet_name, given) THEN Refused(package) ELSE _patch(package, sheet_name, given)

=============================================================================
