----------------------------- MODULE ResumenRows -----------------------------
(***************************************************************************)
(* resumen_layout.py and xlsx_contract.py: the rows of a recognised table, *)
(* the issues their cells raise, and the gate on the whole workbook.  A    *)
(* worksheet cell is [value, xml]: what it shows and whether the sheet's   *)
(* XML has it as a plain value, a formula with or without its result, or   *)
(* an error.                                                               *)
(***************************************************************************)
EXTENDS ResumenLayout

-----------------------------------------------------------------------------
(* The two readings of a workbook.                                         *)

\* The library's reading: an error, or a formula without a result, is blank.
to_python(sheet) ==
    [r \in DOMAIN sheet |-> [c \in DOMAIN sheet[r] |->
        IF sheet[r][c].xml \in {"uncached", "error"} THEN Blank ELSE sheet[r][c].value]]

\* The formula and error cells of the sheet's XML; nothing when it cannot be read.
scan_formula_cells(book) ==
    LET sheet == book.sheet
        cells == IF book.scannable
                 THEN {p \in (DOMAIN sheet) \X (1..Max({Len(sheet[r]) : r \in DOMAIN sheet} \cup {0})) :
                          p[2] <= Len(sheet[p[1]]) /\ sheet[p[1]][p[2]].xml # "plain"}
                 ELSE {} IN
    [p \in cells |-> LET xml == sheet[p[1]][p[2]].xml IN
        [formula |-> xml \in {"cached", "uncached"}, cached |-> xml = "cached", error |-> xml = "error"]]

\* The sheet called Resumen, whatever its case and spacing; two are ambiguous.
find_resumen_sheet(names) ==
    LET matches == {n \in DOMAIN names : normalize_header(names[n]) = "resumen"} IN
    IF Cardinality(matches) = 1 THEN [sheet |-> Min(matches), issues |-> {}]
    ELSE [sheet |-> 0,
          issues |-> {LayoutIssue(IF matches = {} THEN "hoja_resumen_ausente" ELSE "hoja_resumen_ambigua",
                                  "error", None, {}, NoRows)}]

-----------------------------------------------------------------------------
(* Text in a date column.                                                  *)

\* The texts an instance meets: a dash, dates written out, one in figures, two at once.
_SPANISH_LONG_DATE == [word \in {"13 de marzo", "20 de marzo"} |-> IF word = "13 de marzo" THEN 13 ELSE 20]
SeveralDates == {"12-03-2024 y 13 de marzo"}
_PLACEHOLDER == {"-"}

TextDateEvidence(raw, resolution, parsed) == [raw |-> raw, resolution |-> resolution, parsed |-> parsed]

NoTextDate == TextDateEvidence(Blank, None, 0)

\* Only one date, written out and on the calendar, is read; the text is always kept.
classify_text_date(value) ==
    LET raw == strip(value) IN
    CASE value.word \in _PLACEHOLDER -> TextDateEvidence(raw, "placeholder", 0)
      [] value.word \in SeveralDates -> TextDateEvidence(raw, "multiple_dates", 0)
      [] value.word \in DOMAIN _SPANISH_LONG_DATE ->
            TextDateEvidence(raw, "parsed_spanish_long", _SPANISH_LONG_DATE[value.word])
      [] OTHER -> TextDateEvidence(raw, "unrecognized", 0)

_TEXT_DATE_ISSUES ==
    [parsed_spanish_long |-> [code |-> "fecha_texto_interpretada", severity |-> "info"],
     multiple_dates |-> [code |-> "fecha_texto_multiple", severity |-> "warning"],
     placeholder |-> [code |-> "fecha_texto_guion", severity |-> "warning"],
     unrecognized |-> [code |-> "fecha_no_reconocida", severity |-> "warning"]]

\* Text that Python's float() reads, "nan" among it.
NumericText == {"7", "nan"}

_is_number_like(c) == c.kind = "number" \/ (c.kind = "text" /\ c.word \in NumericText)

-----------------------------------------------------------------------------
(* One cell and one row.                                                   *)

CellReading(value, finding, formula, text_date) ==
    [value |-> value, finding |-> finding, formula |-> formula, text_date |-> text_date]

\* What the row keeps of a cell and what has to be said of it.
read_cell(name, value, evidence) ==
    IF evidence.error THEN CellReading(Blank, "excel_error", None, NoTextDate)
    ELSE LET formula == IF ~evidence.formula THEN None ELSE IF evidence.cached THEN "cached" ELSE "uncached"
             kind == FIELD_SPECS[name].kind IN
    IF _is_blank(value) THEN CellReading(Blank, None, formula, NoTextDate)
    ELSE IF value.kind = "text" /\ value.word \in _EXCEL_ERROR_VALUES
    THEN CellReading(Blank, "excel_error", formula, NoTextDate)
    ELSE IF kind = "date" /\ _as_date(value) = 0
    THEN IF value.kind = "text" THEN CellReading(value, "text_date", formula, classify_text_date(value))
         ELSE CellReading(value, "bad_date", formula, NoTextDate)
    ELSE IF kind = "number" /\ ~_is_number_like(value)
    THEN CellReading(value, "bad_number", formula, NoTextDate)
    ELSE CellReading(value, None, formula, NoTextDate)

NoEvidence == [formula |-> FALSE, cached |-> FALSE, error |-> FALSE]

evidence_at(formula_cells, r, c) ==
    IF <<r, c>> \in DOMAIN formula_cells THEN formula_cells[<<r, c>>] ELSE NoEvidence

\* A row blank in every mapped column is skipped; one without a PMF is only reported.
business_rows(grid, s, field_column) ==
    LET has_value(r) == \E f \in DOMAIN field_column : ~_is_blank(_cell(grid, r, field_column[f]))
        has_pmf(r) == ~_is_blank(_cell(grid, r, field_column["pmf"])) IN
    [imported |-> {r \in s.data_rows : has_pmf(r)},
     without_pmf |-> {r \in s.data_rows : has_value(r) /\ ~has_pmf(r)}]

read_rows(grid, s, field_column, formula_cells) ==
    {[source_row_number |-> r,
      cells |-> [f \in DOMAIN field_column |->
                    read_cell(f, _cell(grid, r, field_column[f]), evidence_at(formula_cells, r, field_column[f]))]] :
        r \in business_rows(grid, s, field_column).imported}

ResolvedRow(row) ==
    [source_row_number |-> row.source_row_number,
     values |-> [f \in Fields |-> IF f \in DOMAIN row.cells THEN row.cells[f].value ELSE Blank],
     text_dates |-> [f \in {x \in DOMAIN row.cells : row.cells[x].finding = "text_date"} |-> row.cells[f].text_date]]

\* A field's value for comparisons: the date read from a text, else the text, else the cell.
effective(row, f) ==
    IF f \in DOMAIN row.text_dates
    THEN IF row.text_dates[f].parsed # 0 THEN [kind |-> "date", day |-> row.text_dates[f].parsed]
         ELSE row.text_dates[f].raw
    ELSE row.values[f]

-----------------------------------------------------------------------------
(* The issues of the rows.                                                 *)

\* One issue per field and kind of finding, naming its rows.
finding_issues(rows, field_column) ==
    LET having(f, finding) == {r.source_row_number : r \in {x \in rows : x.cells[f].finding = finding}}
        issue(f, finding, code) ==
            IF having(f, finding) = {} THEN {}
            ELSE {LayoutIssue(code, "warning", f, {field_column[f]}, _capped(having(f, finding), MAX_ROWS_PER_ISSUE))} IN
    UNION {issue(f, "bad_date", "fecha_no_reconocida") \cup issue(f, "bad_number", "numero_no_reconocido") \cup
           issue(f, "excel_error", "error_de_formula") : f \in DOMAIN field_column}

formula_issues(rows, field_column) ==
    LET having(f, formula) == {r.source_row_number : r \in {x \in rows : x.cells[f].formula = formula}} IN
    {LayoutIssue("formula_sin_valor", "warning", f, {field_column[f]},
                 _capped(having(f, "uncached"), MAX_ROWS_PER_ISSUE)) :
        f \in {x \in DOMAIN field_column : having(x, "uncached") # {}}} \cup
    {LayoutIssue("columna_con_formulas", "info", f, {field_column[f]}, _capped(having(f, "cached"), 0)) :
        f \in {x \in DOMAIN field_column : having(x, "cached") # {}}}

\* Every row of a date column that holds text is listed, by how the text was read.
text_date_issues(rows, field_column) ==
    LET having(f, resolution) ==
            {r.source_row_number : r \in {x \in rows : /\ x.cells[f].finding = "text_date"
                                                       /\ x.cells[f].text_date.resolution = resolution}}
        issue(f, resolution) ==
            IF having(f, resolution) = {} THEN {}
            ELSE {LayoutIssue(_TEXT_DATE_ISSUES[resolution].code, _TEXT_DATE_ISSUES[resolution].severity, f,
                              {field_column[f]}, _capped(having(f, resolution), Cardinality(rows)))} IN
    UNION {issue(f, resolution) : f \in DOMAIN field_column, resolution \in DOMAIN _TEXT_DATE_ISSUES}

without_pmf_issues(without_pmf, field_column) ==
    IF without_pmf = {} THEN {}
    ELSE {LayoutIssue("fila_sin_pmf", "warning", "pmf", {field_column["pmf"]}, _capped(without_pmf, MAX_ROWS_PER_ISSUE))}

CHRONOLOGY_RULES ==
    {[earlier |-> "fecha_solicitud", later |-> "fecha_corta", code |-> "cronologia_corta_antes_de_solicitud"],
     [earlier |-> "fecha_corta", later |-> "fecha_termino", code |-> "cronologia_termino_antes_de_corta"],
     [earlier |-> "fecha_solicitud", later |-> "fecha_termino", code |-> "cronologia_termino_antes_de_solicitud"]}

chronology_flags(row) ==
    {x \in CHRONOLOGY_RULES :
        /\ {x.earlier, x.later} \subseteq Fields
        /\ LET first == _as_date(effective(row, x.earlier))
               second == _as_date(effective(row, x.later)) IN
           first # 0 /\ second # 0 /\ second < first}

_chronology_issues(row, field_column) ==
    {LayoutIssue(x.code, "warning", x.later, {field_column[f] : f \in {x.earlier, x.later} \cap DOMAIN field_column},
                 _capped({row.source_row_number}, 1)) : x \in chronology_flags(row)}

\* A tracking field with two different values among the rows of one PMF.
_pmf_conflict_issues(rows, field_column) ==
    LET pmf(row) == _comparable(row.values["pmf"])
        given(row, f) == {x \in rows : pmf(x) = pmf(row) /\ ~_is_blank(effective(x, f))}
        conflict(row, f) == Cardinality({_comparable(effective(x, f)) : x \in given(row, f)}) > 1
        affected(f) == {x.source_row_number : x \in UNION {given(row, f) : row \in {r \in rows : conflict(r, f)}}} IN
    {LayoutIssue("aef_conflicto_pmf", "warning", f, {field_column[f]}, _capped(affected(f), Cardinality(rows))) :
        f \in {x \in AEF_TRACKING_FIELDS \cap DOMAIN field_column : affected(x) # {}}}

-----------------------------------------------------------------------------
(* The whole sheet.                                                        *)

filled_rows(rows, field_column) ==
    [f \in DOMAIN field_column |-> Cardinality({x \in rows : ~_is_blank(x.cells[f].value)})]

\* What is bound and decided, once every field has at most one column.
bind_columns(s, t, g, chosen, found) ==
    [scan |-> s, table |-> t, field_column |-> chosen.field_column,
     decisions |-> column_decisions(s, t, g, chosen.field_column),
     issues |-> found \cup missing_fields(chosen.field_column, found)]

choose_columns(grid, s, t, g, carpeta_issues, chosen) ==
    bind_columns(s, t, g, chosen,
                 block_issues(s, t) \cup carpeta_issues \cup ignored_issues(grid, s, g) \cup chosen.issues)

label_columns(grid, s, t, carpeta) ==
    LET g == group_columns(s, t, carpeta) IN
    choose_columns(grid, s, t, g, carpeta.issues, field_columns(grid, s, g))

\* The columns of a recognised header: the bindings, the decisions, the issues.
resolve_columns(grid, header_row) ==
    LET s == scan_columns(grid, header_row)
        t == join_blocks(s) IN
    label_columns(grid, s, t, _resolve_carpeta_columns(s, t))

\* The issues of the rows that were read; no row is an error too.
row_issues(fc, read, rows, without_pmf) ==
    UNION {_chronology_issues(row, fc) : row \in rows} \cup
    without_pmf_issues(without_pmf, fc) \cup
    text_date_issues(read, fc) \cup finding_issues(read, fc) \cup formula_issues(read, fc) \cup
    _pmf_conflict_issues(rows, fc) \cup
    (IF rows = {} THEN {LayoutIssue("sin_filas_con_pmf", "error", "pmf", {fc["pmf"]}, NoRows)} ELSE {})

\* The rows, once the columns have no error.
resolve_rows(grid, columns, formula_cells) ==
    LET fc == columns.field_column
        read == read_rows(grid, columns.scan, fc, formula_cells)
        rows == {ResolvedRow(x) : x \in read} IN
    [rows |-> rows, filled |-> filled_rows(read, fc),
     issues |-> row_issues(fc, read, rows, business_rows(grid, columns.scan, fc).without_pmf)]

\* An error in the columns: no row is read.
report_columns(header, columns) ==
    LayoutResolution(LayoutReport(header.row, 0, columns.decisions, coverage(columns.field_column, << >>),
                                  columns.table.auxiliary, columns.issues), {})

report_rows(header, columns, rows) ==
    LayoutResolution(LayoutReport(header.row, Cardinality(rows.rows), columns.decisions,
                                  coverage(columns.field_column, rows.filled),
                                  columns.table.auxiliary, columns.issues \cup rows.issues), rows.rows)

resolve_below_header(grid, formula_cells, header, columns) ==
    IF \E i \in columns.issues : i.severity = "error" THEN report_columns(header, columns)
    ELSE report_rows(header, columns, resolve_rows(grid, columns, formula_cells))

resolve_resumen_layout(grid, formula_cells) ==
    LET header == _detect_header_row(grid) IN
    IF header.row = 0
    THEN LayoutResolution(LayoutReport(0, 0, << >>, coverage(<< >>, << >>), {}, header.issues), {})
    ELSE resolve_below_header(grid, formula_cells, header, resolve_columns(grid, header.row))

\* The gate: an error refuses the workbook.
ResumenWorkbook(resolution) ==
    [loaded |-> ~has_errors(resolution.report), report |-> resolution.report,
     rows |-> IF has_errors(resolution.report) THEN {} ELSE resolution.rows]

\* xlsx_contract: no sheet, an empty one, or an error.
load_transelec_workbook(book) ==
    LET found == find_resumen_sheet(book.names) IN
    IF found.sheet = 0 \/ book.sheet = << >>
    THEN [loaded |-> FALSE, report |-> LayoutReport(0, 0, << >>, {}, {}, found.issues), rows |-> {}]
    ELSE ResumenWorkbook(resolve_resumen_layout(to_python(book.sheet), scan_formula_cells(book)))

=============================================================================
