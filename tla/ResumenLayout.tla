--------------------------- MODULE ResumenLayout ---------------------------
(***************************************************************************)
(* resumen_layout.py: how the worksheet "Resumen" is read.  Columns are    *)
(* recognised by their header, wherever they stand; what is not read is    *)
(* named in the report.  A text is [kind, word, form]: the form tells      *)
(* apart spellings that differ in surrounding space ("padded") or in case  *)
(* and accents ("folded").  A grid is a sequence of rows of cells.         *)
(***************************************************************************)
EXTENDS Integers, Sequences, FiniteSets, FiniteSetsExt, SequencesExt, TLC

CONSTANTS
    Fields,             \* the fields of the registry an instance uses
    HEADER_SCAN_ROWS,   \* rows that may hold the header
    MIN_HEADER_MATCHES, \* fields a header row names at least
    MAX_ROWS_PER_ISSUE  \* rows an issue lists

None == "none"

-----------------------------------------------------------------------------
(* Cells.                                                                  *)

Blank == [kind |-> "blank"]
Text(word, form) == [kind |-> "text", word |-> word, form |-> form]

_is_blank(c) == c.kind \in {"blank", "spaces"}

strip(c) == [c EXCEPT !.form = IF @ = "padded" THEN "plain" ELSE @]

\* What two cells are compared by: text trimmed, a midnight datetime as its date.
_comparable(c) ==
    IF _is_blank(c) THEN Blank
    ELSE IF c.kind = "text" THEN strip(c)
    ELSE IF c.kind = "datetime" /\ c.midnight THEN [kind |-> "date", day |-> c.day]
    ELSE c

\* The day of a date, from 1 on; 0 when there is none.
_as_date(c) == IF c.kind \in {"date", "datetime"} THEN c.day ELSE 0

_EXCEL_ERROR_VALUES == {"#N/A", "#REF!"}

-----------------------------------------------------------------------------
(* The registry of fields.                                                 *)

IdentityFields == {"pmf", "rol", "numero_predio", "id_predio_unico"}
RequiredFields == {"estado", "estado_resumido", "tipo_propietario", "superficie_corta", "numero_ingreso", "empresa"}
AEF_TRACKING_FIELDS == {"aef", "quien_solicita", "fecha_solicitud", "fecha_corta", "fecha_termino"}
INGRESO_2_FIELDS == {"fecha_ingreso_2", "numero_ingreso_2"}
DateFields == {"fecha_solicitud", "fecha_corta", "fecha_termino", "fecha_ingreso", "fecha_90_dias", "fecha_ingreso_2"}
NumberFields == {"superficie_corta", "superficie_total_corta"}

FieldSpec == [tier : {"identity", "required", "expected", "optional"}, kind : {"text", "number", "date"}]

FIELD_SPECS ==
    [f \in Fields |->
        [tier |-> IF f \in IdentityFields THEN "identity" ELSE IF f \in RequiredFields THEN "required"
                  ELSE IF f \in AEF_TRACKING_FIELDS \cup INGRESO_2_FIELDS THEN "optional" ELSE "expected",
         kind |-> IF f \in DateFields THEN "date" ELSE IF f \in NumberFields THEN "number" ELSE "text"]]

_BARE_CARPETA == "carpeta"
_CARPETA_FIELDS == {"carpeta_source", "carpeta_normalizada"}

\* The headers of a field, normalised: its own and its documented aliases.
HeadersOf(f) ==
    {IF f \in _CARPETA_FIELDS THEN _BARE_CARPETA ELSE f} \cup
    CASE f = "carpeta_source" -> {"carpeta origen"}
      [] f = "carpeta_normalizada" -> {"carpeta normalizada"}
      [] f = "aef" -> {"estado aef"}
      [] f = "numero_ingreso" -> {"n ingreso1"}
      [] OTHER -> {}

\* Case, accents, punctuation and space are insignificant; a number has no field's name.
normalize_header(c) ==
    IF _is_blank(c) THEN "" ELSE IF c.kind = "text" THEN c.word ELSE "valor"

_build_alias_index ==
    [w \in UNION {HeadersOf(f) : f \in Fields} \ {_BARE_CARPETA} |-> CHOOSE f \in Fields : w \in HeadersOf(f)]

ASSUME LayoutAssumption ==
    /\ {"pmf", "superficie_corta", "id_predio_unico"} \cup _CARPETA_FIELDS \subseteq Fields
    /\ \A f, g \in Fields : f # g => HeadersOf(f) \cap HeadersOf(g) \subseteq {_BARE_CARPETA}
    /\ FIELD_SPECS \in [Fields -> FieldSpec]
    /\ {HEADER_SCAN_ROWS, MIN_HEADER_MATCHES, MAX_ROWS_PER_ISSUE} \subseteq Nat \ {0}

\* The field a header names, the marker of the shared header, or None.
_recognize(c) ==
    LET key == normalize_header(c) IN
    IF key = _BARE_CARPETA THEN _BARE_CARPETA
    ELSE IF key \in DOMAIN _build_alias_index THEN _build_alias_index[key] ELSE None

-----------------------------------------------------------------------------
(* The report.                                                             *)

\* The first limit rows and how many there are.
_capped(rows, limit) ==
    [rows |-> {r \in rows : Cardinality({x \in rows : x < r}) < limit}, row_count |-> Cardinality(rows)]

LayoutIssue(code, severity, field, columns, capped) ==
    [code |-> code, severity |-> severity, field |-> field, columns |-> columns,
     rows |-> capped.rows, row_count |-> capped.row_count]

NoRows == _capped({}, 0)

ColumnDecision(status, field) == [status |-> status, field |-> field]

FieldCoverage(f, column, filled) ==
    [field |-> f, tier |-> FIELD_SPECS[f].tier, column |-> column, filled_rows |-> filled]

LayoutReport(header_row, business_rows, columns, fields, auxiliary, issues) ==
    [header_row |-> header_row, business_rows |-> business_rows, columns |-> columns,
     fields |-> fields, auxiliary_regions |-> auxiliary, issues |-> issues]

count(report, severity) == Cardinality({i \in report.issues : i.severity = severity})

has_errors(report) == count(report, "error") > 0

mapped_fields(report) == {c.field : c \in {x \in report.fields : x.column # 0}}

LayoutResolution(report, rows) == [report |-> report, rows |-> rows]

-----------------------------------------------------------------------------
(* The header row.                                                         *)

_cell(grid, row, column) == IF column <= Len(grid[row]) THEN grid[row][column] ELSE Blank

_detect_header_row(grid) ==
    LET names(row) == {_recognize(grid[row][c]) : c \in DOMAIN grid[row]} \ {None}
        scored == {row \in 1..Len(grid) : /\ row <= HEADER_SCAN_ROWS
                                          /\ "pmf" \in names(row)
                                          /\ Cardinality(names(row)) >= MIN_HEADER_MATCHES}
        best == {row \in scored : \A x \in scored : Cardinality(names(x)) <= Cardinality(names(row))} IN
    IF scored = {}
    THEN [row |-> 0, issues |-> {LayoutIssue("encabezado_no_encontrado", "error", "pmf", {}, NoRows)}]
    ELSE IF Cardinality(best) > 1
    THEN [row |-> 0, issues |-> {LayoutIssue("encabezado_ambiguo", "error", None, {},
                                             _capped(best, Cardinality(best)))}]
    ELSE [row |-> Min(best), issues |-> {}]

-----------------------------------------------------------------------------
(* Which columns are the table.                                            *)

\* What the header row and the rows below it say of each column.
scan_columns(grid, header_row) ==
    LET width == Max({Len(grid[r]) : r \in DOMAIN grid} \cup {0})
        data_rows == (header_row + 1)..Len(grid)
        has_data(c) == \E r \in data_rows : ~_is_blank(_cell(grid, r, c)) IN
    [width |-> width, data_rows |-> data_rows,
     recognized |-> [c \in 1..width |-> _recognize(_cell(grid, header_row, c))],
     labelled |-> {c \in 1..width : ~_is_blank(_cell(grid, header_row, c))},
     blank |-> {c \in 1..width : _is_blank(_cell(grid, header_row, c)) /\ ~has_data(c)}]

\* Maximal runs of columns that are not blank.
blocks(s) ==
    {b \in {i..j : i, j \in 1..s.width} :
        /\ b # {} /\ b \cap s.blank = {}
        /\ {Min(b) - 1, Max(b) + 1} \cap (1..s.width) \subseteq s.blank}

block_fields(s, block) == {s.recognized[c] : c \in block} \ {None, _BARE_CARPETA}

\* The first block with the PMF, and every other that adds a field; the rest is not read.
join_blocks(s) ==
    LET main == CHOOSE b \in blocks(s) :
                    /\ "pmf" \in block_fields(s, b)
                    /\ \A x \in blocks(s) : "pmf" \in block_fields(s, x) => Min(b) <= Min(x)
        others == SetToSortSeq(blocks(s) \ {main}, LAMBDA a, b : Min(a) < Min(b))
        join(t, block) ==
            LET new_fields == block_fields(s, block) \ t.fields IN
            IF new_fields # {}
            THEN [t EXCEPT !.columns = @ \cup block, !.fields = @ \cup new_fields, !.joined = @ \cup {block}]
            ELSE [t EXCEPT !.auxiliary = @ \cup {block}] IN
    FoldLeft(join, [columns |-> main, fields |-> block_fields(s, main), joined |-> {}, auxiliary |-> {}], others)

SeparatorsWithin(s, t) == {c \in Min(t.columns)..Max(t.columns) : c \in s.blank \ t.columns}

block_issues(s, t) ==
    (IF t.joined = {} THEN {}
     ELSE {LayoutIssue("columna_vacia_intermedia", "warning", None, SeparatorsWithin(s, t), NoRows)}) \cup
    (IF t.auxiliary = {} THEN {}
     ELSE {LayoutIssue("region_auxiliar_ignorada", "info", None, {Min(b) : b \in t.auxiliary}, NoRows)})

-----------------------------------------------------------------------------
(* The two columns called Carpeta.                                         *)

_nearest_recognized(s, t, column, step) ==
    LET side == {c \in t.columns : /\ IF step < 0 THEN c < column ELSE c > column
                                   /\ s.recognized[c] \notin {None, _BARE_CARPETA}} IN
    IF side = {} THEN None ELSE s.recognized[IF step < 0 THEN Max(side) ELSE Min(side)]

\* Bound only when exactly one neighbour rule holds, and to no field twice.
_resolve_carpeta_columns(s, t) ==
    LET candidates == {c \in t.columns : s.recognized[c] = _BARE_CARPETA}
        is_source(c) == _nearest_recognized(s, t, c, -1) = "pmf"
        is_normalized(c) == \/ _nearest_recognized(s, t, c, -1) = "tramite"
                            \/ _nearest_recognized(s, t, c, 1) = "sector"
        clear == {c \in candidates : is_source(c) # is_normalized(c)}
        claim(c) == IF is_source(c) THEN "carpeta_source" ELSE "carpeta_normalizada"
        claimed(f) == {c \in clear : claim(c) = f} IN
    [assigned |-> [c \in {x \in clear : claimed(claim(x)) = {x}} |-> claim(c)],
     issues |-> {LayoutIssue("carpeta_ambigua", "error", None, {c}, NoRows) : c \in candidates \ clear} \cup
                {LayoutIssue("carpeta_ambigua", "error", f, claimed(f), NoRows) :
                    f \in {x \in _CARPETA_FIELDS : Cardinality(claimed(x)) > 1}}]

-----------------------------------------------------------------------------
(* Columns, duplicates and missing fields.                                 *)

\* Mutant: reading ends at a header that was met before.
group_columns_up_to_repeated(s, t, carpeta) ==
    LET repeated == {c \in t.columns : s.recognized[c] # None /\ \E x \in t.columns : x < c /\ s.recognized[x] = s.recognized[c]}
        after == {c \in t.columns : c \notin DOMAIN carpeta.assigned /\ \E x \in repeated : x < c} IN
    [groups |-> [f \in Fields |->
        {c \in t.columns \ after : s.recognized[c] = f \/ (c \in DOMAIN carpeta.assigned /\ carpeta.assigned[c] = f)}],
     unlabeled |-> {c \in t.columns : s.recognized[c] = None /\ c \notin s.labelled},
     unrecognized |-> after \cup {c \in t.columns : s.recognized[c] = None /\ c \in s.labelled},
     ambiguous |-> {c \in t.columns : s.recognized[c] = _BARE_CARPETA /\ c \notin DOMAIN carpeta.assigned}]

\* The columns of the table by what their header is.
group_columns(s, t, carpeta) ==
    [groups |-> [f \in Fields |->
        {c \in t.columns : s.recognized[c] = f \/ (c \in DOMAIN carpeta.assigned /\ carpeta.assigned[c] = f)}],
     unlabeled |-> {c \in t.columns : s.recognized[c] = None /\ c \notin s.labelled},
     unrecognized |-> {c \in t.columns : s.recognized[c] = None /\ c \in s.labelled},
     ambiguous |-> {c \in t.columns : s.recognized[c] = _BARE_CARPETA /\ c \notin DOMAIN carpeta.assigned}]

ignored_issues(grid, s, g) ==
    (IF g.unrecognized = {} THEN {}
     ELSE {LayoutIssue("columna_no_reconocida", "info", None, g.unrecognized, NoRows)}) \cup
    (IF g.unlabeled = {} THEN {}
     ELSE {LayoutIssue("columna_sin_encabezado", "warning", None, g.unlabeled,
                       _capped({r \in s.data_rows : \E c \in g.unlabeled : ~_is_blank(_cell(grid, r, c))},
                               MAX_ROWS_PER_ISSUE))})

conflicting_rows(grid, s, columns) ==
    {r \in s.data_rows : Cardinality({_comparable(_cell(grid, r, c)) : c \in columns}) > 1}

\* Mutant: of two columns of one field the first is used, whatever they hold.
first_columns(grid, s, g) ==
    LET found == {f \in Fields : g.groups[f] # {}} IN
    [field_column |-> [f \in found |-> Min(g.groups[f])], conflicting |-> {},
     issues |-> {LayoutIssue("encabezado_duplicado_identico", "warning", f, g.groups[f], NoRows) :
                    f \in {x \in found : Cardinality(g.groups[x]) > 1}}]

\* Several columns of one field: the first one if they agree, none if they do not.
field_columns(grid, s, g) ==
    LET found == {f \in Fields : g.groups[f] # {}}
        conflicting == {f \in found : conflicting_rows(grid, s, g.groups[f]) # {}}
        repeated == {f \in found \ conflicting : Cardinality(g.groups[f]) > 1} IN
    [field_column |-> [f \in found \ conflicting |-> Min(g.groups[f])],
     conflicting |-> conflicting,
     issues |-> {LayoutIssue("encabezado_duplicado_conflictivo", "error", f, g.groups[f],
                             _capped(conflicting_rows(grid, s, g.groups[f]), MAX_ROWS_PER_ISSUE)) : f \in conflicting} \cup
                {LayoutIssue("encabezado_duplicado_identico", "warning", f, g.groups[f], NoRows) : f \in repeated}]

column_decisions(s, t, g, field_column) ==
    LET separators == {c \in Min(t.columns)..(Max(t.columns) + 1) : c \in s.blank \ t.columns}
        owner(c) == CHOOSE f \in Fields : c \in g.groups[f] IN
    [c \in t.columns \cup separators |->
        CASE c \in separators -> ColumnDecision("separator", None)
          [] c \in g.unlabeled -> ColumnDecision("unlabeled_data_ignored", None)
          [] c \in g.unrecognized \cup g.ambiguous -> ColumnDecision("unrecognized_ignored", None)
          [] OTHER -> ColumnDecision(IF owner(c) \in DOMAIN field_column /\ field_column[owner(c)] = c
                                     THEN "mapped" ELSE "duplicate_ignored", owner(c))]

\* A field without a column, unless an error already names it.
missing_fields(field_column, issues) ==
    LET missing == {f \in Fields : /\ f \notin DOMAIN field_column
                                   /\ ~\E i \in issues : i.field = f /\ i.severity = "error"
                                   /\ f \in _CARPETA_FIELDS => ~\E i \in issues : i.code = "carpeta_ambigua"}
        tier(f) == FIELD_SPECS[f].tier IN
    {CASE tier(f) \in {"identity", "required"} -> LayoutIssue("columna_esencial_ausente", "error", f, {}, NoRows)
       [] tier(f) = "expected" -> LayoutIssue("columna_esperada_ausente", "warning", f, {}, NoRows)
       [] OTHER -> LayoutIssue("columna_opcional_ausente", "info", f, {}, NoRows) : f \in missing}

coverage(field_column, filled) ==
    {FieldCoverage(f, IF f \in DOMAIN field_column THEN field_column[f] ELSE 0,
                   IF f \in DOMAIN filled THEN filled[f] ELSE 0) : f \in Fields}

=============================================================================
