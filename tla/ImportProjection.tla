-------------------------- MODULE ImportProjection --------------------------
(***************************************************************************)
(* import_projection.py: the rows of an accepted workbook in the shape of  *)
(* the database, the aggregates of the import, and the comparison of what  *)
(* was parsed with what was stored.                                        *)
(***************************************************************************)
EXTENDS ResumenRows

Float(v) == [nan |-> FALSE, v |-> v]
NaN == [nan |-> TRUE, v |-> 0]

\* A cell as text: a whole number without decimals, a date in ISO form, trimmed.
_text(c) ==
    CASE _is_blank(c) -> Blank
      [] c.kind = "text" -> strip(c)
      [] c.kind = "number" -> Text(ToString(c.v), "plain")
      [] c.kind = "date" \/ (c.kind = "datetime" /\ c.midnight) -> Text("dia " \o ToString(c.day), "plain")
      [] c.kind = "datetime" -> Text("dia y hora " \o ToString(c.day), "plain")
      [] OTHER -> Text(c.kind, "plain")

_number(c) ==
    CASE c.kind = "number" -> Float(c.v)
      [] c.kind = "text" /\ c.word = "7" -> Float(7)
      [] c.kind = "text" /\ c.word = "nan" -> NaN
      [] OTHER -> Blank

_date(c) == IF c.kind \in {"date", "datetime"} THEN [kind |-> "date", day |-> c.day] ELSE Blank

_COERCERS(kind, c) == CASE kind = "text" -> _text(c) [] kind = "number" -> _number(c) [] OTHER -> _date(c)

\* The workbook's own key, or one put together from the PMF, the rol and the number.
resolve_predio_group_key(columns) ==
    IF columns["id_predio_unico"] # Blank THEN [id_predio_unico |-> columns["id_predio_unico"]]
    ELSE [f \in {"pmf", "rol", "numero_predio"} \cap Fields |-> columns[f]]

_project_row(row) ==
    LET columns == [f \in Fields |->
            IF f \in DOMAIN row.text_dates /\ row.text_dates[f].parsed # 0
            THEN [kind |-> "date", day |-> row.text_dates[f].parsed]
            ELSE _COERCERS(FIELD_SPECS[f].kind, row.values[f])] IN
    [source_row_number |-> row.source_row_number, columns |-> columns, source_text_dates |-> row.text_dates,
     predio_group_key |-> resolve_predio_group_key(columns)]

RowColumn(rows, f) == {row.columns[f] : row \in rows}

Total(rows) ==
    LET known == {row \in rows : row.columns["superficie_corta"] # Blank} IN
    IF \E row \in known : row.columns["superficie_corta"].nan THEN NaN
    ELSE Float(MapThenSumSet(LAMBDA row : row.columns["superficie_corta"].v, known))

aggregates(loaded, rows) ==
    [business_rows |-> Cardinality(rows),
     distinct_pmf |-> Cardinality(RowColumn(rows, "pmf")),
     distinct_predios |-> Cardinality(RowColumn(rows, "id_predio_unico") \ {Blank}),
     surface_total |-> Total(rows), warning_count |-> count(loaded.report, "warning")]

\* The projection of what passed the gate, and the rows that have no PMF after it.
project(loaded, rows) ==
    [status |-> IF ~loaded.loaded THEN "refused"
                ELSE IF Blank \in RowColumn(rows, "pmf") THEN "projection_error" ELSE "valid",
     report |-> loaded.report, rows |-> rows, aggregates |-> aggregates(loaded, rows)]

ProjectLoaded(loaded) == project(loaded, {_project_row(row) : row \in loaded.rows})

read_validated_workbook(book) == ProjectLoaded(load_transelec_workbook(book))

\* One row per projected row, under the number of its worksheet row.
_insert_rows(validated) == {[row EXCEPT !.source_text_dates = IF DOMAIN @ = {} THEN << >> ELSE @] : row \in validated.rows}

read_persisted_aggregates(stored) ==
    [business_rows |-> Cardinality(stored),
     distinct_pmf |-> Cardinality(RowColumn(stored, "pmf") \ {Blank}),
     distinct_predios |-> Cardinality(RowColumn(stored, "id_predio_unico") \ {Blank}),
     surface_total |-> Total(stored)]

\* NaN is close to nothing, itself included.
_verify_invariants(expected, persisted) ==
    /\ persisted.business_rows = expected.business_rows
    /\ persisted.distinct_pmf = expected.distinct_pmf
    /\ persisted.distinct_predios = expected.distinct_predios
    /\ persisted.surface_total = expected.surface_total /\ ~expected.surface_total.nan

\* Nothing is stored unless the gate, the projection and the comparison all pass.
persist(validated, stored) ==
    LET verified == _verify_invariants(validated.aggregates, read_persisted_aggregates(stored)) IN
    IF validated.status # "valid"
    THEN [status |-> validated.status, report |-> validated.report, rows |-> {}, aggregates |-> validated.aggregates]
    ELSE [status |-> IF verified THEN "imported" ELSE "invariant_error", report |-> validated.report,
          rows |-> IF verified THEN stored ELSE {}, aggregates |-> validated.aggregates]

PersistValidated(validated) == persist(validated, _insert_rows(validated))

validate_and_project(book) == PersistValidated(read_validated_workbook(book))

=============================================================================
