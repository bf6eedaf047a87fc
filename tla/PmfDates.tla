------------------------------ MODULE PmfDates ------------------------------
(***************************************************************************)
(* Facts of a PMF read from the cells of all its rows: CONAF's term in     *)
(* business days (plazo_conaf) and the AEF tracking block (aef_view).  A   *)
(* date cell is [date, raw]: the date, or the text that could not be read  *)
(* as one date.                                                            *)
(***************************************************************************)
EXTENDS StatusRollups

CONSTANTS
    Holidays,           \* days the calendar of Chile marks
    LastDay,            \* the last day a date can hold
    PLAZO_HABILES,      \* business days CONAF has
    POR_VENCER_UMBRAL   \* business days left that are a warning

ASSUME PlazoAssumption ==
    /\ {LastDay, PLAZO_HABILES, POR_VENCER_UMBRAL} \subseteq Nat
    /\ 0 < POR_VENCER_UMBRAL /\ POR_VENCER_UMBRAL < PLAZO_HABILES

Days == 0..LastDay

DateCell == [date : Days \cup {None}, raw : Labels \cup {None}]

-----------------------------------------------------------------------------
(* One value for a PMF.                                                    *)

PmfValueVariant == [value : UNION {[date : Days], [text : Labels]}, source_rows : SUBSET Nat]

PmfFieldValue == [status : {"value", "blank", "conflict"}, value : UNION {[date : Days], [text : Labels], {None}},
                  source_rows : SUBSET Nat, variants : SUBSET PmfValueVariant]

\* entries are pairs of a row number and its value, tagged by its type; blank ones
\* say nothing.  Two different values are a conflict and none is chosen.
resolve_pmf_field(entries) ==
    LET given == {e \in entries : e[2] # None}
        variants == {[value |-> v, source_rows |-> {e[1] : e \in {x \in given : x[2] = v}}] :
                        v \in {e[2] : e \in given}} IN
    [status |-> IF variants = {} THEN "blank" ELSE IF Cardinality(variants) = 1 THEN "value" ELSE "conflict",
     value |-> IF Cardinality(variants) = 1 THEN (CHOOSE x \in variants : TRUE).value ELSE None,
     source_rows |-> {e[1] : e \in given},
     variants |-> variants]

\* A date, else the text that was not read as one, else None.
value_or_unread_text(cell) ==
    IF cell.date # None THEN [date |-> cell.date]
    ELSE IF cell.raw # None THEN [text |-> cell.raw] ELSE None

IsDate(value) == value # None /\ "date" \in DOMAIN value

-----------------------------------------------------------------------------
(* plazo_conaf_90_habiles_v1                                               *)

PLAZO_ESTADO_ORDER ==
    {"vencido", "por_vencer", "en_plazo", "sin_fecha", "sin_fecha_texto", "conflicto", "no_aplica"}

PmfPlazo ==
    [row : Nat, estado : PLAZO_ESTADO_ORDER, base_field : {None, "fecha_ingreso", "fecha_ingreso_2"},
     base_date : Days \cup {None}, base_rows : SUBSET Nat, deadline : Days \cup {None},
     elapsed : Nat \cup {None}, remaining : Int \cup {None}, planilla : Days \cup {None},
     cruce : {"coincide", "difiere", "sin_dato", "sin_calculo"}, diferencia : Int \cup {None},
     legacy_vencido : BOOLEAN]

PlazoSummary(x, pmfs) ==
    /\ {x.observed_on, x.total, x.difiere, x.legacy} \subseteq Nat
    /\ IsTable(x.pmfs, pmfs, PmfPlazo) /\ x.estados \in [PLAZO_ESTADO_ORDER -> Nat]

is_business_day(day) == day % 7 < 5 /\ day \notin Holidays

\* The count-th business day after start, walking day by day; None when the walk
\* leaves the range of dates.
add_business_days(start, count) ==
    LET walk[day \in Days] ==
            [found \in 0..count |->
                IF found = count THEN day
                ELSE IF day = LastDay THEN None
                ELSE walk[day + 1][IF is_business_day(day + 1) THEN found + 1 ELSE found]] IN
    walk[start][0]

business_days_between(start, end) ==
    Cardinality({day \in (start + 1)..end : is_business_day(day)})

date_value(r, name) == value_or_unread_text(r[name])

_resolve(rows, name) == resolve_pmf_field({<<r.n, date_value(r, name)>> : r \in rows})

base_of(name, found) ==
    IF found.status = "blank" THEN [blocked |-> "sin_fecha", field |-> None, date |-> None, rows |-> {}]
    ELSE [blocked |-> IF found.status = "conflict" THEN "conflicto"
                      ELSE IF IsDate(found.value) THEN None ELSE "sin_fecha_texto",
          field |-> name, rows |-> found.source_rows,
          date |-> IF IsDate(found.value) THEN found.value.date ELSE None]

\* What the term is counted from: the reingreso, and the first ingreso only if no row
\* has one.  An unreadable or conflicting date blocks the term.
_base(rows) ==
    IF _resolve(rows, "fecha_ingreso_2").status # "blank"
    THEN base_of("fecha_ingreso_2", _resolve(rows, "fecha_ingreso_2"))
    ELSE base_of("fecha_ingreso", _resolve(rows, "fecha_ingreso"))

cruce_of(found, deadline) ==
    LET planilla == IF IsDate(found.value) THEN found.value.date ELSE None IN
    IF deadline = None THEN [cruce |-> "sin_calculo", planilla |-> planilla, diferencia |-> None]
    ELSE IF planilla = None THEN [cruce |-> "sin_dato", planilla |-> None, diferencia |-> None]
    ELSE [cruce |-> IF planilla = deadline THEN "coincide" ELSE "difiere",
          planilla |-> planilla, diferencia |-> planilla - deadline]

\* The planilla's own deadline against the computed one.
_cruce(rows, deadline) == cruce_of(_resolve(rows, "fecha_90_dias"), deadline)

is_legacy_vencido(r, today) ==
    /\ ~Says(r.estado_resumido, "=Aprobado")
    /\ r.fecha_90_dias.date # None /\ r.fecha_90_dias.date < today

Estado(deadline, remaining, today) ==
    IF today > deadline THEN "vencido"
    ELSE IF remaining <= POR_VENCER_UMBRAL THEN "por_vencer" ELSE "en_plazo"

\* Mutant: the dates of the rows the filter kept.
FactsInScope(pmf, rows, pmf_rows) == {r \in rows : r.pmf = pmf}

\* The rows a PMF's dates are read from: all of the version's.
Facts(pmf, rows, pmf_rows) ==
    LET every == {r \in pmf_rows : r.pmf = pmf} IN
    IF every # {} THEN every ELSE {r \in rows : r.pmf = pmf}

\* A deadline past the last date blocks the term; a closed PMF has none.
term_of(closed, scoped, base, deadline, cruce, today) ==
    LET date == IF deadline = None THEN None ELSE base.date
        blocked == IF base.date # None /\ deadline = None THEN "sin_fecha_texto" ELSE base.blocked
        counts == ~closed /\ blocked = None
        elapsed == business_days_between(date, today) IN
    [row |-> Min({r.n : r \in scoped}),
     estado |-> IF closed THEN "no_aplica" ELSE IF ~counts THEN blocked
                ELSE Estado(deadline, PLAZO_HABILES - elapsed, today),
     base_field |-> base.field, base_date |-> date, base_rows |-> base.rows, deadline |-> deadline,
     elapsed |-> IF counts THEN elapsed ELSE None,
     remaining |-> IF counts THEN PLAZO_HABILES - elapsed ELSE None,
     planilla |-> cruce.planilla, cruce |-> cruce.cruce, diferencia |-> cruce.diferencia,
     legacy_vencido |-> \E r \in scoped : is_legacy_vencido(r, today)]

term_from(closed, scoped, facts, base, today) ==
    LET deadline == IF base.date = None THEN None ELSE add_business_days(base.date, PLAZO_HABILES) IN
    term_of(closed, scoped, base, deadline, _cruce(facts, deadline), today)

PlazoOf(pmf, rows, pmf_rows, today, closed) ==
    LET facts == Facts(pmf, rows, pmf_rows) IN
    term_from(pmf \in closed, {r \in rows : r.pmf = pmf}, facts, _base(facts), today)

plazo_counts(rows, pmfs, today) ==
    [observed_on |-> today, pmfs |-> pmfs, total |-> Cardinality(DOMAIN pmfs),
     estados |-> [e \in PLAZO_ESTADO_ORDER |-> Quantify(DOMAIN pmfs, LAMBDA p : pmfs[p].estado = e)],
     difiere |-> Quantify(DOMAIN pmfs, LAMBDA p : pmfs[p].cruce = "difiere"),
     legacy |-> Quantify(rows, LAMBDA r : is_legacy_vencido(r, today))]

build_plazos(rows, pmf_rows, today, closed) ==
    plazo_counts(rows, [p \in KeysOf(rows, "pmf") |-> PlazoOf(p, rows, pmf_rows, today, closed)], today)

-----------------------------------------------------------------------------
(* The AEF tracking block.                                                 *)

AefDates == {"fecha_solicitud", "fecha_corta", "fecha_termino"}
AEF_TRACKING_FIELDS == {"aef", "quien_solicita"} \cup AefDates

_present(label) == ~_is_blank(label)

\* The value of a field on one row: blank text is no value.
tracking_value(r, name) ==
    IF name \in AefDates THEN value_or_unread_text(r[name])
    ELSE IF _present(r[name]) THEN [text |-> r[name]] ELSE None

has_tracking(r) == \E name \in AEF_TRACKING_FIELDS : tracking_value(r, name) # None

CHRONOLOGY_RULES ==
    {<<"fecha_solicitud", "fecha_corta">>, <<"fecha_corta", "fecha_termino">>,
     <<"fecha_solicitud", "fecha_termino">>}

\* The pairs of present dates that are out of order; values are dates or None.
chronology_flags(values) ==
    {rule \in CHRONOLOGY_RULES : /\ values[rule[1]] # None /\ values[rule[2]] # None
                                 /\ values[rule[2]] < values[rule[1]]}

row_chronology_flags(r) == chronology_flags([name \in AefDates |-> r[name].date])

PmfAefRecord ==
    [total_rows : Nat, rows_with_any_tracking : Nat, rows_with_aef : Nat, source_rows : SUBSET Nat,
     fields : [AEF_TRACKING_FIELDS -> PmfFieldValue], flags : SUBSET CHRONOLOGY_RULES]

pmf_record_of(rows, fields) ==
    [total_rows |-> Cardinality(rows),
     rows_with_any_tracking |-> Quantify(rows, has_tracking),
     rows_with_aef |-> Quantify(rows, LAMBDA r : _present(r.aef)),
     source_rows |-> {r.n : r \in rows},
     fields |-> fields,
     flags |-> chronology_flags([name \in AefDates |->
                   IF IsDate(fields[name].value) THEN fields[name].value.date ELSE None])]

build_pmf_record(rows) ==
    pmf_record_of(rows, [name \in AEF_TRACKING_FIELDS |->
                            resolve_pmf_field({<<r.n, tracking_value(r, name)>> : r \in rows})])

HasConflict(record) == \E name \in AEF_TRACKING_FIELDS : record.fields[name].status = "conflict"

\* How many of a family of labels, indexed by anything, are each label.
_label_counts(values) ==
    [x \in {values[i] : i \in DOMAIN values} |-> Quantify(DOMAIN values, LAMBDA i : values[i] = x)]

\* The PMFs under each value of a field; one with a conflict is under none.
_pmf_label_counts(records, name) ==
    _label_counts([p \in {q \in DOMAIN records : records[q].fields[name].status # "conflict"} |->
        records[p].fields[name].value])

aef_counts(rows, tracked, records, pmfs) ==
    LET With(name) == Quantify(rows, LAMBDA r : tracking_value(r, name) # None)
        ByRow(name) == _label_counts([n \in {r.n : r \in tracked} |->
                           LET r == CHOOSE q \in tracked : q.n = n IN
                           IF _present(r[name]) THEN r[name] ELSE None]) IN
    [row_count |-> Cardinality(rows),
     pmf_count |-> Cardinality(DOMAIN records),
     rows_with_any_tracking |-> Cardinality(tracked),
     rows_with |-> [name \in AEF_TRACKING_FIELDS |-> With(name)],
     pmf_with_tracking |-> Cardinality(DOMAIN pmfs),
     pmf_with_aef |-> Quantify(DOMAIN records, LAMBDA p : records[p].fields["aef"].status # "blank"),
     pmf_with_conflict |-> Quantify(DOMAIN records, LAMBDA p : HasConflict(records[p])),
     conflicts |-> [name \in AEF_TRACKING_FIELDS |->
                      Quantify(DOMAIN records, LAMBDA p : records[p].fields[name].status = "conflict")],
     rows_out_of_order |-> Quantify(tracked, LAMBDA r : row_chronology_flags(r) # {}),
     pmf_out_of_order |-> Quantify(DOMAIN records, LAMBDA p : records[p].flags # {}),
     por_aef |-> ByRow("aef"), por_solicitante |-> ByRow("quien_solicita"),
     pmf_por_aef |-> _pmf_label_counts(pmfs, "aef"),
     pmf_por_solicitante |-> _pmf_label_counts(pmfs, "quien_solicita"),
     pmfs |-> pmfs,
     tracked |-> {r.n : r \in tracked}]

\* The PMFs that are listed have a row with tracking.
aef_of(rows, records) ==
    aef_counts(rows, {r \in rows : has_tracking(r)}, records,
               [p \in {q \in DOMAIN records : records[q].rows_with_any_tracking > 0} |-> records[p]])

build_aef_summary(rows, pmf_rows) ==
    aef_of(rows, [p \in KeysOf(rows, "pmf") |-> build_pmf_record({r \in pmf_rows : r.pmf = p})])

=============================================================================
