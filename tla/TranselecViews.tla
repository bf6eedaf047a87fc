---------------------------- MODULE TranselecViews ----------------------------
(***************************************************************************)
(* The read routes of the Transelec dashboard.  Each answers from the      *)
(* active version's rows with their applied web edits, in one connection   *)
(* whose statements see what was committed before each of them, while      *)
(* others edit cells and publish or restore versions.  Readers change      *)
(* nothing, so one of them stands for all.                                 *)
(***************************************************************************)
EXTENDS PmfDates, Sequences, SequencesExt

CONSTANTS
    Sheets,         \* each import's source rows
    Edits,          \* the <<row key, field, value>> somebody may submit
    Filters,        \* filters a reader may ask with: see TranselecFilters
    Found,          \* per search text, the labels and the days that contain it
    Uploads,        \* the imports of the uploads, newest first; None: not projected
    PageSize,
    FirstDay,       \* the first day of the instance
    MaxEdits, MaxEvents, MaxDay     \* bounds

Imports == DOMAIN Sheets
EditableDates == {"fecha_ingreso", "fecha_ingreso_2", "fecha_90_dias"}
EditableTexts == {"estado", "estado_resumido", "numero_ingreso", "numero_ingreso_2"}
Selectable == {"estado_resumido", "empresa", "tipo_propietario", "aef", "quien_solicita"}
TextFields == Selectable \cup EditableTexts \cup {"predio_ref"}
DateFields == EditableDates \cup AefDates

\* One row of the projection: its key, and its number in its sheet.
ResumenRow ==
    [n : Nat, key : STRING, pmf : STRING, predio : STRING, superficie : Int,
     estado : Labels \cup {None}, estado_resumido : Labels \cup {None},
     numero_ingreso : Labels \cup {None}, numero_ingreso_2 : Labels \cup {None},
     tipo_propietario : Labels \cup {None}, empresa : Labels \cup {None}, predio_ref : Labels \cup {None},
     aef : Labels \cup {None}, quien_solicita : Labels \cup {None},
     fecha_ingreso : DateCell, fecha_ingreso_2 : DateCell, fecha_90_dias : DateCell,
     fecha_solicitud : DateCell, fecha_corta : DateCell, fecha_termino : DateCell]

TranselecFilters ==
    [select : [Selectable -> SUBSET Labels], q : DOMAIN Found \cup {None}]

Unfiltered == [select |-> [x \in Selectable |-> {}], q |-> None]

ASSUME ViewsAssumption ==
    /\ \A i \in Imports : /\ Sheets[i] \subseteq ResumenRow /\ IsFiniteSet(Sheets[i])
                          /\ \A r, q \in Sheets[i] : r # q => r.n # q.n /\ r.key # q.key
    /\ \A e \in Edits : /\ e[2] \in EditableTexts \cup EditableDates
                        /\ e[3] \in IF e[2] \in EditableDates THEN DateCell ELSE Labels \cup {None}
    /\ None \notin Nat \cup PLAZO_ESTADO_ORDER
    /\ Filters \subseteq TranselecFilters /\ Unfiltered \in Filters
    /\ {PageSize, MaxEdits, MaxEvents, FirstDay, MaxDay} \subseteq Nat /\ PageSize > 0

VARIABLES
    active,     \* product_publication.active_import_id
    events,     \* transelec_publish_event, by id
    overrides,  \* the active edits: per cell, its value and the source value it replaces
    today,      \* the date in Chile
    reader,     \* the request being answered
    steady      \* rows of a page walk that have matched its filter all along

viewVars == <<active, events, overrides, today, reader, steady>>

NoReader == [stage |-> "idle"]

-----------------------------------------------------------------------------
(* transelec_effective_row                                                 *)

\* The fields of a source row whose edit applies to it.
web_fields(r) ==
    {f \in EditableTexts \cup EditableDates :
        <<r.key, f>> \in DOMAIN overrides /\ overrides[<<r.key, f>>].planilla = r[f]}

\* The row as every read shows it; an edited date has no source text any more.
transelec_effective_row(r) ==
    [f \in DOMAIN r \cup {"web"} |->
        IF f = "web" THEN web_fields(r)
        ELSE IF f \in web_fields(r) THEN overrides[<<r.key, f>>].value ELSE r[f]]

EffectiveRows(i) == {transelec_effective_row(r) : r \in Sheets[i]}

\* OR within a selection, AND across them; the search looks in every column.
_build_filter_where(r, filter) ==
    /\ \A f \in Selectable : filter.select[f] # {} => r[f] \in filter.select[f]
    /\ filter.q # None =>
         \/ \E f \in TextFields : r[f] \in Found[filter.q].labels
         \/ \E f \in DateFields : r[f].date \in Found[filter.q].days

_fetch_filtered_rows(i, filter) == {r \in EffectiveRows(i) : _build_filter_where(r, filter)}

RowNumbers(i, filter) == {r.n : r \in _fetch_filtered_rows(i, filter)}

-----------------------------------------------------------------------------
(* What each route answers from the rows it read.                          *)

\* A row with its date warnings, its unread texts and its edited fields.
_resumen_row_view(r) ==
    [row |-> r, chronology_flags |-> row_chronology_flags(r),
     source_text_dates |-> {f \in DateFields : r[f].date = None /\ r[f].raw # None},
     web_fields |-> r.web]

RowAt(rows, n) == CHOOSE r \in rows : r.n = n

_web_edited_pmf_count(rows) ==
    LET first == first_row_wins(rows, "pmf") IN
    Quantify(DOMAIN first, LAMBDA p : first[p].web \cap {"estado_resumido", "estado"} # {})

get_summary(rows) == [summary |-> build_summary(rows), web_edited |-> _web_edited_pmf_count(rows)]

get_pmf_detail(i, pmf) ==
    LET rows == {r \in EffectiveRows(i) : r.pmf = pmf} IN
    IF rows = {} THEN [status |-> 404]
    ELSE [status |-> 200, estado_resumido |-> estado_resumido_first_row(rows, "pmf")[pmf],
          rows |-> {_resumen_row_view(r) : r \in rows}]

_aef_field_view(name, resolved) ==
    [status |-> resolved.status, value |-> resolved.value,
     value_kind |-> IF resolved.status # "value" THEN None
                    ELSE IF IsDate(resolved.value) THEN "date"
                    ELSE IF name \in AefDates THEN "raw_text" ELSE "text"]

_aef_pmf_view(record) ==
    [has_conflict |-> HasConflict(record), chronology_flags |-> record.flags,
     fields |-> [name \in AEF_TRACKING_FIELDS |-> _aef_field_view(name, record.fields[name])]]

aef_view(rows, summary) ==
    [summary |-> summary,
     pmfs |-> [p \in DOMAIN summary.pmfs |-> _aef_pmf_view(summary.pmfs[p])],
     rows |-> {_resumen_row_view(r) : r \in {q \in rows : q.n \in summary.tracked}}]

get_aef(rows, pmf_rows) == aef_view(rows, build_aef_summary(rows, pmf_rows))

get_pending(rows) ==
    LET result == build_pending(rows)
        first == first_row_wins(rows, "pmf") IN
    [result |-> result,
     rows |-> [p \in result.pending |->
                 [view |-> _resumen_row_view(first[p]), stage |-> pending_stage(first[p].estado)]]]

lifecycle_view(rows, summary) ==
    [summary |-> summary,
     rows |-> [p \in DOMAIN summary.pmfs |-> _resumen_row_view(RowAt(rows, summary.pmfs[p].row))]]

get_lifecycle(rows) == lifecycle_view(rows, build_lifecycle(rows))

closed_of(pmfs) == {p \in DOMAIN pmfs : pmfs[p].class.group \in CLOSED_GROUPS}

\* The PMFs whose process is over, under the request's own rows.
_closed_pmfs(rows) == closed_of(build_lifecycle(rows).pmfs)

get_plazos(rows, pmf_rows, observed_on) ==
    build_plazos(rows, pmf_rows, observed_on, _closed_pmfs(rows))

get_owner_status(rows) == build_owner_status(rows)

\* The newest event of an import: by the time it bears, then by its id.  An active
\* import has one: activating it wrote it.
_read_latest_publish_event(i) ==
    LET own == {k \in DOMAIN events : events[k].import = i}
        newest == Max({events[k].occurred_at : k \in own}) IN
    Max({k \in own : events[k].occurred_at = newest})

TranselecImportHistoryRow(k, current) ==
    [event |-> k, import |-> events[k].import, is_active |-> events[k].import = current]

list_import_history(current) == {TranselecImportHistoryRow(k, current) : k \in DOMAIN events}

list_recent_uploads(current) ==
    [k \in DOMAIN Uploads |->
        [import |-> Uploads[k], is_active |-> Uploads[k] # None /\ Uploads[k] = current]]

-----------------------------------------------------------------------------
(* The CSV export.  A rendered cell is [quoted, text].                     *)

\* Texts that a spreadsheet would read as a formula get a leading quote.
neutralize_formula_injection(x, dangerous) == [quoted |-> dangerous, text |-> x]

_render_number(x) == neutralize_formula_injection([number |-> x], x < 0)

_render_cell(column, x) ==
    IF column = "superficie" THEN _render_number(x)
    ELSE IF x = None THEN [quoted |-> FALSE, text |-> None]
    ELSE neutralize_formula_injection([label |-> x], Says(x, "formula"))

_render_date_cell(r, column) ==
    IF r[column].date # None THEN [quoted |-> FALSE, text |-> [iso |-> r[column].date]]
    ELSE IF r[column].raw # None
    THEN neutralize_formula_injection([label |-> r[column].raw], Says(r[column].raw, "formula"))
    ELSE [quoted |-> FALSE, text |-> None]

ExportDates == {"fecha_ingreso", "fecha_ingreso_2"}
ExportTexts == {"predio_ref", "estado_resumido", "tipo_propietario", "numero_ingreso",
                "numero_ingreso_2", "empresa"}
EXPORT_FIELDS_V1 == ExportDates \cup ExportTexts \cup {"superficie", "observacion_auxiliar"}

_render_row_cell(r, column) ==
    IF column = "observacion_auxiliar" THEN [quoted |-> FALSE, text |-> None]
    ELSE IF column \in ExportDates THEN _render_date_cell(r, column)
    ELSE _render_cell(column, r[column])

render_transelec_export_csv(rows) ==
    {[n |-> r.n, cells |-> [column \in EXPORT_FIELDS_V1 |-> _render_row_cell(r, column)]] : r \in rows}

export_csv(i, filter) == render_transelec_export_csv(_fetch_filtered_rows(i, filter))

-----------------------------------------------------------------------------
(* A request, statement by statement.                                      *)

Routes == {"plazos", "aef", "report", "active", "history", "recent", "pages"}

ViewsInit ==
    /\ active = None /\ events = <<>> /\ overrides = <<>>
    /\ today = FirstDay /\ reader = NoReader /\ steady = {}

Ask(route, filter) ==
    /\ reader = NoReader
    /\ route \in {"report", "active", "history", "recent"} => filter = Unfiltered
    /\ reader' = [stage |-> "active", route |-> route, filter |-> filter, listed |-> <<>>, cursor |-> None]
    /\ steady' = {}
    /\ UNCHANGED <<active, events, overrides, today>>

After(route) ==
    CASE route \in {"plazos", "aef", "report"} -> "rows"
      [] route = "active" -> "event"
      [] route \in {"history", "recent"} -> "list"
      [] route = "pages" -> "count"

\* The first statement of every route; without an active version most answer 404.
_require_active_import_id ==
    /\ reader.stage = "active"
    /\ IF active = None /\ reader.route \notin {"history", "recent"}
       THEN reader' = [reader EXCEPT !.stage = "refused"]
       ELSE reader' = [f \in DOMAIN reader \cup {"import"} |->
                          IF f = "import" THEN active
                          ELSE IF f = "stage" THEN After(reader.route) ELSE reader[f]]
    /\ steady' = IF reader.route = "pages" /\ reader.cursor = None /\ active # None
                 THEN RowNumbers(active, reader.filter) ELSE steady
    /\ UNCHANGED <<active, events, overrides, today>>

With(field, value, stage) ==
    [f \in DOMAIN reader \cup {field} |->
        IF f = field THEN value ELSE IF f = "stage" THEN stage ELSE reader[f]]

Answer(value) == reader' = With("answer", value, "answered")

ReadRows ==
    /\ reader.stage = "rows"
    /\ LET rows == _fetch_filtered_rows(reader.import, reader.filter) IN
       reader' = With("rows", rows,
           IF reader.route = "report" THEN "event" ELSE "pmf_rows")
    /\ UNCHANGED <<active, events, overrides, today, steady>>

\* The second read of /plazos and /aef, only when a filter hides rows.
ReadPmfRows ==
    /\ reader.stage = "pmf_rows"
    /\ LET pmf_rows == IF reader.filter = Unfiltered THEN reader.rows
                       ELSE _fetch_filtered_rows(reader.import, Unfiltered) IN
       IF reader.route = "plazos" THEN Answer(get_plazos(reader.rows, pmf_rows, today))
       ELSE Answer(get_aef(reader.rows, pmf_rows))
    /\ UNCHANGED <<active, events, overrides, today, steady>>

\* get_report and get_active_import end with the event; .one() fails without one.
ReadEvent ==
    /\ reader.stage = "event"
    /\ IF \E k \in DOMAIN events : events[k].import = reader.import
       THEN Answer([import |-> reader.import, event |-> _read_latest_publish_event(reader.import),
                    counts |-> IF reader.route = "report" THEN build_summary(reader.rows).hero_pmf ELSE None])
       ELSE reader' = [reader EXCEPT !.stage = "failed"]
    /\ UNCHANGED <<active, events, overrides, today, steady>>

ReadList ==
    /\ reader.stage = "list"
    /\ Answer(IF reader.route = "history" THEN list_import_history(reader.import)
              ELSE list_recent_uploads(reader.import))
    /\ UNCHANGED <<active, events, overrides, today, steady>>

CountRows ==
    /\ reader.stage = "count"
    /\ reader' = With("total", Cardinality(_fetch_filtered_rows(reader.import, reader.filter)), "page")
    /\ UNCHANGED <<active, events, overrides, today, steady>>

\* Mutant: the cursor is the row that told there is more.
next_cursor_of_probe(rest, page) == IF rest = page THEN None ELSE Min(rest \ page)

next_cursor(rest, page) == IF rest = page THEN None ELSE Max(page)

FirstRows(rest) == {n \in rest : Cardinality({k \in rest : k < n}) < PageSize}

\* list_pmf_rows: the next rows in the order of the sheet, and the last of them as the
\* cursor when one row more was found; the client asks again with it.
list_pmf_rows ==
    /\ reader.stage = "page"
    /\ LET rest == {n \in RowNumbers(reader.import, reader.filter) :
                        reader.cursor = None \/ n > reader.cursor}
           next == next_cursor(rest, FirstRows(rest)) IN
       reader' = [reader EXCEPT !.listed = Append(@, FirstRows(rest)), !.cursor = next,
                                !.stage = IF next = None THEN "answered" ELSE "active"]
    /\ UNCHANGED <<active, events, overrides, today, steady>>

Answered ==
    /\ reader.stage \in {"answered", "refused", "failed"}
    /\ reader' = NoReader /\ steady' = {}
    /\ UNCHANGED <<active, events, overrides, today>>

-----------------------------------------------------------------------------
(* Everybody else.                                                         *)

\* The rows that match the filter of a walk.
Matching ==
    IF reader # NoReader /\ reader.route = "pages" /\ active # None
    THEN RowNumbers(active, reader.filter) ELSE {}

\* An edit of a cell of the active version, anchored to the source value it replaces.
EditCell(e) ==
    /\ active # None /\ Cardinality(DOMAIN overrides) < MaxEdits
    /\ \E r \in Sheets[active] :
         /\ r.key = e[1] /\ r[e[2]] # e[3]
         /\ overrides' = [c \in DOMAIN overrides \cup {<<e[1], e[2]>>} |->
                            IF c = <<e[1], e[2]>> THEN [value |-> e[3], planilla |-> r[e[2]]]
                            ELSE overrides[c]]
    /\ UNCHANGED <<active, events, today, reader>>
    /\ steady' = steady \cap Matching'

\* discard_override of any edit, also one that does not apply; a save of the source value
\* ends its edit in the same way.
discard_override(c) ==
    /\ c \in DOMAIN overrides
    /\ overrides' = Restrict(overrides, DOMAIN overrides \ {c})
    /\ UNCHANGED <<active, events, today, reader>>
    /\ steady' = steady \cap Matching'

\* The edits whose value import i already carries, in place of the one they replaced.
incorporada(i) ==
    {c \in DOMAIN overrides : \E r \in Sheets[i] :
        r.key = c[1] /\ r[c[2]] # overrides[c].planilla /\ r[c[2]] = overrides[c].value}

\* The times the next event may bear: occurred_at is when its transaction began, so one
\* that waited for the singleton row may bear an earlier time than the event before it
\* (bound: of that one only).
PublishTimes ==
    LET k == Len(events) + 1 IN {2 * k} \cup {t \in {2 * k - 3} : k > 1}

\* activate_import and the retirement of incorporated edits, in one transaction.
activate_import(i, at) ==
    /\ Len(events) < MaxEvents
    /\ active' = i /\ events' = Append(events, [import |-> i, occurred_at |-> at])
    /\ overrides' = Restrict(overrides, DOMAIN overrides \ incorporada(i))
    /\ UNCHANGED <<today, reader>>
    /\ steady' = IF i = active THEN steady \cap Matching' ELSE {}

\* A request takes its date when it begins (plazo_observed_on), so a midnight during
\* it changes nothing.
NextDay ==
    /\ reader = NoReader /\ today < MaxDay /\ today' = today + 1
    /\ UNCHANGED <<active, events, overrides, reader, steady>>

Read == \/ _require_active_import_id \/ ReadRows \/ ReadPmfRows \/ ReadEvent
        \/ ReadList \/ CountRows \/ list_pmf_rows \/ Answered

ViewsNext ==
    \/ \E route \in Routes, filter \in Filters : Ask(route, filter)
    \/ Read
    \/ \E e \in Edits : EditCell(e)
    \/ \E c \in DOMAIN overrides : discard_override(c)
    \/ \E i \in Imports, at \in PublishTimes : activate_import(i, at)
    \/ NextDay

ViewsSpec == ViewsInit /\ [][ViewsNext]_viewVars

-----------------------------------------------------------------------------
(* What the routes promise.  Shown(f) is what a reader with filter f sees; *)
(* it depends on no request, so it is looked at between requests.          *)

Published == reader = NoReader /\ active # None

Shown(filter) == _fetch_filtered_rows(active, filter)

Sum(counts) == FoldFunction(LAMBDA c, d : c + d, 0, counts)

PMFs == {r.pmf : r \in UNION Range(Sheets)}
Predios == {r.predio : r \in UNION Range(Sheets)}

TranselecSummaryResponse(x) == SummaryResult(x.summary, PMFs, Predios) /\ x.web_edited \in Nat

AefPmfFieldView ==
    [status : {"value", "blank", "conflict"}, value : {None} \cup [date : Days] \cup [text : Labels],
     value_kind : {None, "text", "date", "raw_text"}]

AefPmfView ==
    [has_conflict : BOOLEAN, chronology_flags : SUBSET CHRONOLOGY_RULES,
     fields : [AEF_TRACKING_FIELDS -> AefPmfFieldView]]

AefResponse(x) == IsTable(x.pmfs, PMFs, AefPmfView) /\ IsTable(x.summary.pmfs, PMFs, PmfAefRecord)

\* Every answer has the shape of its response model.
ViewsTypeOK ==
    /\ active \in Imports \cup {None} /\ DOMAIN overrides \subseteq {<<e[1], e[2]>> : e \in Edits}
    /\ reader.stage \in {"idle", "active", "rows", "pmf_rows", "event", "list", "count", "page",
                        "answered", "refused", "failed"}
    /\ Published => \A f \in Filters :
         LET rows == Shown(f) IN
         /\ TranselecSummaryResponse(get_summary(rows))
         /\ LifecycleSummary(get_lifecycle(rows).summary, PMFs)
         /\ PendingResult(get_pending(rows).result, PMFs)
         /\ OwnerStatusResult(get_owner_status(rows))
         /\ PlazoSummary(get_plazos(rows, EffectiveRows(active), today), PMFs)
         /\ AefResponse(get_aef(rows, EffectiveRows(active)))
    /\ Published => \A p \in PMFs : get_pmf_detail(active, p).status = 200

SameTotals(s, l, pending, owners, terms, tracked) ==
    /\ s.pmf_count = l.total /\ s.pmf_count = pending.total
    /\ s.pmf_count = terms /\ s.pmf_count = tracked
    /\ s.pmf_count = Sum(s.hero_pmf) /\ s.pmf_count = Sum(s.avance_por_pmf)
    /\ s.pmf_count = Sum([c \in DOMAIN s.por_empresa |-> Sum(s.por_empresa[c])])
    /\ s.pmf_count = Sum(s.detalle) /\ s.pmf_count = Sum(l.groups)
    /\ s.aprobados = s.hero_pmf["aprobado"] /\ s.en_tramite = s.hero_pmf["en_tramite"]
    /\ s.pendientes = Cardinality(pending.pending) /\ s.pendientes = Sum(pending.stages)
    /\ s.predio_count = owners.total /\ s.predio_count = Sum(owners.rows)

\* Under one filter, the numbers of the different views are of the same PMFs: the KPIs,
\* both charts, the hero, the company breakdown, the Estado section, the pending
\* section, the term table and the AEF page (TR-FUNC-017).
TotalsAgree ==
    Published => \A f \in Filters :
        LET rows == Shown(f)
            every == EffectiveRows(active) IN
        SameTotals(get_summary(rows).summary, get_lifecycle(rows).summary, get_pending(rows).result,
                   get_owner_status(rows), get_plazos(rows, every, today).total,
                   get_aef(rows, every).summary.pmf_count)

\* The views use different rules for one PMF, but never contradict each other: a plan the
\* headline approves is approved or unclassified in the Estado section, and one that
\* waits to be filed, or for an appeal, is among the pending ones.
StatusesCompatible ==
    Published => \A f \in Filters :
        LET rows == Shown(f)
            first == first_row_wins(rows, "pmf")
            pmfs == build_lifecycle(rows).pmfs IN
        \A p \in DOMAIN pmfs :
            /\ hero_state(first[p].estado_resumido) = "aprobado"
                 => pmfs[p].class.group \in {"aprobado", "sin_clasificar"}
            /\ pmfs[p].class.step \in {"sin_ingreso", "rechazado_esperando_recurso"}
                 => p \in build_pending(rows).pending

Terms(day) == get_plazos(EffectiveRows(active), EffectiveRows(active), day).pmfs

TermsSound(plazos) ==
    \A p \in DOMAIN plazos : plazos[p].remaining # None =>
        /\ plazos[p].estado = "vencido" => plazos[p].remaining <= 0
        /\ plazos[p].remaining < 0 => plazos[p].estado = "vencido"
        /\ today = plazos[p].deadline => plazos[p].remaining = 0 /\ plazos[p].estado # "vencido"

\* The deadline, counted forward, and the days left, counted back from today, tell the
\* same: a term is expired exactly when nothing is left and the last day is over.
DeadlineSound == Published => TermsSound(Terms(today))

TermsOfNewest(plazos, rows) ==
    \A p \in DOMAIN plazos : \A r \in rows :
        r.pmf = p /\ date_value(r, "fecha_ingreso_2") # None /\ plazos[p].deadline # None
            => plazos[p].base_date = r.fecha_ingreso_2.date

\* With an ingreso that cannot be read, or on which the rows disagree, no term is shown:
\* never one counted from an older ingreso.
NeverAnOlderDate == Published => TermsOfNewest(Terms(today), EffectiveRows(active))

\* A day that passes never makes a term younger.
Urgency(estado) == CASE estado = "en_plazo" -> 0 [] estado = "por_vencer" -> 1 [] estado = "vencido" -> 2
                     [] OTHER -> 3

Older(before, after) == \A p \in DOMAIN before : Urgency(before[p].estado) <= Urgency(after[p].estado)

OnlyForward == active # None /\ today' # today => Older(Terms(today), Terms(today'))

SameDeadlines(shown, full) ==
    \A p \in DOMAIN shown : shown[p].deadline = full[p].deadline /\ shown[p].base_rows = full[p].base_rows

\* An answer of /plazos shows the deadline of the whole version at the time of its last
\* statement, whatever the filter and whatever was edited in between.
DeadlineIgnoresFilter ==
    ReadPmfRows /\ reader.route = "plazos" /\ reader.filter # Unfiltered =>
        SameDeadlines(reader'.answer.pmfs,
                      get_plazos(EffectiveRows(reader.import), EffectiveRows(reader.import), today).pmfs)

\* Terms depend on the calendar and the version only: they age, and no filter moves them.
TermsOnlyAge == [][OnlyForward /\ DeadlineIgnoresFilter]_viewVars

\* A walk through the pages lists every row that matched all along, unless the version
\* was switched, and lists no row twice even then: each page is behind the one before.
PagesComplete ==
    reader # NoReader /\ reader.route = "pages" =>
        /\ \A k, l \in DOMAIN reader.listed : k < l =>
             \A n \in reader.listed[k], m \in reader.listed[l] : n < m
        /\ reader.stage = "answered" => steady \subseteq UNION Range(reader.listed)

\* The executive report is dated by an event of the version it counts, also when another
\* is published while it is written.
ReportDated ==
    reader # NoReader /\ reader.stage = "answered" /\ reader.route \in {"report", "active"} =>
        events[reader.answer.event].import = reader.answer.import

\* A version that is active has its event: no read of it fails.
NeverFails == reader.stage # "failed"

\* The history marks the events of one version, and marks some when there is an active
\* one, even if another is activated between its two statements.
HistoryShowsActive ==
    reader # NoReader /\ reader.stage = "answered" /\ reader.route = "history" =>
        /\ \A x \in reader.answer : x.is_active <=> x.import = reader.import
        /\ reader.import # None => \E x \in reader.answer : x.is_active

CountedOnce(a) ==
    /\ a.pmf_with_tracking = Sum(a.pmf_por_aef) + a.conflicts["aef"]
    /\ a.pmf_with_tracking = Sum(a.pmf_por_solicitante) + a.conflicts["quien_solicita"]
    /\ a.rows_with_any_tracking = Sum(a.por_aef)

\* The AEF page counts each PMF once: under its value, or among the conflicts.
AefAddsUp ==
    Published => \A f \in Filters : CountedOnce(build_aef_summary(Shown(f), EffectiveRows(active)))

\* The export loses no cell the workbook filled, and writes none a spreadsheet would
\* run as a formula.
ExportFaithful ==
    Published => \A row \in export_csv(active, Unfiltered) :
        LET r == RowAt(EffectiveRows(active), row.n) IN
        \A column \in EXPORT_FIELDS_V1 \ {"observacion_auxiliar"} :
            LET cell == row.cells[column] IN
            /\ column \in ExportDates => (cell.text = None <=> date_value(r, column) = None)
            /\ column \in ExportTexts => (cell.text = None <=> r[column] = None)
            /\ cell.text # None /\ "label" \in DOMAIN cell.text
                 => (Says(cell.text.label, "formula") <=> cell.quoted)
            /\ cell.text # None /\ "number" \in DOMAIN cell.text => (cell.text.number < 0 => cell.quoted)

\* The pages of one version say the same of every PMF: totals, states, terms and AEF,
\* under every filter.
ViewsAgree ==
    /\ ViewsTypeOK /\ TotalsAgree /\ StatusesCompatible /\ AefAddsUp
    /\ DeadlineSound /\ NeverAnOlderDate /\ ExportFaithful

\* A reader who is overtaken by edits and publications gets an answer that is of one
\* version: pages without gaps, dates of the version counted, a history with its mark.
ReadersAnswered == PagesComplete /\ ReportDated /\ NeverFails /\ HistoryShowsActive
=============================================================================
