---------------------------- MODULE StatusRollups ----------------------------
(***************************************************************************)
(* What a PMF's or a predio's status is, from the rows of one version of   *)
(* the Resumen sheet (status_rollups, lifecycle_view, pending_view,        *)
(* owner_status_view and summary_view).  A label is told apart by what the *)
(* code looks at in its text: Spelling gives it lowered and stripped, with *)
(* accents and spaces folded too, and the words searched in it.            *)
(***************************************************************************)
EXTENDS Integers, FiniteSets, FiniteSetsExt

CONSTANTS
    Labels,         \* texts of the label columns
    Spelling,       \* what the code reads in each: see Spelled
    None            \* an empty cell

Words == {"rechaz", "prepar", "recurso", "servidumbre", "aprobado", "recurso...rechazado", "=Aprobado", "formula"}

Spelled == [lower : STRING, fold : STRING, has : SUBSET Words]

ASSUME SpellingAssumption ==
    /\ None \notin Labels
    /\ \A x \in Labels : Spelling[x] \in Spelled
    /\ \A x, y \in Labels : Spelling[x].lower = Spelling[y].lower => Spelling[x].fold = Spelling[y].fold

\* (value or "").strip().lower()
Lower(x) == IF x = None THEN "" ELSE Spelling[x].lower

\* The comparison key of a label; None when nothing is left.
normalized_label(x) ==
    IF x = None \/ Spelling[x].fold = "" THEN None ELSE Spelling[x].fold

Says(x, word) == x # None /\ word \in Spelling[x].has

_is_blank(x) == Lower(x) = ""

-----------------------------------------------------------------------------
(* The three bases.  rows is a set of records with the row's number n.     *)

KeysOf(rows, key) == {r[key] : r \in rows}

\* Per key, its row with the smallest number.
first_row_wins(rows, key) ==
    [k \in KeysOf(rows, key) |->
        CHOOSE r \in rows : r[key] = k /\ \A q \in rows : q[key] = k => r.n <= q.n]

estado_resumido_first_row(rows, key) ==
    LET winners == first_row_wins(rows, key) IN
    [k \in DOMAIN winners |-> winners[k].estado_resumido]

is_pending_row(r) == _is_blank(r.numero_ingreso) \/ Says(r.estado, "rechaz")

pending_priority_legacy(rows, key) ==
    LET winners == first_row_wins(rows, key) IN
    [k \in DOMAIN winners |-> is_pending_row(winners[k])]

owner_stage_from_row(r) ==
    IF Says(r.estado, "rechaz") THEN "Rechazado" ELSE r.estado_resumido

\* The distinct values of Estado resumido of a key, and the keys with several.
distinct_estado_resumido(rows, key) ==
    [k \in KeysOf(rows, key) |->
        {normalized_label(r.estado_resumido) : r \in {q \in rows : q[key] = k}}]

estado_resumido_conflicts(rows, key) ==
    LET values == distinct_estado_resumido(rows, key) IN
    {k \in DOMAIN values : Cardinality(values[k]) > 1}

PendingStages == {"preparacion", "recurso_rechazo", "otros"}

pending_stage(estado) ==
    IF Says(estado, "prepar") THEN "preparacion"
    ELSE IF Says(estado, "recurso") /\ Says(estado, "rechaz") THEN "recurso_rechazo"
    ELSE "otros"

Buckets == {"aprobado", "en_tramite", "pendiente_o_tachado"}

bucket_3way(x) ==
    IF Lower(x) = "aprobado" THEN "aprobado"
    ELSE IF Lower(x) \in {"en tramite", "en trámite"} THEN "en_tramite"
    ELSE "pendiente_o_tachado"

HeroStates == {"aprobado", "en_tramite", "pendiente", "tachado", "sin_estado"}

hero_state(x) ==
    IF Lower(x) \in {"aprobado", "pendiente", "tachado"} THEN Lower(x)
    ELSE IF Lower(x) \in {"en tramite", "en trámite"} THEN "en_tramite"
    ELSE "sin_estado"

-----------------------------------------------------------------------------
(* lifecycle_pmf_v1                                                        *)

GROUP_ORDER == {"aprobado", "en_tramite", "descartado", "desistido", "sin_clasificar"}

STEP_ORDER == {"sin_ingreso", "en_evaluacion", "rechazado_esperando_recurso",
               "en_recurso_reposicion", "en_recurso_jerarquico"}

CLOSED_GROUPS == {"aprobado", "descartado", "desistido"}

_GROUP_BY_RESUMIDO(label) ==
    CASE label \in {"aprobado", "descartado", "desistido"} -> label
      [] label \in {"en tramite", "rechazado"} -> "en_tramite"
      [] OTHER -> None

\* Whether Estado says something else than the group of Estado resumido.
_contradiction(group, r) ==
    IF group = "aprobado" THEN ~Says(r.estado, "aprobado")
    ELSE \/ Says(r.estado, "aprobado")
         \/ group \in {"descartado", "desistido"} /\ normalized_label(r.estado) # group

_step(r) ==
    LET estado == normalized_label(r.estado) IN
    IF _is_blank(r.numero_ingreso) /\ _is_blank(r.numero_ingreso_2) THEN "sin_ingreso"
    ELSE IF estado = "en evaluacion" THEN "en_evaluacion"
    ELSE IF estado = "rechazado" \/ Says(r.estado, "recurso...rechazado") THEN "rechazado_esperando_recurso"
    ELSE IF estado = "recurso reposicion" THEN "en_recurso_reposicion"
    ELSE IF estado = "recurso jerarquico" THEN "en_recurso_jerarquico"
    ELSE None

Unclassified(reason) == [group |-> "sin_clasificar", step |-> None, reason |-> reason]

classify_first_row(r) ==
    LET group == _GROUP_BY_RESUMIDO(normalized_label(r.estado_resumido)) IN
    IF group = None THEN Unclassified("resumido_desconocido")
    ELSE IF _contradiction(group, r) THEN Unclassified("estado_y_resumido_no_coinciden")
    ELSE IF group # "en_tramite" THEN [group |-> group, step |-> None, reason |-> None]
    ELSE IF _step(r) = None THEN Unclassified("estado_desconocido")
    ELSE [group |-> group, step |-> _step(r), reason |-> None]

\* Whether the rows of a PMF disagree on Estado or on Estado resumido.
Disagree(rows) ==
    \/ Cardinality({normalized_label(r.estado) : r \in rows}) > 1
    \/ Cardinality({normalized_label(r.estado_resumido) : r \in rows}) > 1

build_lifecycle(rows) ==
    LET first == first_row_wins(rows, "pmf")
        pmfs == [p \in DOMAIN first |->
                   [row |-> first[p].n, class |-> classify_first_row(first[p]),
                    flagged |-> Disagree({r \in rows : r.pmf = p})]] IN
    [pmfs |-> pmfs,
     total |-> Cardinality(DOMAIN pmfs),
     groups |-> [g \in GROUP_ORDER |-> Quantify(DOMAIN pmfs, LAMBDA p : pmfs[p].class.group = g)],
     steps |-> [s \in STEP_ORDER |-> Quantify(DOMAIN pmfs, LAMBDA p : pmfs[p].class.step = s)]]

-----------------------------------------------------------------------------
(* Pending plans and owners.                                               *)

build_pending(rows) ==
    LET first == first_row_wins(rows, "pmf")
        pending == {p \in DOMAIN first : is_pending_row(first[p])} IN
    [pending |-> pending,
     total |-> Cardinality(DOMAIN first),
     stages |-> [s \in PendingStages |-> Quantify(pending, LAMBDA p : pending_stage(first[p].estado) = s)]]

build_owner_status(rows) ==
    LET first == first_row_wins(rows, "predio")
        Of(p) == <<first[p].tipo_propietario, owner_stage_from_row(first[p])>>
        kinds == {Of(p) : p \in DOMAIN first} IN
    [total |-> Cardinality(DOMAIN first),
     rows |-> [k \in kinds |-> Quantify(DOMAIN first, LAMBDA p : Of(p) = k)]]

-----------------------------------------------------------------------------
(* The summary.                                                            *)

\* How many of the keys of a function have each value under a classification.
_hero_counts(status, keys) ==
    [s \in HeroStates |-> Quantify(keys, LAMBDA k : hero_state(status[k]) = s)]

_bucket_counts(status) ==
    [b \in Buckets |-> Quantify(DOMAIN status, LAMBDA k : bucket_3way(status[k]) = b)]

_labelled_counts(values) ==
    LET keys == {normalized_label(values[k]) : k \in DOMAIN values} IN
    [x \in keys |-> Quantify(DOMAIN values, LAMBDA k : normalized_label(values[k]) = x)]

\* Mutant: a company is attributed to every row.
_empresa_breakdown_by_row(rows, first) ==
    LET companies == {normalized_label(r.empresa) : r \in rows} IN
    [c \in companies |->
        _hero_counts(estado_resumido_first_row(rows, "pmf"),
                     {p \in DOMAIN first : \E r \in rows : r.pmf = p /\ normalized_label(r.empresa) = c})]

\* Each company with the PMFs whose first row names it.
_empresa_breakdown(rows, first) ==
    LET companies == {normalized_label(first[p].empresa) : p \in DOMAIN first} IN
    [c \in companies |->
        _hero_counts(estado_resumido_first_row(rows, "pmf"),
                     {p \in DOMAIN first : normalized_label(first[p].empresa) = c})]

\* The PMFs with several values, and the one the headline keeps.
_estado_resumido_conflicts(rows, first) ==
    [p \in estado_resumido_conflicts(rows, "pmf") |-> first[p].estado_resumido]

Sentinel == "sin reforestacion"

_distinct_labels(values) == {normalized_label(v) : v \in {x \in values : ~_is_blank(x)}}

\* Labels of Predio Ref without the sentinel, and the rows that carry it.
_build_reforestacion(rows) ==
    LET marked == {r \in rows : normalized_label(r.predio_ref) = Sentinel} IN
    [labels |-> _distinct_labels({r.predio_ref : r \in rows \ marked}),
     sentinels |-> Cardinality(marked)]

\* The spellings a status card links to.
_estado_resumido_valores(rows) ==
    [s \in HeroStates |->
        {r.estado_resumido : r \in {q \in rows : ~_is_blank(q.estado_resumido)
                                                 /\ hero_state(q.estado_resumido) = s}}]

build_summary(rows) ==
    LET first == first_row_wins(rows, "pmf")
        status == estado_resumido_first_row(rows, "pmf")
        predios == estado_resumido_first_row(rows, "predio")
        pending == pending_priority_legacy(rows, "pmf") IN
    [row_count |-> Cardinality(rows),
     pmf_count |-> Cardinality(KeysOf(rows, "pmf")),
     predio_count |-> Cardinality(KeysOf(rows, "predio")),
     aprobados |-> Quantify(DOMAIN status, LAMBDA p : Lower(status[p]) = "aprobado"),
     en_tramite |-> Quantify(DOMAIN status, LAMBDA p : Lower(status[p]) \in {"en tramite", "en trámite"}),
     pendientes |-> Quantify(DOMAIN pending, LAMBDA p : pending[p]),
     servidumbre |-> {r.predio : r \in {q \in rows : Says(q.tipo_propietario, "servidumbre")}},
     avance_por_predio |-> _bucket_counts(predios),
     avance_por_pmf |-> _bucket_counts(status),
     hero_predio |-> _hero_counts(predios, DOMAIN predios),
     hero_pmf |-> _hero_counts(status, DOMAIN status),
     detalle |-> _labelled_counts([p \in DOMAIN first |-> first[p].estado]),
     valores |-> _estado_resumido_valores(rows),
     por_empresa |-> _empresa_breakdown(rows, first),
     reforestacion |-> _build_reforestacion(rows),
     sin_ingreso |-> Quantify(DOMAIN first, LAMBDA p : _is_blank(first[p].numero_ingreso)),
     conflictos |-> _estado_resumido_conflicts(rows, first)]

-----------------------------------------------------------------------------
(* The shapes of the results.                                              *)

IsTable(f, keys, values) == DOMAIN f \subseteq keys /\ f \in [DOMAIN f -> values]

Folded == {normalized_label(x) : x \in Labels \cup {None}}

Bucket3WayCounts == [Buckets -> Nat]

HeroStateCounts == [HeroStates -> Nat]

Classification ==
    [group : GROUP_ORDER, step : STEP_ORDER \cup {None},
     reason : {None, "resumido_desconocido", "estado_y_resumido_no_coinciden", "estado_desconocido"}]

PmfLifecycle == [row : Nat, class : Classification, flagged : BOOLEAN]

LifecycleSummary(x, pmfs) ==
    /\ IsTable(x.pmfs, pmfs, PmfLifecycle) /\ x.total \in Nat
    /\ x.groups \in [GROUP_ORDER -> Nat] /\ x.steps \in [STEP_ORDER -> Nat]

PendingResult(x, pmfs) ==
    x.pending \subseteq pmfs /\ x.total \in Nat /\ x.stages \in [PendingStages -> Nat]

OwnerStatusResult(x) ==
    /\ x.total \in Nat
    /\ IsTable(x.rows, (Labels \cup {None}) \X (Labels \cup {None, "Rechazado"}), Nat)

ReforestacionResult(x) == x.labels \subseteq Folded /\ x.sentinels \in Nat

SummaryResult(x, pmfs, predios) ==
    /\ {x.row_count, x.pmf_count, x.predio_count, x.aprobados, x.en_tramite, x.pendientes, x.sin_ingreso} \subseteq Nat
    /\ x.servidumbre \subseteq predios
    /\ {x.avance_por_predio, x.avance_por_pmf} \subseteq Bucket3WayCounts
    /\ {x.hero_predio, x.hero_pmf} \subseteq HeroStateCounts
    /\ IsTable(x.detalle, Folded, Nat) /\ x.valores \in [HeroStates -> SUBSET Labels]
    /\ IsTable(x.por_empresa, Folded, HeroStateCounts)
    /\ ReforestacionResult(x.reforestacion)
    /\ IsTable(x.conflictos, pmfs, Labels \cup {None})
=============================================================================
