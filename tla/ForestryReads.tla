---------------------------- MODULE ForestryReads ----------------------------
(***************************************************************************)
(* The read projections over one stored snapshot (forestry_reads, the       *)
(* aggregates of forestry_versions, and the routes that serve them): each   *)
(* is one or two queries over the same immutable features.                  *)
(***************************************************************************)
EXTENDS ShapefileLayer

KNOWN_QUALITY_FLAGS ==
    {"blank_rodal", "duplicate_geometry", "duplicate_predio_rodal_key", "invalid_geometry",
     "predio_code_name_anomaly", "truncated_use_code_2026"}

_EQUALITY_FILTER_COLUMNS ==
    {"cod_predial", "nom_predio", "n_rodal", "cod_uso", "uso_2024", "desc_uso", "uso_2026", "cod_uso_2026"}

_CHANGE_FILTER_COLUMNS ==
    [uso_2024_vs_uso_2026 |-> <<"uso_2024", "uso_2026">>,
     cod_uso_vs_cod_uso_2026 |-> <<"cod_uso", "cod_uso_2026">>]

\* The filters a request may give.
SourceFeatureFilters ==
    _EQUALITY_FILTER_COLUMNS \cup {"quality_flag", "geometry_valid"} \cup DOMAIN _CHANGE_FILTER_COLUMNS

\* SUM over a set of features, which skips what is not there, and its COALESCE to 0.
SumOf(features, S, Value(_)) ==
    FoldSet(LAMBDA o, sum : sum + (IF Value(features[o]) = NoNumber THEN 0 ELSE Value(features[o])), 0, S)

SupHa(feature) == feature.values.sup_ha
GeometryArea(feature) == feature.geometry.area

\* One row of an aggregate query.
Aggregate(features, S) ==
    [feature_count |-> Cardinality(S), sup_ha_total |-> SumOf(features, S, SupHa),
     geometry_area_total |-> SumOf(features, S, GeometryArea)]

snapshot_summary(features) ==
    LET all == DOMAIN features
        flagged(f) == {o \in all : f \in features[o].quality_flags}
    IN  [totals |-> Aggregate(features, all),
         geometry_valid_count |-> Cardinality({o \in all : features[o].geometry.is_valid}),
         geometry_invalid_count |-> Cardinality({o \in all : ~features[o].geometry.is_valid}),
         quality_flag_counts |-> [f \in {g \in KNOWN_QUALITY_FLAGS : flagged(g) # {}} |->
                                    Cardinality(flagged(f))],
         n_rodal_te_non_blank_count |-> Cardinality({o \in all : features[o].values.n_rodal_te # NoText})]

\* The groups of a GROUP BY; rows without a value are a group of their own.
Grouped(features, columns) == {[c \in columns |-> features[o].values[c]] : o \in DOMAIN features}

InGroup(features, key) == {o \in DOMAIN features : \A c \in DOMAIN key : features[o].values[c] = key[c]}

predio_distribution(features) ==
    {[key |-> k, totals |-> Aggregate(features, InGroup(features, k))] :
        k \in Grouped(features, {"cod_predial", "nom_predio"})}

use_distribution(features, field) ==
    {[key |-> k, totals |-> Aggregate(features, InGroup(features, k))] : k \in Grouped(features, {field})}

\* IS DISTINCT FROM: a value and no value differ, two missing values do not.
IsDistinct(row, before, after) == row[before] # row[after]

_field_differences(features, before, after) ==
    SelectSeq(features, LAMBDA f : IsDistinct(f.values, before, after))

use_field_comparison(features) ==
    [pair \in DOMAIN _CHANGE_FILTER_COLUMNS |->
        _field_differences(features, _CHANGE_FILTER_COLUMNS[pair][1], _CHANGE_FILTER_COLUMNS[pair][2])]

\* The conditions of a request's filters, a record of the filters it gives.  An
\* equality never holds of a missing value.
_filter_conditions(filters, feature) ==
    /\ \A c \in DOMAIN filters \cap _EQUALITY_FILTER_COLUMNS :
         feature.values[c] # NoText /\ feature.values[c] = filters[c]
    /\ "quality_flag" \in DOMAIN filters => filters.quality_flag \in feature.quality_flags
    /\ "geometry_valid" \in DOMAIN filters => feature.geometry.is_valid = filters.geometry_valid
    /\ \A p \in DOMAIN filters \cap DOMAIN _CHANGE_FILTER_COLUMNS :
         LET columns == _CHANGE_FILTER_COLUMNS[p]
         IN  IF filters[p] = "changed" THEN IsDistinct(feature.values, columns[1], columns[2])
             ELSE feature.values[columns[1]] = feature.values[columns[2]]

Listed(features, filters) == SelectSeq(features, LAMBDA f : _filter_conditions(filters, f))

\* Mutant: the offset counts pages.
PageOfPages(rows, limit, offset) ==
    SubSeq(rows, limit * offset + 1,
           IF limit * offset + limit > Len(rows) THEN Len(rows) ELSE limit * offset + limit)

\* LIMIT and OFFSET over the ordered rows.
PageOf(rows, limit, offset) == SubSeq(rows, offset + 1, IF offset + limit > Len(rows) THEN Len(rows) ELSE offset + limit)

\* A count and one page, in ordinal order.
list_source_features(features, filters, limit, offset) ==
    [total_count |-> Len(Listed(features, filters)),
     features |-> PageOf(Listed(features, filters), limit, offset)]

get_source_feature(features, ordinal) ==
    SelectSeq(features, LAMBDA f : f.feature_ordinal = ordinal)

list_feature_geometries(features, filters) == Listed(features, filters)

list_invalid_geometries(features) == SelectSeq(features, LAMBDA f : ~f.geometry.is_valid)

\* The numbers a version is listed with: the stored feature count and the aggregates
\* of the lateral join.
VersionNumbers(features) ==
    [totals |-> Aggregate(features, DOMAIN features),
     geometry_invalid_count |-> Len(list_invalid_geometries(features))]

-----------------------------------------------------------------------------
\* The totals a version is listed with, those of its summary and the sums of every
\* distribution are the same numbers, blanks included.
TotalsAgree(features) ==
    LET total == snapshot_summary(features).totals
        sums(d) == [n \in DOMAIN total |-> FoldSet(LAMBDA e, sum : e.totals[n] + sum, 0, d)]
    IN  /\ VersionNumbers(features).totals = total
        /\ sums(predio_distribution(features)) = total
        /\ \A field \in {"uso_2024", "uso_2026"} : sums(use_distribution(features, field)) = total

\* Every count that links to a list is the length of that list: quality flags, invalid
\* geometries, and the entries of a distribution that name a value.
CountsMatchLists(features) ==
    LET summary == snapshot_summary(features)
        listed(filters) == Len(Listed(features, filters))
    IN  /\ \A f \in DOMAIN summary.quality_flag_counts :
             summary.quality_flag_counts[f] = listed([quality_flag |-> f])
        /\ summary.geometry_invalid_count = listed([geometry_valid |-> FALSE])
        /\ summary.geometry_invalid_count = listed([quality_flag |-> "invalid_geometry"])
        /\ \A e \in use_distribution(features, "uso_2026") :
             e.key.uso_2026 # NoText => e.totals.feature_count = listed([uso_2026 |-> e.key.uso_2026])

\* The two change filters split the snapshot, and the changed half is what the source
\* field comparison lists, missing values included.
ChangesSplit(features) ==
    \A p \in DOMAIN _CHANGE_FILTER_COLUMNS :
        LET changed == Listed(features, (p :> "changed"))
            same == Listed(features, (p :> "unchanged"))
        IN  /\ Range(changed) \cup Range(same) = Range(features)
            /\ Len(changed) + Len(same) = Len(features)
            /\ changed = use_field_comparison(features)[p]

\* Reading a list page by page gives every feature of it once and in order, whatever
\* the page size; each page carries the length of the whole, the map shows the whole,
\* and each entry leads to its feature.
PagesComplete(features, filters, limit) ==
    LET whole == Listed(features, filters)
        pages == (Len(whole) + limit - 1) \div limit
        page(k) == list_source_features(features, filters, limit, (k - 1) * limit)
    IN  /\ FlattenSeq([k \in 1..pages |-> page(k).features]) = whole
        /\ \A k \in 1..pages : page(k).total_count = Len(whole)
        /\ list_feature_geometries(features, filters) = whole
        /\ \A f \in Range(whole) : get_source_feature(features, f.feature_ordinal) = <<f>>
=============================================================================
