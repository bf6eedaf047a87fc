--------------------------- MODULE ReportFeatures ---------------------------
(***************************************************************************)
(* The features of a management report and the files made of them: what a   *)
(* save accepts (forestry_report_geometry, _validate_planning_fields, the   *)
(* save and export routes of routers/forestry_reports), the shapefile,      *)
(* GeoPackage and CSV rows (forestry_report_export), and the harvest        *)
(* workbook (forestry_report_harvest_xlsx, forestry_species).               *)
(*                                                                         *)
(* One report is edited here; who may save when is in ForestryReports.      *)
(* Polygons are sets of cells as in ShapefileLayer, every cell of one area, *)
(* so areas, hectares and tolerances are numbers of cells.  Perimeters and  *)
(* the layout of the workbook are left out.                                 *)
(***************************************************************************)
EXTENDS ShapefileLayer

CONSTANTS
    Bases,                  \* the features of the base snapshots a report may have
    Inputs,                 \* the features a request may hold: see FeatureInput
    MAX_FEATURES,
    MIN_PIECE_AREA,         \* in cells, as the tolerances
    COVERAGE_TOLERANCE,
    OVERLAP_TOLERANCE,
    TooLong,                \* pairs of an attribute and a text wider than its DBF field
    MAX_SECTOR_LENGTH,
    MAX_REFOREST_SPECIES,
    LongNames,              \* species names of more than 40 characters
    MAX_REFOREST_DENSITY,
    Codes,                  \* what each 2026 use code reads as: see Code
    SPECIES_ORDER,
    ThisYear,               \* the last two digits of the current year
    FormulaTexts,           \* texts that begin like a formula
    SheetName,              \* a group's sheet name: what 31 and 29 characters keep of it
    Folded,                 \* what is left of a sheet name when case is ignored
    PredioRank,             \* the place of a predio's name in the alphabet, ignoring case
    MaxDraft                \* bound: features of a request

ASSUME ReportFeaturesAssumption ==
    /\ {MAX_FEATURES, MIN_PIECE_AREA, COVERAGE_TOLERANCE, OVERLAP_TOLERANCE, MaxDraft} \subseteq Nat
    /\ OVERLAP_TOLERANCE < MIN_PIECE_AREA
    /\ IsInjective(SPECIES_ORDER)

VARIABLES
    rodales,    \* the features of the report's base snapshot, by ordinal
    draft,      \* the features of the last save request
    saved,      \* forestry.report_feature, by position
    reply,      \* the reply to that request
    download,   \* the reply to the last export
    exported    \* the audit rows of exports

reportVars == <<rodales, draft, saved, reply, download, exported>>

EDITABLE_ATTRIBUTES ==
    {"n_rodal", "n_rodal_te", "cod_uso", "uso_2024", "desc_uso", "uso_2026", "cod_uso_2026"}

EDITADA_WEB == "wb"
NotText == "a value that is not text"
Untouched == [readable |-> TRUE, polygons |-> << >>, redrawn |-> FALSE]

\* One feature as the editor sends it.  A geometry is redrawn when its vertices are
\* not those of the polygon it covers.
FeatureInput(ordinal, in_report, attributes, geometry) ==
    [ordinal |-> ordinal, in_report |-> in_report, attributes |-> attributes, geometry |-> geometry,
     sector |-> 0, species |-> << >>, density |-> NoNumber]

-----------------------------------------------------------------------------
(* What may be saved.                                                      *)

_clean_attributes(item) ==
    FlattenSeq([i \in DOMAIN item.attributes |->
        << Fails(item.attributes[i][1] \notin EDITABLE_ATTRIBUTES, "attribute_not_editable"),
           Fails(item.attributes[i][2] = NotText, "attribute_not_text"),
           Fails(item.attributes[i] \in TooLong, "attribute_too_long") >>])

_read_geometry(item) == << Fails(~item.geometry.readable, "geometry_unreadable") >>

\* The polygons of an input: its own, or those of its source.
Drawn(item, sources) ==
    IF item.geometry = Untouched THEN sources[item.ordinal].geometry.wkb ELSE item.geometry.polygons

\* The same polygon up to noise, wherever its rings start.
_same_shape(item, sources) ==
    LET drawn == Drawn(item, sources)  source == sources[item.ordinal].geometry.wkb
    IN  ~item.geometry.redrawn /\ Len(drawn) = Len(source) /\ Range(drawn) = Range(source)

Cells(polygons) == UNION {Covered(p) : p \in Range(polygons)}

\* The inputs that name a source, and whether they are all copies of it.
Pieces(inputs, ordinal) == SelectSeq(inputs, LAMBDA item : item.ordinal = ordinal)
Copied(inputs, ordinal, sources) ==
    \A item \in Range(Pieces(inputs, ordinal)) : _same_shape(item, sources)

\* The symmetric difference of the union of the pieces and their source.
CoverageFails(union, source) ==
    Cardinality((union \ source) \cup (source \ union)) > COVERAGE_TOLERANCE

SplitChecks(inputs, ordinal, sources) ==
    LET pieces == Pieces(inputs, ordinal)
        polygons(i) == Drawn(pieces[i], sources)
        union == UNION {Cells(polygons(i)) : i \in DOMAIN pieces}
    IN  << Fails(~sources[ordinal].geometry.is_valid, "source_invalid_split") >>
        \o FlattenSeq([i \in DOMAIN pieces |->
               << Fails(~is_valid(polygons(i)), "geometry_invalid"),
                  Fails(Area(polygons(i)) < MIN_PIECE_AREA, "piece_too_small") >>])
        \o << Fails(CoverageFails(union, Cells(sources[ordinal].geometry.wkb)), "split_coverage") >>

\* The areas of a piece are measured.
MeasuredArea(changed, geometry, kept) == IF changed THEN Area(geometry) ELSE kept

AttributesEdited(item, source) ==
    \E i \in DOMAIN item.attributes : item.attributes[i][2] # source.values[item.attributes[i][1]]

\* The attributes of the source, those the editor sent, and the server's own.
Attributes(item, changed, geometry, source) ==
    LET sent(k) == SelectSeq(item.attributes, LAMBDA a : a[1] = k)
        kept(k) == IF sent(k) # << >> THEN sent(k)[1][2]
                   ELSE IF k \in DOMAIN source.values THEN source.values[k] ELSE NoText
    IN  [k \in DOMAIN source.values \cup {"editada"} |->
            CASE k \in {"sup_ha", "shape_area"} -> MeasuredArea(changed, geometry, kept(k))
              [] k = "editada" /\ (changed \/ AttributesEdited(item, source)) -> EDITADA_WEB
              [] OTHER -> kept(k)]

ResolvedFeature(inputs, i, sources) ==
    LET item == inputs[i]
        source == sources[item.ordinal]
        changed == ~Copied(inputs, item.ordinal, sources)
        stored == IF changed THEN Drawn(item, sources) ELSE source.geometry.wkb
    IN  [ordinal |-> item.ordinal, in_report |-> item.in_report, changed |-> changed,
         attributes |-> Attributes(item, changed, stored, source), geometry |-> stored,
         sector |-> item.sector, species |-> item.species, density |-> item.density]

\* Features of different sources overlap where their sources do.
_reject_overlaps(features) ==
    << Fails(\E i, j \in DOMAIN features :
                 /\ i < j /\ features[i].ordinal = features[j].ordinal
                 /\ Cardinality(Cells(features[i].geometry) \cap Cells(features[j].geometry)) > OVERLAP_TOLERANCE,
             "overlap") >>

\* The polygons pasted or split, checked source by source in the order they come.
SourceChecks(inputs, sources) ==
    FlattenSeq([i \in DOMAIN inputs |->
        LET o == inputs[i].ordinal
        IN  IF (\E j \in 1..(i - 1) : inputs[j].ordinal = o) \/ Copied(inputs, o, sources) THEN << >>
            ELSE SplitChecks(inputs, o, sources)])

InputChecks(inputs, sources) ==
    << Fails(Len(inputs) > MAX_FEATURES, "too_many_features") >>
        \o FlattenSeq([i \in DOMAIN inputs |->
               << Fails(inputs[i].ordinal \notin DOMAIN sources, "unknown_source") >>
                   \o _clean_attributes(inputs[i]) \o _read_geometry(inputs[i])])

FirstOf(checks) == checks[FirstFailure(checks)].error

\* The features to store and the sources carried with their error, or the first
\* rule that is broken.
resolve_features(inputs, sources) ==
    LET given == InputChecks(inputs, sources)
        split == SourceChecks(inputs, sources)
        features == [i \in DOMAIN inputs |-> ResolvedFeature(inputs, i, sources)]
        overlaps == _reject_overlaps(features)
        carried == {o \in DOMAIN sources : /\ Len(Pieces(inputs, o)) = 1 /\ Copied(inputs, o, sources)
                                           /\ ~sources[o].geometry.is_valid}
    IN  IF FirstFailure(given) # 0 THEN Refusal(FirstOf(given))
        ELSE IF FirstFailure(split) # 0 THEN Refusal(FirstOf(split))
        ELSE IF FirstFailure(overlaps) # 0 THEN Refusal(FirstOf(overlaps))
        ELSE [features |-> features, warnings |-> carried]

\* The polygons of the base that a request names.
load_source_polygons(ordinals) == [o \in ordinals \cap DOMAIN rodales |-> rodales[o]]

_validate_planning_fields(inputs) ==
    FlattenSeq([i \in DOMAIN inputs |->
        << Fails(inputs[i].sector > MAX_SECTOR_LENGTH, "sector_too_long"),
           Fails(Len(inputs[i].species) > MAX_REFOREST_SPECIES, "too_many_reforest_species"),
           Fails(Range(inputs[i].species) \cap LongNames # {}, "reforest_species_too_long"),
           Fails(~IsInjective(inputs[i].species), "reforest_species_duplicate"),
           Fails(inputs[i].density # NoNumber /\ inputs[i].density \notin 1..MAX_REFOREST_DENSITY,
                 "invalid_reforest_density") >>])

PlanningCodes == {"sector_too_long", "too_many_reforest_species", "reforest_species_too_long",
                  "reforest_species_duplicate", "invalid_reforest_density"}

\* A broken geometry rule is answered 422.  _STATUS_FOR_CODE has no entry for the
\* planning fields: the lookup fails and the reply is a bare 500.
_http_error(code) == IF code \in PlanningCodes THEN 500 ELSE 422

\* Bound: a request extends the one before it, unless that one broke a rule which
\* another feature cannot mend.
Extended == reply.code \in {"none", "saved", "split_coverage"}

\* PUT /features with one more feature than before: all of them replace the stored
\* ones in the transaction that checks them, or none does.
put_report_features(item) ==
    LET inputs == Append(draft, item)
        planning == _validate_planning_fields(inputs)
        resolution == IF FirstFailure(planning) # 0 THEN Refusal(FirstOf(planning))
                      ELSE resolve_features(inputs, load_source_polygons({f.ordinal : f \in Range(inputs)}))
    IN  /\ Len(draft) < MaxDraft /\ Extended /\ download = << >>
        /\ draft' = inputs
        /\ IF Failed(resolution)
           THEN /\ reply' = [status |-> _http_error(resolution.error), code |-> resolution.error]
                /\ UNCHANGED saved
           ELSE /\ reply' = [status |-> 200, code |-> "saved", warnings |-> resolution.warnings]
                /\ saved' = resolution.features
        /\ UNCHANGED <<rodales, download, exported>>

-----------------------------------------------------------------------------
(* The species a 2026 use code names.  A code is read as the segments of its  *)
(* first word, after a prefix in capitals: two letters and the year behind    *)
(* them; a segment is glued when a lower-case letter follows its letters.     *)

UnknownYear == -2
ENSAYO_KEY == << "ensayo" >>
NO_SPECIES_KEY == << "sin especie" >>

\* The segments up to the first that is no species.
SpeciesSegments(code) ==
    LET segments == Codes[code].segments
        unknown == SelectInSeq(segments, LAMBDA s : s.token \notin Range(SPECIES_ORDER))
    IN  IF unknown = 0 THEN segments ELSE SubSeq(segments, 1, unknown - 1)

species_tokens(code) ==
    IF \E s \in Range(SpeciesSegments(code)) : s.glued THEN << >>
    ELSE FoldLeft(LAMBDA tokens, s : IF s.token \in Range(tokens) THEN tokens ELSE Append(tokens, s.token),
                  << >>, SpeciesSegments(code))

species_group_key(code) ==
    IF Codes[code].ensayo THEN ENSAYO_KEY
    ELSE IF species_tokens(code) = << >> THEN NO_SPECIES_KEY
    ELSE SelectSeq(SPECIES_ORDER, LAMBDA t : t \in Range(species_tokens(code)))

\* The first year, unless a segment before it is glued or has an unknown year.
plantation_year(code) ==
    LET segments == SpeciesSegments(code)
        first == SelectInSeq(segments, LAMBDA s : s.glued \/ s.year # NoNumber)
        yy == segments[first].year
    IN  IF first = 0 \/ segments[first].glued \/ yy = UnknownYear THEN NoNumber
        ELSE IF yy > ThisYear THEN 1900 + yy ELSE 2000 + yy

-----------------------------------------------------------------------------
(* The files.  The report's own name, type, date and state, the same in every *)
(* row, are left out.                                                         *)

\* A piece has no OBJECTID of its own.
row_values(row) ==
    [OBJECTID |-> IF row.changed THEN 0 ELSE row.attributes.objectid,
     OID_ORIGEN |-> row.attributes.objectid,
     EN_INFORME |-> IF row.in_report THEN "si" ELSE "no",
     base |-> row.attributes, SECTOR |-> row.sector, ESP_REFOR |-> row.species,
     DENS_REFOR |-> row.density]

_shapefile_parts(geometry) ==
    FlattenSeq([i \in DOMAIN geometry |->
        << [cells |-> geometry[i].shell, clockwise |-> TRUE] >>
            \o [k \in DOMAIN geometry[i].holes |-> [cells |-> geometry[i].holes[k], clockwise |-> FALSE]]])

write_shapefile_zip(rows) ==
    [i \in DOMAIN rows |-> [values |-> row_values(rows[i]), parts |-> _shapefile_parts(rows[i].geometry)]]

write_geopackage(rows) ==
    [i \in DOMAIN rows |-> [values |-> row_values(rows[i]), geom |-> rows[i].geometry]]

\* Whether a text gets an apostrophe before it.
_csv_cell(value) == [text |-> value, apostrophe |-> value \in FormulaTexts]

\* The texts of a row; numbers are written as they are.
write_csv(rows) ==
    [i \in DOMAIN rows |->
        [values |-> row_values(rows[i]),
         texts |-> [k \in DOMAIN rows[i].attributes \ NumericFields |-> _csv_cell(rows[i].attributes[k])]]]

-----------------------------------------------------------------------------
(* The harvest workbook.                                                     *)

Hectares(row) == IF row.attributes.sup_ha = NoNumber THEN 0 ELSE row.attributes.sup_ha
HectaresOf(rows) == FoldSeq(LAMBDA row, n : n + Hectares(row), 0, rows)

Managed(rows) == SelectSeq(rows, LAMBDA row : row.in_report)

\* Mutant: only the pieces that are managed.
ManagedBySource(rows) ==
    [oid \in {row.attributes.objectid : row \in Range(rows)} |->
        HectaresOf(SelectSeq(Managed(rows), LAMBDA row : row.attributes.objectid = oid))]

sup_by_source(rows) ==
    [oid \in {row.attributes.objectid : row \in Range(rows)} |->
        HectaresOf(SelectSeq(rows, LAMBDA row : row.attributes.objectid = oid))]

GroupKey(row) == <<species_group_key(row.attributes.cod_uso_2026), row.attributes.nom_predio>>

RowsOfGroup(rows, key) == SelectSeq(rows, LAMBDA row : GroupKey(row) = key)

\* The places of the species in SPECIES_ORDER, those without one last.
_species_sort_key(key) ==
    IF key \in {ENSAYO_KEY, NO_SPECIES_KEY} THEN << Len(SPECIES_ORDER) + 1 >>
    ELSE [i \in DOMAIN key |-> SelectInSeq(SPECIES_ORDER, LAMBDA t : t = key[i]) - 1]

LexBefore(s, t) ==
    \/ IsStrictPrefix(s, t)
    \/ \E i \in DOMAIN s \cap DOMAIN t : s[i] < t[i] /\ \A j \in 1..(i - 1) : s[j] = t[j]

\* By species, by predio, and as they were met.
sorted_groups(rows) ==
    LET met(key) == SelectInSeq(rows, LAMBDA row : GroupKey(row) = key)
        before(a, b) ==
            \/ LexBefore(_species_sort_key(a[1]), _species_sort_key(b[1]))
            \/ /\ _species_sort_key(a[1]) = _species_sort_key(b[1])
               /\ \/ PredioRank[a[2]] < PredioRank[b[2]]
                  \/ PredioRank[a[2]] = PredioRank[b[2]] /\ met(a) < met(b)
    IN  SetToSortSeq({GroupKey(row) : row \in Range(rows)}, before)

\* A name is the text kept and the number behind it, 1 for none.
_safe_sheet_name(key, used) ==
    LET base_name == <<SheetName[key].at31, 1>>
        free == {i \in 2..99 : <<SheetName[key].at29, i>> \notin used}
    IN  IF base_name \notin used \/ free = {} THEN base_name ELSE <<SheetName[key].at29, Min(free)>>

SheetNames(keys) ==
    FoldLeft(LAMBDA names, key : Append(names, _safe_sheet_name(key, Range(names))), << >>, keys)

\* xlsxwriter compares names without case.
DuplicateWorksheetName(names) ==
    \E i, j \in DOMAIN names :
        i < j /\ names[i][2] = names[j][2] /\ Folded[names[i][1]] = Folded[names[j][1]]

\* A sheet of a group: its rows, the area of the whole rodal and the area to cut.
_write_detail_sheet(name, rows, whole) ==
    LET line(row) == [rodal |-> row.attributes.n_rodal, predio |-> row.attributes.nom_predio,
                      oid |-> row.attributes.objectid,
                      superficie |-> whole[row.attributes.objectid], superficie_corta |-> Hectares(row),
                      especie |-> species_group_key(row.attributes.cod_uso_2026),
                      ano_plantacion |-> plantation_year(row.attributes.cod_uso_2026),
                      sector |-> row.sector, reforestar |-> row.species, densidad |-> row.density]
        lines == [i \in DOMAIN rows |-> line(rows[i])]
    IN  [name |-> name, lines |-> lines,
         total |-> FoldSeq(LAMBDA l, n : n + l.superficie, 0, lines),
         total_corta |-> HectaresOf(rows)]

\* The summary: the area of each group, and the rows to be replanted.
_write_resumen(keys, rows) ==
    LET planted == SelectSeq(rows, LAMBDA row : row.species # << >>)
        groups == [i \in DOMAIN keys |-> [key |-> keys[i], superficie |-> HectaresOf(RowsOfGroup(rows, keys[i]))]]
    IN  [groups |-> groups, total |-> FoldSeq(LAMBDA g, n : n + g.superficie, 0, groups),
         planted |-> [i \in DOMAIN planted |-> [especies |-> planted[i].species, superficie |-> Hectares(planted[i])]],
         planted_total |-> HectaresOf(planted)]

write_harvest_xlsx(rows) ==
    LET managed == Managed(rows)
        whole == sup_by_source(rows)
        keys == sorted_groups(managed)
        names == SheetNames(keys)
    IN  IF DuplicateWorksheetName(names) THEN Refusal("duplicate sheet name")
        ELSE [resumen |-> _write_resumen(keys, managed),
              sheets |-> [i \in DOMAIN keys |-> _write_detail_sheet(names[i], RowsOfGroup(managed, keys[i]), whole)]]

export_report(format, rows) ==
    CASE format = "shp" -> [content |-> write_shapefile_zip(rows)]
      [] format = "gpkg" -> [content |-> write_geopackage(rows)]
      [] format = "csv" -> [content |-> write_csv(rows)]
      [] format = "xlsx" -> write_harvest_xlsx(rows)

\* Bound: after a refused save the rows are those an export saw before it.
JustSaved == reply.code \in {"none", "saved"}

\* GET /export: the file of all rows or of those marked, and its audit row.  A
\* workbook that cannot be written is a bare 500 without one.
export_report_file(format, scope) ==
    LET rows == IF scope = "all" THEN saved ELSE Managed(saved)
        file == export_report(format, rows)
    IN  /\ download = << >> /\ JustSaved
        /\ IF Failed(file)
           THEN download' = << [format |-> format, scope |-> scope, status |-> 500] >> /\ UNCHANGED exported
           ELSE /\ download' = << [format |-> format, scope |-> scope, status |-> 200, file |-> file] >>
                /\ exported' = Append(exported, [format |-> format, scope |-> scope, row_count |-> Len(rows)])
        /\ UNCHANGED <<rodales, draft, saved, reply>>

-----------------------------------------------------------------------------
ReportInit ==
    /\ rodales \in Bases
    /\ draft = << >> /\ saved = << >>
    /\ reply = [status |-> 0, code |-> "none"]
    /\ download = << >> /\ exported = << >>

ReportNext ==
    \/ \E item \in Inputs : put_report_features(item)
    \/ \E format \in {"shp", "gpkg", "csv", "xlsx"}, scope \in {"all", "marked"} :
           export_report_file(format, scope)

ReportSpec == ReportInit /\ [][ReportNext]_reportVars

-----------------------------------------------------------------------------
(* Properties.                                                             *)

SavedPieces(o) == SelectSeq(saved, LAMBDA row : row.ordinal = o)
Pairs(rows) == (Len(rows) * (Len(rows) - 1)) \div 2

\* A hectare figure that the rules allow for all the pieces of a split source.
NearSource(hectares, o) ==
    LET slack == COVERAGE_TOLERANCE + OVERLAP_TOLERANCE * Pairs(SavedPieces(o))
        area == Area(rodales[o].geometry.wkb)
    IN  area - slack <= hectares /\ hectares <= area + slack

\* Splitting a rodal keeps its area: what resolve_features stored for the pieces of
\* a source, each measured anew, adds up to the source's own area but for the
\* tolerances of the coverage and the overlap rule.
AreaKept ==
    \A o \in DOMAIN rodales :
        LET pieces == SavedPieces(o)
        IN  pieces # << >> /\ pieces[1].changed => NearSource(HectaresOf(pieces), o)

\* editada says that a row was edited, now or before, exactly when the geometry or an attribute differs
\* from the source, and nothing but the editable attributes, the areas of a piece and
\* that mark ever differs.
MarkedIfEdited ==
    \A row \in Range(saved) :
        LET source == rodales[row.ordinal].values
            differ == {k \in DOMAIN source \ {"editada"} : row.attributes[k] # source[k]}
            before == "editada" \in DOMAIN source /\ source.editada = EDITADA_WEB
        IN  /\ differ \subseteq EDITABLE_ATTRIBUTES \cup (IF row.changed THEN {"sup_ha", "shape_area"} ELSE {})
            /\ row.attributes.editada = EDITADA_WEB <=> row.changed \/ differ # {} \/ before

UniqueObjectids == \A o, p \in DOMAIN rodales : rodales[o].values.objectid = rodales[p].values.objectid => o = p

\* Copies of a source this small pass the overlap rule.
Negligible(o) == Area(rodales[o].geometry.wkb) <= OVERLAP_TOLERANCE

Downloaded(formats) == {d \in Range(download) : d.format \in formats /\ d.status = 200}

\* No exported file has two rows with the OBJECTID of one rodal: whatever was pasted,
\* split and marked, only an untouched copy keeps it (OBJECTID 0 is every piece's).
OneRowPerObjectid ==
    \A d \in Downloaded({"shp", "gpkg", "csv"}) :
        LET ids == [i \in DOMAIN d.file.content |-> d.file.content[i].values.OBJECTID]
        IN  UniqueObjectids /\ (\A o \in DOMAIN rodales : ~Negligible(o)) =>
                \A i, j \in DOMAIN ids : ids[i] = ids[j] /\ ids[i] # 0 => i = j

\* The polygons of an exported shapefile read back, by the decoder of the uploads, as
\* the polygons that were saved.
ShapefileReadBack ==
    \A d \in Downloaded({"shp"}) :
        LET rows == IF d.scope = "all" THEN saved ELSE Managed(saved)
            shape(polygons) == {<<p.shell, Range(p.holes)>> : p \in Range(polygons)}
        IN  /\ Len(d.file.content) = Len(rows)
            /\ \A i \in DOMAIN rows : is_valid(rows[i].geometry) =>
                   shape(Polygons(d.file.content[i].parts)) = shape(rows[i].geometry)

\* The harvest workbook adds up: every managed row is on one sheet, the summary has
\* the areas of the sheets, their total is that of the managed rows, no more is
\* replanted than is cut, and no sheet hides another.
HarvestAddsUp ==
    \A d \in Downloaded({"xlsx"}) :
        LET sheets == d.file.sheets  resumen == d.file.resumen
            lines == FlattenSeq([i \in DOMAIN sheets |-> sheets[i].lines])
        IN  /\ Len(lines) = Len(Managed(saved))
            /\ resumen.total = HectaresOf(Managed(saved))
            /\ \A i \in DOMAIN sheets :
                   /\ sheets[i].total_corta = resumen.groups[i].superficie
                   /\ sheets[i].total_corta
                        = FoldSeq(LAMBDA l, n : n + l.superficie_corta, 0, sheets[i].lines)
            /\ resumen.planted_total <= resumen.total
            /\ IsInjective([i \in DOMAIN sheets |-> sheets[i].name])

\* In a workbook of all rows "superficie" is the area of the whole rodal, although
\* only some of its pieces may be managed: the base's figure of an untouched rodal,
\* the source's area of a split one.
WholeRodal ==
    \A d \in Downloaded({"xlsx"}) : d.scope = "all" /\ UniqueObjectids =>
        \A sheet \in Range(d.file.sheets) : \A line \in Range(sheet.lines) :
            \A o \in {o \in DOMAIN rodales : rodales[o].values.objectid = line.oid /\ ~Negligible(o)} :
                IF SavedPieces(o)[1].changed THEN NearSource(line.superficie, o)
                ELSE line.superficie = Hectares([attributes |-> rodales[o].values])

\* Rows of one predio planted with the same species are on one sheet, in whatever
\* order and with whatever years their codes name them.
SameMixtureSameSheet ==
    \A d \in Downloaded({"xlsx"}) :
        \A i, j \in DOMAIN d.file.sheets :
            (\E a \in Range(d.file.sheets[i].lines), b \in Range(d.file.sheets[j].lines) :
                a.predio = b.predio /\ Range(a.especie) = Range(b.especie)) => i = j

\* What is saved of a report keeps the rodales it was cut from, and every file made of
\* it, shapefile, table or harvest workbook, says the same.
FeaturesFaithful ==
    /\ AreaKept /\ MarkedIfEdited
    /\ OneRowPerObjectid /\ ShapefileReadBack
    /\ HarvestAddsUp /\ WholeRodal /\ SameMixtureSameSheet
=============================================================================
