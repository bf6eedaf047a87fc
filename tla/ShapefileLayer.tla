--------------------------- MODULE ShapefileLayer ---------------------------
(***************************************************************************)
(* One shapefile family from its members to the features a snapshot keeps:  *)
(* Source Contract V1 (shapefile_contract), the decoding of the polygons    *)
(* (shapefile_geometry), the quality flags (snapshot_evidence) and the      *)
(* reason a refused upload is given (forestry_uploads).                     *)
(*                                                                         *)
(* The plane is a set of cells that no boundary crosses.  A ring is the set *)
(* of cells it encloses and the sign of its area; a flat ring encloses      *)
(* none.  A cell text is named by what strip leaves of it.                  *)
(***************************************************************************)
EXTENDS Integers, Sequences, FiniteSets, SequencesExt

CONSTANTS
    Numbers,    \* the numeric texts and what int or float makes of them
    Starred     \* the use codes that end in the truncation mark

ASSUME LayerAssumption == Numbers \in [DOMAIN Numbers -> Nat]

REQUIRED_MEMBER_SUFFIXES == {".shp", ".shx", ".dbf", ".prj", ".cpg"}
OPTIONAL_MEMBER_SUFFIXES == {".sbn", ".sbx", ".shp.xml"}
NumericFields == {"objectid", "sup_ha", "shape_area"}
NoText == ""
NoNumber == -1

Refusal(error) == [error |-> error]
Failed(result) == "error" \in DOMAIN result

\* The first refusal of a sequence of checks, each a condition and its error.
FirstFailure(checks) == SelectInSeq(checks, LAMBDA c : c.fails)

Fails(condition, error) == [fails |-> condition, error |-> error]

-----------------------------------------------------------------------------
\* shapefile_contract: the checks, in the order they are made.

_resolve_members(family) ==
    << Fails(".shp" \notin family.members, "missing .shp"),
       Fails(~(REQUIRED_MEMBER_SUFFIXES \subseteq family.members), "incomplete") >>

_validate_encoding_declaration(family) == << Fails(family.cpg # "UTF-8", "encoding") >>

_validate_prj(family) == << Fails(family.prj # "UTM 18S", "prj") >>

\* The header of a main or index file.
_read_main_file_header(file) ==
    << Fails(file.header = "short", "header truncated"),
       Fails(file.header = "magic", "not a valid member"),
       Fails(file.header = "length", "declared length") >>

\* The counts that load_forestry_shapefile compares at the end.
RecordCounts(family) ==
    << Fails(Len(family.dbf.rows) # family.shx.count, "counts disagree"),
       Fails(Len(family.dbf.rows) = 0, "no features") >>

_read_shx_record_count(family) ==
    _read_main_file_header(family.shx)
        \o << Fails(family.shx.type # family.shp.type, "shx shape type disagrees") >>

\* A text of the attribute table, or the error of one that is no number.
_parse_dbf_value(field, text) ==
    IF field \notin NumericFields THEN text
    ELSE IF text = NoText THEN NoNumber
    ELSE Numbers[text]

Unparseable(row) ==
    \E f \in DOMAIN row.texts \cap NumericFields :
        row.texts[f] \notin DOMAIN Numbers \cup {NoText}

\* The records are read one by one: the first bad one decides.
_read_dbf_rows(family) ==
    LET dbf == family.dbf
        record(i) == << Fails(dbf.rows[i].cut, "dbf record truncated"),
                        Fails(dbf.rows[i].deleted, "soft-deleted"),
                        Fails(Unparseable(dbf.rows[i]), "unparseable") >>
    IN  << Fails(dbf.header = "short", "dbf header truncated"),
           Fails(dbf.header = "descriptors", "descriptors truncated"),
           Fails(dbf.schema # "V1", "dbf schema") >>
        \o FlattenSeq([i \in DOMAIN dbf.rows |-> record(i)])

SourceFeatureRow(family, i) ==
    LET texts == family.dbf.rows[i].texts
    IN  [f \in DOMAIN texts |-> _parse_dbf_value(f, texts[f])]

\* The members a fingerprint is taken of: every one that is present.
_fingerprint_members(family) == family

load_forestry_shapefile(family) ==
    _resolve_members(family)
        \o _validate_encoding_declaration(family)
        \o _validate_prj(family)
        \o _read_main_file_header(family.shp)
        \o << Fails(family.shp.type # 5, "unsupported shape type") >>
        \o _read_shx_record_count(family)
        \o _read_dbf_rows(family)
        \o RecordCounts(family)

-----------------------------------------------------------------------------
\* shapefile_geometry.

_signed_area(ring) == IF ring.clockwise THEN -Cardinality(ring.cells) ELSE Cardinality(ring.cells)

\* A record is damaged in at most one way; these are the errors in their order.
_decode_record_rings(record) ==
    << Fails(record.damage = "content", "record content truncated"),
       Fails(record.damage = "null", "null shape"),
       Fails(record.damage = "type", "record shape type"),
       Fails(record.damage = "short", "record content truncated"),
       Fails(record.damage = "layout", "part layout"),
       Fails(record.damage = "length", "content length disagrees"),
       Fails(record.damage = "offsets", "part offsets"),
       Fails(record.damage = "few", "few points"),
       Fails(record.damage = "open", "unclosed ring") >>

\* The records are framed by their headers, numbered from one.
decode_polygon_records(family) ==
    LET records == family.shp.records
        record(i) == << Fails(records[i].damage = "header", "record header truncated"),
                        Fails(records[i].number # i, "not sequential"),
                        Fails(records[i].damage = "cut", "record truncated") >>
                     \o _decode_record_rings(records[i])
    IN  FlattenSeq([i \in DOMAIN records |-> record(i)])

\* Mutant: the first exterior that contains the hole, whatever its size.
FirstContainingShell(shells, hole) ==
    LET containing == {i \in DOMAIN shells : hole.cells \subseteq shells[i].cells}
    IN  IF containing = {} THEN 0 ELSE Min(containing)

\* The index of the exterior a hole belongs to: the smallest that contains it, the
\* first of equals, 0 when none does.
_smallest_containing_shell(shells, hole) ==
    LET containing == {i \in DOMAIN shells : hole.cells \subseteq shells[i].cells}
        size(i) == Cardinality(shells[i].cells)
        smallest == {i \in containing : \A j \in containing : size(i) <= size(j)}
    IN  IF containing = {} THEN 0 ELSE Min(smallest)

\* Such a hole becomes a part of its own.
Promoted(holes) == [i \in DOMAIN holes |-> [shell |-> holes[i].cells, holes |-> << >>]]

\* The parts of a record: its exteriors with the holes assigned to them, then the
\* promoted holes.
Polygons(rings) ==
    LET exteriors == SelectSeq(rings, LAMBDA r : _signed_area(r) <= 0)
        holes == SelectSeq(rings, LAMBDA r : _signed_area(r) > 0)
        within(i) == SelectSeq(holes, LAMBDA h : _smallest_containing_shell(exteriors, h) = i)
        part(i) == [shell |-> exteriors[i].cells,
                    holes |-> [k \in DOMAIN within(i) |-> within(i)[k].cells]]
    IN  [i \in DOMAIN exteriors |-> part(i)] \o Promoted(within(0))

Covered(polygon) == polygon.shell \ UNION Range(polygon.holes)

\* What GEOS makes of a multipolygon.
is_valid(polygons) ==
    /\ \A p \in Range(polygons) :
         /\ Covered(p) # {}
         /\ \A i, j \in DOMAIN p.holes : i # j => p.holes[i] \cap p.holes[j] = {}
    /\ \A i, j \in DOMAIN polygons : i # j => Covered(polygons[i]) \cap Covered(polygons[j]) = {}

\* The area of a multipolygon is a sum over its rings, whether it is valid or not.
Area(polygons) ==
    LET sizes(s) == FoldSeq(LAMBDA cells, n : Cardinality(cells) + n, 0, s)
    IN  FoldSeq(LAMBDA p, n : n + Cardinality(p.shell) - sizes(p.holes), 0, polygons)

\* The stored coordinates are the rings in the order of the parts.
_build_feature(rings) ==
    LET polygons == Polygons(rings)
    IN  [wkb |-> polygons, is_valid |-> is_valid(polygons), area |-> Area(polygons),
         ring_count |-> Len(rings), part_count |-> Len(polygons)]

-----------------------------------------------------------------------------
\* snapshot_evidence and forestry_persistence.

\* The pairs of a code and a name, both present, and how often each occurs.
PairCount(rows, code, name) ==
    Cardinality({i \in DOMAIN rows : rows[i].cod_predial = code /\ rows[i].nom_predio = name})

Paired(row) == row.cod_predial # NoText /\ row.nom_predio # NoText

\* A pair that is rarer than another one of its code or of its name.
Anomalous(rows, i) ==
    /\ Paired(rows[i])
    /\ \E j \in DOMAIN rows :
         /\ Paired(rows[j])
         /\ rows[j].cod_predial = rows[i].cod_predial \/ rows[j].nom_predio = rows[i].nom_predio
         /\ PairCount(rows, rows[i].cod_predial, rows[i].nom_predio)
                < PairCount(rows, rows[j].cod_predial, rows[j].nom_predio)

compute_quality_flags(rows, geometries, i) ==
    LET row == rows[i]
        others == DOMAIN rows \ {i}
        flag(condition, name) == IF condition THEN {name} ELSE {}
    IN  flag(~geometries[i].is_valid, "invalid_geometry")
        \cup flag(\E j \in others : geometries[j].wkb = geometries[i].wkb, "duplicate_geometry")
        \cup flag(row.n_rodal = NoText, "blank_rodal")
        \cup flag(/\ row.n_rodal # NoText /\ row.cod_predial # NoText
                  /\ \E j \in others : /\ rows[j].cod_predial = row.cod_predial
                                       /\ rows[j].n_rodal = row.n_rodal,
                  "duplicate_predio_rodal_key")
        \cup flag(Anomalous(rows, i), "predio_code_name_anomaly")
        \cup flag(row.cod_uso_2026 \in Starred, "truncated_use_code_2026")

_require_aligned_records(family) ==
    << Fails(Len(family.dbf.rows) # Len(family.shp.records), "streams disagree") >>

\* The assertion of SourceFeatureRow.objectid, met while the parameters are built.
ObjectidAsserted(family) ==
    [i \in DOMAIN family.dbf.rows |->
        Fails(family.dbf.rows[i].texts["objectid"] = NoText, "assertion")]

_build_feature_parameters(family) ==
    LET rows == [i \in DOMAIN family.dbf.rows |-> SourceFeatureRow(family, i)]
        geometries == [i \in DOMAIN family.shp.records |-> _build_feature(family.shp.records[i].rings)]
    IN  [i \in DOMAIN rows |->
            [feature_ordinal |-> i, values |-> rows[i], geometry |-> geometries[i],
             quality_flags |-> compute_quality_flags(rows, geometries, i)]]

\* Validation, decoding and evidence of one family: its features, or the first
\* error.  Nothing is written.
parse_forestry_family(family) ==
    LET contract == load_forestry_shapefile(family)
        decoding == decode_polygon_records(family) \o _require_aligned_records(family)
                        \o ObjectidAsserted(family)
        first(checks) == checks[FirstFailure(checks)].error
    IN  IF FirstFailure(contract) # 0 THEN Refusal(first(contract))
        ELSE IF FirstFailure(decoding) # 0 THEN Refusal(first(decoding))
        ELSE [features |-> _build_feature_parameters(family)]

-----------------------------------------------------------------------------
\* The reason given for an error, by the words its message holds, in the order
\* they are looked for.
describe_contract_failure(error) ==
    CASE error = "prj" -> "crs_mismatch"
      [] error = "encoding" -> "encoding"
      [] error = "dbf schema" -> "attribute_schema"
      [] error = "null shape" -> "null_geometry"
      [] error \in {"unsupported shape type", "shx shape type disagrees", "record shape type"} ->
            "geometry_type"
      [] error = "soft-deleted" -> "deleted_record"
      [] error \in {"counts disagree", "content length disagrees"} -> "record_mismatch"
      [] error = "no features" -> "empty"
      [] error = "unparseable" -> "attribute_value"
      [] error \in {"header truncated", "dbf header truncated", "descriptors truncated",
                    "dbf record truncated", "record header truncated", "record truncated",
                    "record content truncated", "not a valid member", "declared length"} -> "damaged"
      [] OTHER -> "contract_violation"
=============================================================================
