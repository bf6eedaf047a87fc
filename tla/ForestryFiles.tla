---------------------------- MODULE ForestryFiles ----------------------------
(***************************************************************************)
(* The Rodales layer between its analyst and the stored snapshots: the      *)
(* layer is redrawn, relabelled, damaged and repacked in a GIS, and each    *)
(* time sent to the dashboard's upload or to the import script.  The        *)
(* changes are the environment's; sending is upload_shapefile_zip with      *)
(* accept_forestry_upload, or ingest_forestry_snapshot.                     *)
(***************************************************************************)
EXTENDS UploadArchive, ForestryComparison, ForestryReads

CONSTANTS
    Families,   \* the layers the analyst starts from
    FirstZip,   \* how it was packed the first time
    Zips,       \* how it may be packed later
    Shapes,     \* the rings a record is given
    Labels,     \* the changes <<field, text>> made to a row
    FORESTRY_MAX_UPLOAD_BYTES,
    MaxChanges  \* bound on the changes made to one layer

VARIABLES
    drawing,    \* the files as they are
    zip,        \* how they were packed last
    snapshots,  \* forestry.shapefile_snapshot with its features, oldest first
    objects,    \* the ZIPs in the object store
    audits,     \* the audit records of the uploads
    answer,     \* what the last call answered
    changes

filesVars == <<drawing, zip, snapshots, objects, audits, answer, changes>>

-----------------------------------------------------------------------------
\* A snapshot is found by its fingerprint and must agree with what was parsed.
_insert_shapefile_snapshot(rows, fingerprint) == \A s \in Range(rows) : s.fingerprint # fingerprint

_resolve_existing_snapshot(existing, layer_name, features) ==
    IF existing.layer_name # layer_name \/ Len(existing.features) # Len(features)
    THEN Refusal("conflicting_layer") ELSE [snapshot |-> existing, status |-> "already_uploaded"]

\* The snapshot of a parsed family: a new one with its features, or the one that holds
\* the same content.
persist_parsed_family(layer_name, fingerprint, features) ==
    IF _insert_shapefile_snapshot(snapshots, fingerprint)
    THEN [snapshot |-> [fingerprint |-> fingerprint, layer_name |-> layer_name, features |-> features],
          status |-> "uploaded"]
    ELSE _resolve_existing_snapshot(CHOOSE s \in Range(snapshots) : s.fingerprint = fingerprint,
                                    layer_name, features)

\* What is left of the files once they are extracted.
Extracted(layer, suffixes) == [layer EXCEPT !.members = suffixes]

\* Why a family that was extracted is refused.
UploadReason(error) ==
    CASE error = "streams disagree" -> "record_mismatch"
      [] error = "assertion" -> "internal_error"
      [] OTHER -> describe_contract_failure(error)

\* A call that goes through: the new or the known snapshot, and the ZIP if it is kept.
Accepted(result, keeps, layer, pack) ==
    /\ answer' = [status |-> result.status, snapshot |-> result.snapshot]
    /\ snapshots' = IF result.status = "uploaded" THEN Append(snapshots, result.snapshot) ELSE snapshots
    /\ objects' = IF keeps THEN objects \cup {<<layer, pack>>} ELSE objects

\* A refused call: its transaction is rolled back, the ZIP stays if it was stored.
Rejected(reason, stored, layer, pack) ==
    /\ answer' = [status |-> "rejected", reason |-> reason]
    /\ objects' = IF stored THEN objects \cup {<<layer, pack>>} ELSE objects
    /\ UNCHANGED snapshots

\* An upload stores its ZIP before it writes the snapshot; the import script keeps no copy.
Persisted(layer, pack, keeps, result) ==
    IF Failed(result) THEN Rejected(result.error, keeps, layer, pack) ELSE Accepted(result, keeps, layer, pack)

\* The files that were extracted, parsed and then written; an upload says why not.
Ingested(layer, pack, keeps, layer_name, fingerprint, parsed) ==
    IF Failed(parsed)
    THEN Rejected(IF keeps THEN UploadReason(parsed.error) ELSE parsed.error, FALSE, layer, pack)
    ELSE Persisted(layer, pack, keeps, persist_parsed_family(layer_name, fingerprint, parsed.features))

ParsedFiles(layer, pack, keeps, layer_name, files) ==
    Ingested(layer, pack, keeps, layer_name, _fingerprint_members(files), parse_forestry_family(files))

ExtractedFiles(layer, pack, keeps, extracted) ==
    IF Failed(extracted) THEN Rejected(extracted.error, FALSE, layer, pack)
    ELSE ParsedFiles(layer, pack, keeps, extracted.layer_name, Extracted(layer, extracted.suffixes))

\* The upload's own transaction: extract, parse, store the ZIP, then write.
accept_forestry_upload(layer, pack) == ExtractedFiles(layer, pack, TRUE, extract_upload_archive(pack))

\* Written in a transaction of its own after the upload's was rolled back; when that
\* fails too the record is lost.
_record_failure_audit(reason) ==
    \/ audits' = Append(audits, <<"upload_rejected", reason>>)
    \/ audits' = audits

\* How the name ends that is kept; a name with nothing printable becomes archivo.zip.
_safe_filename(ending) == IF ending = "blank" THEN "zip" ELSE ending

upload_shapefile_zip(layer, pack) ==
    IF _safe_filename(pack.name) # "zip" \/ pack.bytes > FORESTRY_MAX_UPLOAD_BYTES
    THEN /\ Rejected(IF _safe_filename(pack.name) # "zip" THEN "not_a_zip_name" ELSE "too_large", FALSE, layer, pack)
         /\ UNCHANGED audits
    ELSE /\ accept_forestry_upload(layer, pack)
         /\ IF answer'.status = "rejected" THEN _record_failure_audit(answer'.reason)
            ELSE audits' = Append(audits, <<"uploaded", answer'.status>>)

\* The import script reads the trusted ZIP; any error ends it.
ingest_forestry_snapshot(layer, pack) == ExtractedFiles(layer, pack, FALSE, extract_family_archive(pack))

-----------------------------------------------------------------------------
\* The environment: what the analyst does before sending again.

Send(layer, pack) ==
    /\ changes < MaxChanges /\ changes' = changes + 1
    /\ drawing' = layer /\ zip' = pack
    /\ upload_shapefile_zip(layer, pack)

Records == drawing.shp.records
NewRecord(i, rings) == [number |-> i, damage |-> "none", rings |-> rings]
Renumbered(records) == [i \in DOMAIN records |-> [records[i] EXCEPT !.number = i]]

Saved(layer) ==
    [layer EXCEPT !.shp.records = Renumbered(layer.shp.records), !.shx.count = Len(layer.shp.records)]

Redrawn == {[drawing EXCEPT !.shp.records[i] = NewRecord(i, rings)] : i \in DOMAIN Records, rings \in Shapes}

WithFeature ==
    IF Records = << >> \/ drawing.dbf.rows = << >> THEN {}
    ELSE {Saved([drawing EXCEPT !.shp.records = Append(@, NewRecord(Len(@) + 1, rings)),
                                !.dbf.rows = Append(@, @[1])]) : rings \in Shapes}

WithoutFeature ==
    {Saved([drawing EXCEPT !.shp.records = RemoveAt(@, i), !.dbf.rows = RemoveAt(@, i)]) :
        i \in DOMAIN Records \cap DOMAIN drawing.dbf.rows}

Swapped ==
    {Saved([drawing EXCEPT
        !.shp.records = [@ EXCEPT ![i] = Records[i + 1], ![i + 1] = Records[i]],
        !.dbf.rows = [@ EXCEPT ![i] = drawing.dbf.rows[i + 1], ![i + 1] = drawing.dbf.rows[i]]]) :
        i \in IF Len(Records) = Len(drawing.dbf.rows) THEN 1..(Len(Records) - 1) ELSE {}}

Relabelled == {[drawing EXCEPT !.dbf.rows[i].texts[l[1]] = l[2]] : i \in DOMAIN drawing.dbf.rows, l \in Labels}

RecordDamage ==
    {"header", "cut", "content", "null", "type", "short", "layout", "length", "offsets", "few", "open"}

\* One file is damaged, or was taken from another layer; of the polygons, the first.
Damaged ==
    {[drawing EXCEPT !.shp.records[i].damage = d] : i \in {1} \cap DOMAIN Records, d \in RecordDamage}
    \cup {[drawing EXCEPT !.shp.records[i].number = @ + 1] : i \in DOMAIN Records}
    \cup UNION {{[drawing EXCEPT !.shp.header = h], [drawing EXCEPT !.shx.header = h]} :
                    h \in {"short", "magic", "length"}}
    \cup {[drawing EXCEPT !.shp.type = 3], [drawing EXCEPT !.shx.type = 3], [drawing EXCEPT !.shx.count = @ + 1],
          [drawing EXCEPT !.dbf.schema = "other"], [drawing EXCEPT !.cpg = "LATIN1"],
          [drawing EXCEPT !.prj = "UTM 19S"]}
    \cup {[drawing EXCEPT !.dbf.header = h] : h \in {"short", "descriptors"}}
    \cup UNION {{[drawing EXCEPT !.dbf.rows[i].deleted = TRUE], [drawing EXCEPT !.dbf.rows[i].cut = TRUE]} :
                    i \in DOMAIN drawing.dbf.rows}
    \cup {[drawing EXCEPT !.shp.records = Front(@)] : k \in {1} \cap DOMAIN Records}

Edit ==
    \E layer \in Redrawn \cup WithFeature \cup WithoutFeature \cup Swapped \cup Relabelled \cup Damaged :
        Send(layer, zip)

Repack == \E pack \in Zips : Send(drawing, pack)

Import ==
    /\ changes < MaxChanges /\ changes' = changes + 1
    /\ \E pack \in Zips : zip' = pack /\ ingest_forestry_snapshot(drawing, pack)
    /\ UNCHANGED <<drawing, audits>>

FilesNext == Edit \/ Repack \/ Import

FirstSnapshot(files) ==
    [fingerprint |-> _fingerprint_members(files), layer_name |-> extract_upload_archive(zip).layer_name,
     features |-> parse_forestry_family(files).features]

Uploaded(first) == snapshots = << first >> /\ answer = [status |-> "uploaded", snapshot |-> first]

\* The layer the analyst starts from has been uploaded and is the published one.
FilesInit ==
    /\ drawing \in Families /\ zip = FirstZip /\ changes = 0
    /\ Uploaded(FirstSnapshot(Extracted(drawing, extract_upload_archive(zip).suffixes)))
    /\ objects = {<<drawing, zip>>} /\ audits = << <<"uploaded", "uploaded">> >>

-----------------------------------------------------------------------------
Stored == answer.status # "rejected"
Published == snapshots[1].features
Pending == answer.snapshot.features

\* Rings as a GIS draws them: apart or one inside the other, each an exterior exactly if
\* it lies inside an even number of others.
WellDrawn(rings) ==
    LET around(i) == {j \in DOMAIN rings \ {i} : rings[i].cells \subseteq rings[j].cells}
    IN  \A i, j \in DOMAIN rings :
          /\ rings[i].cells # {}
          /\ rings[i].clockwise = (Cardinality(around(i)) % 2 = 0)
          /\ i # j => /\ rings[i].cells # rings[j].cells
                      /\ \/ rings[i].cells \cap rings[j].cells = {}
                         \/ rings[i].cells \subseteq rings[j].cells
                         \/ rings[j].cells \subseteq rings[i].cells

\* A well drawn record is stored as it was drawn, lakes and islands of any depth
\* included: valid, with the ground that an odd number of its rings enclose.
StoredAsDrawn ==
    Stored => \A i \in DOMAIN Records :
        LET rings == Records[i].rings
            odd == {c \in UNION {r.cells : r \in Range(rings)} :
                        Cardinality({k \in DOMAIN rings : c \in rings[k].cells}) % 2 = 1}
        IN  WellDrawn(rings) => /\ Pending[i].geometry.is_valid
                                /\ Ground(Pending[i]) = odd
                                /\ Pending[i].geometry.area = Cardinality(odd)

\* No ring is dropped: every record keeps all it was drawn with, promoted holes included.
NoRingDropped ==
    Stored => \A i \in DOMAIN Pending :
        LET parts == Pending[i].geometry.wkb
        IN  FoldSeq(LAMBDA p, n : n + 1 + Len(p.holes), 0, parts) = Pending[i].geometry.ring_count

\* What is accepted is one layer: index, attributes and polygons are of the same
\* records, and feature i is row i drawn as record i.
OneLayerStored ==
    Stored =>
        /\ Len(Pending) = Len(Records) /\ Len(Pending) = drawing.shx.count
        /\ \A i \in DOMAIN Pending :
             /\ Pending[i].geometry = _build_feature(Records[i].rings)
             /\ \A f \in DOMAIN Pending[i].values :
                  f \notin NumericFields => Pending[i].values[f] = drawing.dbf.rows[i].texts[f]

\* The members come from one place in the archive and no kind twice, and all that was
\* written is within the limit.
OneLayerExtracted ==
    LET e == extract_upload_archive(zip)
        members == {m \in Range(zip.entries) : Layered(m)}
    IN  ~Failed(e) =>
          /\ Cardinality({m.folder : m \in members}) = 1 /\ Cardinality({m.stem : m \in members}) = 1
          /\ Cardinality({m.suffix : m \in members}) = Len(SelectSeq(zip.entries, Layered))
          /\ \A m \in members : m.real <= m.declared
          /\ e.total_uncompressed_bytes <= MAX_TOTAL_UNCOMPRESSED_BYTES

\* The flags are about the snapshot, not about its order: turned round it has the same
\* ones, copies are flagged together, and some pair of code and name stands unflagged.
FlagsOfTheSnapshot ==
    Stored =>
        LET turned == [drawing EXCEPT !.shp.records = Reverse(@), !.dbf.rows = Reverse(@)]
            flags == [i \in DOMAIN Pending |-> Pending[i].quality_flags]
            back == _build_feature_parameters(turned)
            paired == {i \in DOMAIN Pending : Paired(Pending[i].values)}
        IN  /\ [i \in DOMAIN back |-> back[i].quality_flags] = Reverse(flags)
            /\ Cardinality({i \in DOMAIN flags : "duplicate_geometry" \in flags[i]}) # 1
            /\ paired # {} => \E i \in paired : "predio_code_name_anomaly" \notin flags[i]
            /\ \A i, j \in paired :
                 (/\ Pending[i].values.nom_predio = Pending[j].values.nom_predio
                  /\ "predio_code_name_anomaly" \notin flags[i] \cup flags[j])
                    => PairCount([k \in DOMAIN Pending |-> Pending[k].values],
                                 Pending[i].values.cod_predial, Pending[i].values.nom_predio)
                       = PairCount([k \in DOMAIN Pending |-> Pending[k].values],
                                   Pending[j].values.cod_predial, Pending[j].values.nom_predio)

\* The same files are one snapshot however they are packed and whoever brings them; a
\* snapshot never changes.
OneSnapshotPerContent ==
    /\ \A i, j \in DOMAIN snapshots : i # j => snapshots[i].fingerprint # snapshots[j].fingerprint
    /\ Stored => answer.snapshot \in Range(snapshots)

\* What an accepted upload stores is the layer that was drawn: its records and rings as
\* one layer, its flags whatever its order, once per content.
LayerIsStored ==
    /\ StoredAsDrawn /\ NoRingDropped
    /\ OneLayerExtracted /\ OneLayerStored
    /\ FlagsOfTheSnapshot /\ OneSnapshotPerContent

\* The comparison a review rests on: every feature of both versions in one group, groups
\* by ground alone, the same from either side (compare_snapshots).
ComparisonCorrect == Stored => RightlyCompared(Published, Pending, compare_snapshots(Published, Pending))

\* The numbers on every page agree with each other and with the lists behind them.
ReadsAgree == Stored => TotalsAgree(Pending) /\ CountsMatchLists(Pending)

\* The change filters split the snapshot.
ReadsSplit == Stored => ChangesSplit(Pending)

\* Pages of every size show every feature once.
ReadsPaged ==
    Stored => \A limit \in 1..3 :
        /\ PagesComplete(Pending, << >>, limit)
        /\ PagesComplete(Pending, [quality_flag |-> "blank_rodal"], limit)

\* The summary, the list, its filters and its pages are of one set of features.
ReadsCorrect == ReadsAgree /\ ReadsSplit /\ ReadsPaged
=============================================================================
