----------------------------- MODULE MCForestry -----------------------------
(* The parts of Rodales, each on its own: layers and archives that are        *)
(* uploaded, versions that are published and read, reports that are edited    *)
(* and reviewed, the features of a report and its files.                      *)
EXTENDS ForestryFiles, ForestryViews, ForestryReports, ReportFeatures

-----------------------------------------------------------------------------
(* Two layers of three features, one of them with lakes and islands, and    *)
(* the archives they are packed in.                                         *)

MCNumbers == ("1" :> 1) @@ ("2" :> 2) @@ ("3" :> 3)
MCStarred == {"Pi06*"}
MCLower == ("rodales" :> "rodales") @@ ("RODALES" :> "rodales") @@ ("predios" :> "predios") @@ ("" :> "")

Out(S) == [cells |-> S, clockwise |-> TRUE]
In(S) == [cells |-> S, clockwise |-> FALSE]

West == << Out({1, 2}) >>
East == << Out({3, 4}) >>
Middle == << Out({2, 3}) >>
Lake == << Out({1, 2, 3, 4}), In({2, 3}) >>
Island == << Out({1, 2, 3, 4, 5}), In({2, 3, 4}), Out({3, 4}), In({4}) >>

\* A hole on its own, two exteriors that overlap, a ring without area.
MCShapes == {West, East, Middle, Lake, Island, << In({5}) >>, << Out({1, 2}), Out({2}) >>, << Out({}) >>}

MCLabels ==
    {<<"objectid", "2">>, <<"objectid", "">>, <<"objectid", "x">>, <<"sup_ha", "">>,
     <<"n_rodal", "">>, <<"n_rodal", "R1">>, <<"nom_predio", "Alto">>, <<"cod_predial", "P2">>,
     <<"cod_predial", "">>, <<"uso_2026", "">>, <<"uso_2024", "">>, <<"cod_uso_2026", "Pi06*">>}

DbfRow(id, rodal) ==
    [deleted |-> FALSE, cut |-> FALSE,
     texts |-> [objectid |-> id, nom_predio |-> "Bajo", cod_predial |-> "P1", n_rodal |-> rodal,
                sup_ha |-> "1", shape_area |-> "1", cod_uso |-> "A", uso_2024 |-> "pino",
                desc_uso |-> "", uso_2026 |-> "pino", cod_uso_2026 |-> "A", n_rodal_te |-> ""]]

Layer(shapes) ==
    [members |-> {}, cpg |-> "UTF-8", prj |-> "UTM 18S",
     shp |-> [header |-> "ok", type |-> 5,
              records |-> [i \in DOMAIN shapes |-> [number |-> i, damage |-> "none", rings |-> shapes[i]]]],
     shx |-> [header |-> "ok", type |-> 5, count |-> Len(shapes)],
     dbf |-> [header |-> "ok", schema |-> "V1",
              rows |-> [i \in DOMAIN shapes |-> DbfRow(<<"1", "2", "3">>[i], <<"R1", "R2", "R3">>[i])]]]

MCFamilies == {Layer(<<West, East, << Out({5}) >> >>), Layer(<<Island, << Out({3}) >>, << Out({6}) >> >>)}

Entry(folder, stem, suffix) ==
    [kind |-> "file", plain |-> TRUE, folder |-> folder, stem |-> stem, suffix |-> suffix,
     encrypted |-> FALSE, method |-> TRUE, packed |-> 1, declared |-> 1, real |-> 1]

Required == << ".cpg", ".dbf", ".prj", ".shp", ".shx" >>
Pack(folder, stem) == [name |-> "zip", bytes |-> 5, readable |-> TRUE, entries |-> [i \in 1..5 |-> Entry(folder, stem, Required[i])]]

Plain == Pack("", "rodales")
With(entry) == [Plain EXCEPT !.entries = Append(@, entry)]
Directory(name) == [Entry(name, "", "") EXCEPT !.kind = "dir"]

MCZips ==
    {Plain, Pack("capa", "rodales"), Pack("", "predios"), Pack("", ""),
     [Plain EXCEPT !.readable = FALSE], [Plain EXCEPT !.name = "other"],
     [Plain EXCEPT !.name = "blank"], [Plain EXCEPT !.bytes = 10], [Plain EXCEPT !.bytes = 11],
     [Plain EXCEPT !.entries = Tail(@)],
     [Plain EXCEPT !.entries[5].stem = "predios"],
     [Plain EXCEPT !.entries[4].folder = "capa"],
     [Plain EXCEPT !.entries[1].encrypted = TRUE],
     [Plain EXCEPT !.entries[1].kind = "link"],
     [Plain EXCEPT !.entries[1].plain = FALSE],
     [Plain EXCEPT !.entries[2].method = FALSE],
     [Plain EXCEPT !.entries[2].real = 2],
     [Plain EXCEPT !.entries[2].declared = 4],
     [Plain EXCEPT !.entries[2].declared = 3, !.entries[2].real = 3],
     [Plain EXCEPT !.entries[2].declared = 3, !.entries[3].declared = 3],
     With(Entry("", "rodales", ".sbn")), With(Entry("", "rodales", ".txt")),
     With(Entry("", "RODALES", ".shp")), With(Entry("", "predios", ".shp")),
     With(Directory("capa")),
     [Pack("capa", "rodales") EXCEPT !.entries = << Directory("capa") >> \o @],
     [Plain EXCEPT !.entries = @ \o << Entry("", "rodales", ".sbn"), Entry("", "rodales", ".sbx"),
                                       Entry("", "rodales", ".shp.xml") >>]}

-----------------------------------------------------------------------------
(* A report on a base of four rodales of two predios: one with a lake, one   *)
(* that is invalid, and two predios whose names differ in case.              *)

LakeAndIsland == << [shell |-> {1, 2, 3, 4, 5, 6}, holes |-> << {5, 6} >>], [shell |-> {6}, holes |-> << >>] >>
Bowtie == << [shell |-> {11, 12}, holes |-> << >>], [shell |-> {12, 13}, holes |-> << >>] >>
Square == << [shell |-> {21, 22, 23}, holes |-> << >>] >>

Rodal(i, predio, code, polygons, hectares) ==
    [feature_ordinal |-> i,
     values |-> [objectid |-> i, nom_predio |-> predio, n_rodal |-> "R", sup_ha |-> hectares,
                 shape_area |-> hectares, cod_uso |-> "A", uso_2024 |-> "", desc_uso |-> "",
                 uso_2026 |-> "=pino", cod_uso_2026 |-> code, n_rodal_te |-> ""],
     geometry |-> [wkb |-> polygons, is_valid |-> is_valid(polygons)]]

MCBase ==
    << Rodal(1, "Bajo", "Pi06En08", LakeAndIsland, 5),
       Rodal(2, "Bajo", "En08Pi06", Bowtie, NoNumber),
       [Rodal(3, "BAJO", "ES", Square, 3) EXCEPT !.values = @ @@ ("editada" :> EDITADA_WEB)],
       Rodal(4, "Alto", "", << [shell |-> {31, 32}, holes |-> << >>] >>, 2) >>

MCBases == {MCBase}

Drawing(polygons) == [readable |-> TRUE, polygons |-> polygons, redrawn |-> FALSE]
Piece(S) == Drawing(<< [shell |-> S, holes |-> << >>] >>)

Mark(o) == FeatureInput(o, TRUE, << >>, Untouched)
Cut(o, S, marked) == FeatureInput(o, marked, << >>, Piece(S))

MCInputs ==
    {Mark(1), Mark(2), Mark(3), Mark(4), FeatureInput(4, FALSE, << >>, Untouched), Mark(9),
     \* Two halves of the first rodal, some that overlap or leave a part out, the whole redrawn.
     Cut(1, {1, 2}, TRUE), Cut(1, {3, 4, 6}, FALSE), Cut(1, {2, 3, 4}, TRUE), Cut(1, {1}, TRUE),
     Cut(1, {3, 4}, TRUE), FeatureInput(1, TRUE, << >>, Drawing(LakeAndIsland)),
     FeatureInput(1, TRUE, << >>, [Drawing(LakeAndIsland) EXCEPT !.redrawn = TRUE]),
     Cut(1, {1, 2, 3, 4, 6, 7}, TRUE),
     \* Pieces of the others.
     Cut(2, {11, 12}, TRUE), FeatureInput(3, TRUE, << >>, Drawing(Bowtie)),
     Cut(3, {21, 22, 23, 24}, TRUE),
     \* Attributes and planning fields.
     FeatureInput(3, TRUE, << <<"cod_uso_2026", "EnPi08">> >>, Untouched),
     FeatureInput(4, TRUE, << <<"cod_uso_2026", "EnPi08">> >>, Untouched),
     FeatureInput(4, TRUE, << <<"cod_uso_2026", "">> >>, Untouched),
     FeatureInput(4, TRUE, << <<"cod_uso", "=1+1">>, <<"cod_uso_2026", "PiAli">> >>, Untouched),
     FeatureInput(4, TRUE, << <<"sup_ha", "9">> >>, Untouched),
     FeatureInput(4, TRUE, << <<"n_rodal", NotText>> >>, Untouched),
     FeatureInput(4, TRUE, << <<"n_rodal", "12345678901">> >>, Untouched),
     FeatureInput(4, TRUE, << >>, [Untouched EXCEPT !.readable = FALSE]),
     [Mark(4) EXCEPT !.species = <<"pino", "ulmo">>, !.density = 1],
     [Mark(4) EXCEPT !.species = <<"pino", "pino">>],
     [Mark(4) EXCEPT !.species = <<"a long name">>],
     [Mark(4) EXCEPT !.species = <<"pino", "ulmo", "roble">>],
     [Mark(4) EXCEPT !.density = 0], [Mark(4) EXCEPT !.sector = 3]}

MCTooLong == {<<"n_rodal", "12345678901">>}
MCLongNames == {"a long name"}
Segment(token, year) == [token |-> token, glued |-> FALSE, year |-> year]
MCCodes ==
    ("" :> [ensayo |-> FALSE, segments |-> << >>])
    @@ ("Pi06En08" :> [ensayo |-> FALSE, segments |-> <<Segment("Pi", 6), Segment("En", 8)>>])
    @@ ("En08Pi06" :> [ensayo |-> FALSE, segments |-> <<Segment("En", UnknownYear), Segment("Pi", 6)>>])
    @@ ("EnPi08" :> [ensayo |-> FALSE, segments |-> <<Segment("En", NoNumber), Segment("Pi", 98), Segment("En", 8)>>])
    @@ ("PiAli" :> [ensayo |-> FALSE, segments |-> <<Segment("Pi", NoNumber), [Segment("Al", NoNumber) EXCEPT !.glued = TRUE]>>])
    @@ ("ES" :> [ensayo |-> TRUE, segments |-> << >>])
MCSpeciesOrder == <<"Pi", "En", "Al">>
MCFormulaTexts == {"=pino", "=1+1"}

\* Two mixtures and two predios that the first 31 characters do not tell apart.
MCPredios == {"Bajo", "BAJO", "Alto"}
MCSheetName ==
    [key \in ({ENSAYO_KEY, NO_SPECIES_KEY} \cup {<<"Pi", "En">>, <<"En", "Pi">>}) \X MCPredios |->
        CASE key[1] = ENSAYO_KEY -> [at31 |-> "Ensayo", at29 |-> "Ensay"]
          [] key[1] = NO_SPECIES_KEY -> [at31 |-> "Sin especie - " , at29 |-> "Sin especie"]
          [] key[2] = "Bajo" -> [at31 |-> "Mixta - Bajo", at29 |-> "Mixta"]
          [] key[2] = "BAJO" -> [at31 |-> "Mixta - BAJO", at29 |-> "Mixta"]
          [] OTHER -> [at31 |-> "Mixta - Alto", at29 |-> "Mixta"]]
MCFolded ==
    [n \in {"Ensayo", "Ensay", "Sin especie - ", "Sin especie", "Mixta - Bajo", "Mixta - BAJO", "Mixta - Alto", "Mixta"} |->
        IF n = "Mixta - BAJO" THEN "Mixta - Bajo" ELSE n]
MCPredioRank == [Alto |-> 1, Bajo |-> 2, BAJO |-> 2]

-----------------------------------------------------------------------------
VARIABLE running

-----------------------------------------------------------------------------
(* Three versions of a layer of two features: the second redraws a feature of *)
(* the first, which has to be reviewed, the third is the second with another  *)
(* label.                                                                     *)

Version(shapes) == [Layer(shapes) EXCEPT !.members = Range(Required)]
SecondVersion == Version(<< << Out({1, 2, 4}) >>, << Out({3}) >> >>)
Parsed(layer) == parse_forestry_family(layer).features

MCContent ==
    [s1 |-> Parsed(Version(<< << Out({1, 2}) >>, << Out({3}) >> >>)),
     s2 |-> Parsed(SecondVersion),
     s3 |-> Parsed([SecondVersion EXCEPT !.dbf.rows[2].texts.uso_2026 = ""])]

\* The pairs that need review, as the comparison of the contents finds them.
MCReviewRequired == {<<"s1", "s2">>, <<"s1", "s3">>, <<"s2", "s1">>, <<"s3", "s1">>}

ASSUME ReviewRequiredIsCompared == MCReviewRequired = RequiredPairs

\* What every route below one snapshot tells fits together.
ASSUME DashboardsFit == DashboardsAgree

-----------------------------------------------------------------------------
\* The other parts while one runs.
NoFiles ==
    /\ drawing = << >> /\ zip = [readable |-> FALSE, entries |-> << >>, bytes |-> 0, name |-> "zip"] /\ changes = 0
    /\ snapshots = << >> /\ answer = [status |-> "rejected", reason |-> "none"]
    /\ objects = {} /\ audits = << >>

NoFeatures ==
    /\ rodales = << >> /\ draft = << >> /\ saved = << >> /\ reply = [status |-> 0, code |-> "none"]
    /\ download = << >> /\ exported = << >>

ForestryInit ==
    \/ running = "files" /\ FilesInit /\ ViewInit /\ Init /\ NoFeatures
    \/ running = "versions" /\ NoFiles /\ ViewInit /\ Init /\ NoFeatures
    \/ running = "reports" /\ NoFiles /\ ViewInit /\ Init /\ NoFeatures
    \/ running = "features" /\ NoFiles /\ ViewInit /\ Init /\ ReportInit

ForestryNext ==
    \/ running = "files" /\ FilesNext /\ UNCHANGED <<viewVars, vars, reportVars, running>>
    \/ running = "versions" /\ ViewNext /\ UNCHANGED <<filesVars, vars, reportVars, running>>
    \/ running = "reports" /\ Next /\ UNCHANGED <<filesVars, viewVars, reportVars, running>>
    \/ running = "features" /\ ReportNext /\ UNCHANGED <<filesVars, viewVars, vars, running>>

ForestrySpec == ForestryInit /\ [][ForestryNext]_<<filesVars, viewVars, vars, reportVars, running>>

\* Users, who are the reviewers too, reports and names are interchangeable.
MCSymmetry ==
    Permutations(Users) \cup Permutations(Reports) \cup Permutations(Names)
=============================================================================
