-------------------------- MODULE MCTranselecFiles --------------------------
(* The two things done with a planilla's file, each on its own: reading an *)
(* uploaded one, and writing the web edits into a copy.                    *)
EXTENDS TranselecWorkbook, TranselecExport

-----------------------------------------------------------------------------
(* A table of eight fields, two rows, a separator and a summary beside it. *)

MCFields == {"pmf", "carpeta_source", "carpeta_normalizada", "tramite", "superficie_corta", "id_predio_unico",
             "fecha_solicitud", "fecha_corta"}

H(word) == Plain(Text(word, "folded"))
D(day) == Plain([kind |-> "date", day |-> day])
N(v) == Plain([kind |-> "number", v |-> v])
W(word) == Plain(Text(word, "plain"))
Empty == Plain(Blank)

MCBooks ==
    {[names |-> <<Text("resumen", "padded")>>, scannable |-> TRUE,
      sheet |-> <<
        <<H("pmf"), H("carpeta"), H("superficie_corta"), H("id_predio_unico"), H("fecha_solicitud"), Empty, H("pmf")>>,
        <<W("p1"),  W("tramo"),   N(3),                  W("7"),               D(12),                Empty, W("p1")>>,
        <<W("p2"),  W("tramo"),   N(4),                  N(7),                 W("-"),               Empty, W("total")>> >>],
     [names |-> <<Text("resumen", "plain"), Text("notas", "plain")>>, scannable |-> TRUE,
      sheet |-> <<
        <<W("titulo"), Empty,                 Empty, Empty,        Empty,        Empty,                Empty>>,
        <<H("pmf"),    H("superficie_corta"), Empty, H("tramite"), H("carpeta"), H("id_predio_unico"), H("fecha_corta")>>,
        <<W("p1"),     N(3),                  Empty, W("t"),       W("norte"),   Empty,                W("13 de marzo")>>,
        <<W("p1"),     W("mucho"),            Empty, W("t"),       W("sur"),     W("u1"),              D(9)>> >>]}

MCHeaders == {Text("pmf", "plain"), Text("carpeta", "plain"), Text("carpeta origen", "folded"), Text("fecha_corta", "plain"), Blank}

MCValues ==
    {Empty, Plain(Text("p1", "padded")), W("-"), W("12-03-2024 y 13 de marzo"), W("nan"), W("#N/A"),
     [value |-> [kind |-> "number", v |-> 7], xml |-> "cached"], [value |-> Blank, xml |-> "uncached"],
     [value |-> Blank, xml |-> "error"], Plain([kind |-> "time"])}

-----------------------------------------------------------------------------
(* Two rows and three columns: text, date, text.  Workbooks with and       *)
(* without notes, a formula, other sheets' notes and the other epoch.      *)

MCColumnKind == <<"text", "date", "text">>

C(column, s, t, v) == [column |-> column, s |-> s, t |-> t, v |-> v]

Sheet(rows, drawing, bytes) ==
    [rows |-> rows, column_styles |-> <<1, 2, 1>>, drawing |-> drawing, bytes |-> bytes]

\* A number and a formula; a row without its date, under a hint that ends early.
Rows1 == <<[cells |-> <<C(1, 1, "n", Number(3)), C(2, 2, "n", Number(9)), C(3, 1, "f", Number(4))>>, spans |-> {1, 2, 3}, style |-> 0],
           [cells |-> <<C(1, 1, "s", Word("x")), C(3, 2, "n", Number(9))>>, spans |-> {1, 3}, style |-> 0]>>
\* The date column has a style without a date format, the second row one of its own.
Rows2 == <<[cells |-> <<C(1, 1, "s", Word("x")), C(2, 1, "s", Word("-"))>>, spans |-> {}, style |-> 0],
           [cells |-> << >>, spans |-> {}, style |-> 2]>>

Book(name, sheet, rels, date1904, more) ==
    LET parts == (<<"sheet", 1>> :> sheet) @@ (<<"styles", 1>> :> [xfs |-> <<[fmt |-> 0, fill |-> 1], [fmt |-> 14, fill |-> 1]>>, fills |-> 1])
                 @@ (<<"workbook", 1>> :> [sheet_name |-> name, date1904 |-> date1904, full_calc |-> FALSE])
                 @@ (<<"content_types", 1>> :> {}) @@ (<<"media", 1>> :> "bytes") @@ rels @@ more IN
    [order |-> FoldSet(LAMBDA x, s : Append(s, x), << >>, DOMAIN parts), parts |-> parts]

NoMore == << >>
Pivot == <<"pivot", 1>> :> [refresh |-> FALSE]
Notes(n) == (<<"comments", n>> :> [authors |-> <<"ana">>, notes |-> (<<1, 1>> :> <<"visto">>)])
            @@ (<<"vml", n>> :> [shapes |-> {[id |-> 1025, at |-> <<1, 1>>]}])
Rels(s) == <<"sheet_rels", 1>> :> s
Rel(id, type, target) == [id |-> id, type |-> type, target |-> target]
BothRels(n) == {Rel(1, "comments", <<"comments", n>>), Rel(3, "vml", <<"vml", n>>)}

MCRegular ==
    {Book("Resumen", Sheet(Rows1, 0, 1), NoMore, FALSE, Pivot),
     Book("Resumen", Sheet(Rows1, 3, 1), Rels(BothRels(1) \cup {Rel(2, "other", <<"media", 1>>)}), TRUE, Notes(1)),
     Book("Resumen", Sheet(Rows2, 0, 1), Rels({Rel(2, "other", <<"media", 1>>)}), TRUE, Notes(1)),
     Book("Resumen", Sheet(Rows2, 3, 1), Rels(BothRels(2)), FALSE, Notes(1) @@ Notes(2) @@ Pivot)}

\* Shapes the patcher refuses.
MCIrregular ==
    {Book("Resumen", Sheet(Rows1, 0, 9), NoMore, FALSE, NoMore),
     Book("Resumen", Sheet(Rows1, 3, 1), Rels({Rel(3, "vml", <<"vml", 1>>)}), FALSE, Notes(1)),
     Book("Resumen", Sheet(Rows1, 3, 1), Rels(BothRels(2)), FALSE, NoMore),
     Book("Resumen", Sheet(<<Rows1[1]>>, 0, 1), NoMore, FALSE, NoMore),
     Book("Resumen", Sheet(<<Rows1[1], [Rows2[2] EXCEPT !.style = 9]>>, 0, 1), NoMore, FALSE, NoMore),
     LET whole == Book("Resumen", Sheet(Rows1, 0, 1), NoMore, FALSE, NoMore) IN
     [order |-> SelectSeq(whole.order, LAMBDA n : n[1] # "sheet"),
      parts |-> [n \in DOMAIN whole.parts \ {<<"sheet", 1>>} |-> whole.parts[n]]]}

MCPackages == MCRegular \cup MCIrregular

MCTextEdits == {Word("x"), Word("7")}
MCDateEdits == {Day(12)}

-----------------------------------------------------------------------------
VARIABLE part

ReadInit ==
    /\ part = "read" /\ WbInit
    /\ package = (CHOOSE p \in Packages : TRUE) /\ download = Refused(package) /\ downloads = 0

WriteInit ==
    /\ part = "write" /\ ExInit
    /\ book = [names |-> << >>, sheet |-> << << >> >>, scannable |-> FALSE] /\ result = validate_and_project(book) /\ edits = 0

FilesNext ==
    \/ part = "read" /\ WbNext /\ UNCHANGED <<exVars, part>>
    \/ part = "write" /\ ExNext /\ UNCHANGED <<wbVars, part>>

FilesSpec == (ReadInit \/ WriteInit) /\ [][FilesNext]_<<wbVars, exVars, part>>
=============================================================================
