-------------------------- MODULE MCWorkersReaders --------------------------
(* Who works on the database beside the requests that write, each on its own: *)
(* standalone workers on their jobs, and the readers of the dashboard.        *)
EXTENDS MCJobQueue, TranselecViews

-----------------------------------------------------------------------------
(* Two versions of a sheet of three rows and two PMFs.                     *)

S(lower, fold, has) == [lower |-> lower, fold |-> fold, has |-> has]

MCSpelling ==
    "Aprobado" :> S("aprobado", "aprobado", {"aprobado", "=Aprobado"})
 @@ "En trámite" :> S("en trámite", "en tramite", {})
 @@ "En Tramite" :> S("en tramite", "en tramite", {})
 @@ "Descartado" :> S("descartado", "descartado", {})
 @@ "En evaluación" :> S("en evaluación", "en evaluacion", {})
 @@ "Rechazado" :> S("rechazado", "rechazado", {"rechaz"})
 @@ "Recurso rechazado" :> S("recurso rechazado", "recurso rechazado", {"rechaz", "recurso", "recurso...rechazado"})
 @@ "-" :> S("-", "-", {"formula"})
 @@ " " :> S("", "", {})
 @@ "123" :> S("123", "123", {})

MCLabels == DOMAIN MCSpelling

Cell(d) == [date |-> d, raw |-> None]
Text(x) == [date |-> None, raw |-> x]

Base(k, pmf) ==
    [n |-> 2, key |-> k, pmf |-> pmf, predio |-> "x", superficie |-> 1,
     estado |-> "En evaluación", estado_resumido |-> "En trámite",
     numero_ingreso |-> "123", numero_ingreso_2 |-> None,
     tipo_propietario |-> "-", empresa |-> "123", predio_ref |-> None,
     aef |-> None, quien_solicita |-> None,
     fecha_ingreso |-> Cell(1), fecha_ingreso_2 |-> Cell(None), fecha_90_dias |-> Cell(9),
     fecha_solicitud |-> Cell(None), fecha_corta |-> Cell(None), fecha_termino |-> Cell(None)]

MCSheets ==
    "first" :> {[Base("a", "P") EXCEPT !.aef = "123", !.fecha_corta = Cell(3), !.fecha_solicitud = Cell(4)],
                [Base("b", "P") EXCEPT !.n = 3, !.estado_resumido = "En Tramite", !.empresa = "-",
                                       !.fecha_ingreso = Cell(None), !.superficie = -1],
                [Base("c", "Q") EXCEPT !.n = 4, !.estado = "Rechazado", !.estado_resumido = "Descartado",
                                       !.aef = "-", !.predio = "y",
                                       !.fecha_ingreso = Cell(3),
                                       !.fecha_solicitud = Text("-")]}
 @@ "second" :> {[Base("a", "P") EXCEPT !.n = 3, !.aef = "123", !.estado = "Recurso rechazado"],
                 [Base("b", "P") EXCEPT !.estado_resumido = "Aprobado", !.aef = "-",
                                        !.fecha_ingreso_2 = Text("-")],
                 [Base("c", "Q") EXCEPT !.n = 5, !.estado = "Aprobado", !.estado_resumido = "Aprobado",
                                        !.numero_ingreso_2 = "123"]}

\* The edit of the estado is incorporated by the second version.
MCEdits ==
    {<<"a", "estado_resumido", "Aprobado">>, <<"a", "estado", "Recurso rechazado">>, <<"a", "numero_ingreso", None>>,
     <<"b", "fecha_ingreso_2", Cell(3)>>, <<"b", "fecha_ingreso_2", Cell(15)>>, <<"a", "fecha_ingreso", Cell(12)>>}

Select(field, values) == [Unfiltered EXCEPT !.select[field] = values]

MCFilters ==
    {Unfiltered, Select("estado_resumido", {"En trámite", "En Tramite"}), Select("empresa", {"123"}),
     [Unfiltered EXCEPT !.q = "1"]}

MCFound == "1" :> [labels |-> {"123"}, days |-> {1}]

MCUploads == <<None, "second", "first">>

-----------------------------------------------------------------------------
VARIABLE part

WorkersInit == part = "workers" /\ Init /\ ViewsInit

ReadersInit == part = "readers" /\ Init /\ ViewsInit

WorkersReadersNext ==
    \/ part = "workers" /\ Next /\ UNCHANGED <<viewVars, part>>
    \/ part = "readers" /\ ViewsNext /\ UNCHANGED <<vars, part>>

WorkersReadersSpec ==
    (WorkersInit \/ ReadersInit) /\ [][WorkersReadersNext]_<<vars, viewVars, part>>
=============================================================================
