--------------------------- MODULE MCTranselecEdits ---------------------------
(***************************************************************************)
(* Instances of TranselecEdits for TLC.  Versions and cells are strings, so *)
(* that the planillas can be written down here.                             *)
(***************************************************************************)
EXTENDS TranselecEdits, TLC

(* Operators are interchangeable. *)
MCSymmetry == Permutations(Clients)

(* One text cell in two versions. *)
MCTwoVersions == "v1" :> ("estado" :> "rechazado") @@ "v2" :> ("estado" :> "aprobado")

(* A date cell: held as text, as a date, and in a layout without the column. *)
MCThreeVersions ==
    "v1" :> ("fecha" :> "pendiente") @@ "v2" :> ("fecha" :> "3-oct")
    @@ "v3" :> ("fecha" :> NoColumn)

(* Two cells, the second of them in a row the second version does not have. *)
MCTwoCells ==
    "v1" :> ("estado" :> "" @@ "tipo" :> "legal")
    @@ "v2" :> ("estado" :> "legal" @@ "tipo" :> NoRow)

=============================================================================
