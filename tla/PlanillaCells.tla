---------------------------- MODULE PlanillaCells ----------------------------
(***************************************************************************)
(* What the Transelec dashboard shows, cell by cell.  A cell is one         *)
(* editable field of one row key (migration 0012, transelec_keyed_row): the *)
(* same cell exists in every planilla version, with another value, without  *)
(* its row, or in a workbook whose layout has no column for the field.      *)
(*                                                                         *)
(* Values are signatures (field_overrides.py value_signature and            *)
(* cell_signature): normalised texts, dates, or Blank.  RawTexts are the    *)
(* texts a date cell may hold in a planilla; the dashboard shows such a     *)
(* cell as empty, and nobody can type one.                                  *)
(***************************************************************************)

CONSTANTS
    Imports,    \* committed transelec_import rows, one per workbook content
    Cells,      \* (row key, field)
    Values,     \* signatures
    Blank,      \* the signature of an empty cell
    RawTexts,   \* texts found in date cells
    NoRow,      \* the import has no row with that key and ordinal
    NoColumn,   \* the import's layout mapped no column to the field
    Planilla,   \* what each import holds in each cell
    NoImport    \* active_import_id IS NULL

ASSUME PlanillaAssumption ==
    /\ Blank \in Values
    /\ RawTexts \subseteq Values \ {Blank}
    /\ NoRow \notin Values
    /\ NoColumn \notin Values
    /\ NoRow # NoColumn
    /\ Planilla \in [Imports -> [Cells -> Values \cup {NoRow, NoColumn}]]
    /\ NoImport \notin Imports

(* What an editor may submit: parse_value refuses a text in a date field. *)
Typed == Values \ RawTexts

HasRow(i, c) == Planilla[i][c] # NoRow

(* The field is in source_fields of the import. *)
InSource(i, c) == Planilla[i][c] # NoColumn

(* The planilla's own value: NULL where the layout had no column. *)
Source(i, c) ==
    IF Planilla[i][c] \in {NoRow, NoColumn} THEN Blank ELSE Planilla[i][c]

(* shown_value: a raw-text date has a NULL date column. *)
ShownValue(v) == IF v \in RawTexts THEN Blank ELSE v

(* The CASE of platform.transelec_override_state, for an edit d that set    *)
(* cell d.cell to d.web when the planilla said d.planilla.                  *)
Status(d, i) ==
    IF ~HasRow(i, d.cell) THEN "huerfana"
    ELSE IF Source(i, d.cell) = d.planilla THEN "aplicada"
    ELSE IF Source(i, d.cell) = d.web THEN "incorporada"
    ELSE "en_conflicto"

(* retire_incorporated_overrides: the import carries the edit already, in a *)
(* column it really has.                                                    *)
Retires(i, d) == Status(d, i) = "incorporada" /\ InSource(i, d.cell)

=============================================================================
