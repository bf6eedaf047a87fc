----------------------------- MODULE EditedCells -----------------------------
(***************************************************************************)
(* What the web edits promise: a table of cells on top of the published     *)
(* planilla, in which every operation is one atomic step.  A save is a      *)
(* compare-and-set: it takes effect only if the version and the value its   *)
(* author had on the page are still the ones served.  A publication swaps   *)
(* the planilla and drops the edits the new one already carries; the other  *)
(* edits stay, and apply only where the planilla still says what it said    *)
(* when they were made.                                                     *)
(***************************************************************************)
EXTENDS PlanillaCells

CONSTANTS Clients, NoCell

VARIABLES
    active,   \* the published import
    edits,    \* the edits in force or waiting for review
    page      \* what each client's browser shows of the cell it edits

vars == <<active, edits, page>>

Edit == [cell : Cells, web : Values, planilla : Values]

Applied(i, c) ==
    {d \in edits : d.cell = c /\ Status(d, i) = "aplicada"}

(* The value of a cell in version i: the web value where an edit applies. *)
Serves(i, c, v) ==
    IF Applied(i, c) = {} THEN v = Source(i, c)
                          ELSE \E d \in Applied(i, c) : v = d.web

Init ==
    /\ active = NoImport
    /\ edits = {}
    /\ page = [e \in Clients |->
                 [import |-> NoImport, cell |-> NoCell, shown |-> Blank]]

Publish(i) ==
    /\ active' = i
    /\ edits' = {d \in edits : ~Retires(i, d)}
    /\ UNCHANGED page

(* A browser learns the active version, and then reads a row of it, which    *)
(* may no longer be the version that is served.                              *)
LoadVersion(e) ==
    /\ page' = [page EXCEPT ![e] =
                  [import |-> active, cell |-> NoCell, shown |-> Blank]]
    /\ UNCHANGED <<active, edits>>

LoadRow(e, c) ==
    /\ page[e].import # NoImport
    /\ HasRow(page[e].import, c)
    /\ \E v \in Values :
         /\ Serves(page[e].import, c, v)
         /\ page' = [page EXCEPT ![e].cell = c, ![e].shown = ShownValue(v)]
    /\ UNCHANGED <<active, edits>>

(* Setting the planilla's own value removes the edit; any other value        *)
(* replaces it, anchored to the planilla that is served now.                 *)
Save(e, v) ==
    LET c == page[e].cell
        others == {d \in edits : d.cell # c}
    IN  /\ active # NoImport
        /\ c # NoCell
        /\ page[e].import = active
        /\ InSource(active, c)
        /\ \E served \in Values : /\ Serves(active, c, served)
                                  /\ ShownValue(served) = page[e].shown
                                  /\ served # v
        /\ edits' = IF v = Source(active, c)
                    THEN others
                    ELSE others \cup
                         {[cell |-> c, web |-> v, planilla |-> Source(active, c)]}
        /\ UNCHANGED <<active, page>>

Discard(d) ==
    /\ edits' = edits \ {d}
    /\ UNCHANGED <<active, page>>

(* Keeping a contradicted edit anchors it to what the planilla says now. *)
Keep(d) ==
    /\ active # NoImport
    /\ Status(d, active) = "en_conflicto"
    /\ edits' = (edits \ {d}) \cup {[d EXCEPT !.planilla = Source(active, d.cell)]}
    /\ UNCHANGED <<active, page>>

Next ==
    \/ \E i \in Imports : Publish(i)
    \/ \E e \in Clients : LoadVersion(e)
    \/ \E e \in Clients, c \in Cells : LoadRow(e, c)
    \/ \E e \in Clients, v \in Typed : Save(e, v)
    \/ \E d \in edits : Discard(d) \/ Keep(d)

Spec == Init /\ [][Next]_vars

=============================================================================
