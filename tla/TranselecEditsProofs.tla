------------------------ MODULE TranselecEditsProofs ------------------------
(***************************************************************************)
(* Proofs about TranselecEdits, for any versions, cells, values and clients *)
(* and any bounds.                                                          *)
(*                                                                         *)
(* What the requests rely on is what their locks keep true: Locks says who  *)
(* can be where at the same time, HoldsVersion what the singleton row fixes *)
(* for its holders, SawCell what the lock of a cell fixes for its holder.   *)
(* Together with OneActive they make an inductive invariant; the safety     *)
(* properties and the refinement of EditedCells follow from it.             *)
(***************************************************************************)
EXTENDS TranselecEdits, TLAPS

(* The exclusive lock excludes everybody, a cell's lock its other editors. *)
Locks ==
    \A e, f \in Clients : e # f =>
        /\ tx[e].pc = "activating" => tx[f].pc = "idle"
        /\ tx[e].pc \in {"locked", "checked"} /\ tx[f].pc \in {"locked", "checked"} =>
             tx[e].cell # tx[f].cell

(* A save in progress is for the page it was sent from. *)
SaveFits(e) ==
    /\ active # NoImport
    /\ tx[e].value \in Typed
    /\ page[e].import = active
    /\ page[e].cell = tx[e].cell
    /\ InSource(active, tx[e].cell)
    /\ HasRow(active, tx[e].cell)

(* A discard or a keep in progress is of a row of the table. *)
RowFits(e) ==
    /\ tx[e].id \in 1 .. lastId
    /\ overrides[tx[e].id].cell = tx[e].cell
    /\ tx[e].op = "keep" => active # NoImport

(* Who holds the singleton row works on the version it names. *)
HoldsVersion(e) ==
    /\ tx[e].pc \in {"shared", "locked", "checked"} =>
         /\ tx[e].op \in {"save", "discard", "keep"}
         /\ tx[e].cell \in Cells
         /\ tx[e].import = active
         /\ tx[e].op = "save" => SaveFits(e)
         /\ tx[e].op # "save" => RowFits(e)
    /\ tx[e].pc = "activating" =>
         /\ tx[e].op \in {"publish", "restore"}
         /\ tx[e].import \in Imports
         /\ tx[e].previous = active

(* Who has checked under the lock of its cell has seen what is there. *)
SawCell(e) ==
    tx[e].pc = "checked" =>
        /\ tx[e].op \in {"save", "keep"}
        /\ tx[e].op = "save" =>
             /\ ActiveOn(tx[e].cell) = IF tx[e].id = NoId THEN {} ELSE {tx[e].id}
             /\ tx[e].seen = Effective(active, tx[e].cell)
             /\ ShownValue(tx[e].seen) = page[e].shown
        /\ tx[e].op = "keep" =>
             /\ ActiveOn(tx[e].cell) = {tx[e].id}
             /\ tx[e].value = overrides[tx[e].id].web
             /\ tx[e].seen = Source(active, tx[e].cell)
             /\ Status(overrides[tx[e].id], active) = "en_conflicto"

Standing(e) == HoldsVersion(e) /\ SawCell(e)

(* A cell has one active edit at most. *)
OneActive ==
    \A n, k \in 1 .. lastId :
        InForce(n) /\ InForce(k) /\ overrides[n].cell = overrides[k].cell => n = k

(* The rows of the edit table, as a whole. *)
RowsRight == OneActive /\ NothingLeftToRetire /\ AnchoredToBase

EditsInv ==
    /\ TypeOK
    /\ Locks
    /\ \A e \in Clients : Standing(e)
    /\ RowsRight
    /\ TrailChains

----------------------------------------------------------------------------
(* What the table shows *)

LEMMA IdleRequest == Idle \in Request
PROOF
  BY PlanillaAssumption DEF Idle, Request, NoId

LEMMA SourceIsValue ==
    ASSUME NEW i \in Imports, NEW c \in Cells
    PROVE  Source(i, c) \in Values
PROOF
  BY PlanillaAssumption DEF Source

(* What an edit shows is a value, and a row in force if it is not the        *)
(* planilla's.                                                               *)
LEMMA EffectiveIsValue ==
    ASSUME TypeOK, NEW i \in Imports, NEW c \in Cells
    PROVE  Effective(i, c) \in Values
PROOF
<1> DEFINE applied == {n \in ActiveOn(c) : Status(overrides[n], i) = "aplicada"}
<1>1. CASE applied = {}
  BY <1>1, SourceIsValue DEF Effective
<1>2. CASE applied # {}
  <2>1. (CHOOSE n \in applied : TRUE) \in applied
    BY <1>2
  <2>2. (CHOOSE n \in applied : TRUE) \in 1 .. lastId
    BY <2>1 DEF ActiveOn
  <2>3. overrides[CHOOSE n \in applied : TRUE] \in Override
    BY <2>2 DEF TypeOK
  <2>4. Effective(i, c) = overrides[CHOOSE n \in applied : TRUE].web
    BY <1>2 DEF Effective
  <2> QED
    BY <2>3, <2>4 DEF Override
<1> QED
  BY <1>1, <1>2

(* Reads of an unchanged table. *)
LEMMA SameTable ==
    ASSUME overrides' = overrides, lastId' = lastId, NEW i, NEW c
    PROVE  ActiveOn(c)' = ActiveOn(c) /\ Effective(i, c)' = Effective(i, c)
PROOF
<1>1. ActiveOn(c)' = ActiveOn(c)
  BY DEF ActiveOn, InForce
<1> QED
  BY <1>1 DEF Effective

(* The table after a write to one cell: rows of the cell may have ended, one *)
(* may be new, and no other row is touched.                                  *)
CellWritten(c) ==
    /\ lastId' \in Nat /\ lastId' >= lastId
    /\ overrides' \in [1 .. lastId' -> Override]
    /\ \A n \in 1 .. lastId :
         /\ overrides'[n].cell = overrides[n].cell
         /\ overrides'[n].web = overrides[n].web
         /\ overrides'[n].planilla = overrides[n].planilla
         /\ overrides'[n].base = overrides[n].base
         /\ overrides'[n] # overrides[n] =>
              overrides[n].cell = c /\ InForce(n) /\ overrides'[n].state # "active"
    /\ \A n \in 1 .. lastId' : n \notin 1 .. lastId => overrides'[n].cell = c

(* The rows of the table keep all but their state. *)
LEMMA RowsKept ==
    ASSUME TypeOK, NEW c, CellWritten(c), NEW n \in 1 .. lastId
    PROVE  /\ n \in 1 .. lastId'
           /\ overrides'[n].cell = overrides[n].cell
           /\ overrides'[n].web = overrides[n].web
           /\ overrides'[n].planilla = overrides[n].planilla
           /\ overrides'[n].base = overrides[n].base
           /\ overrides'[n].state = "active" => InForce(n)
PROOF
  BY DEF TypeOK, CellWritten, InForce

(* Other cells read as before. *)
LEMMA OtherCells ==
    ASSUME TypeOK, NEW c, CellWritten(c), NEW d, d # c, NEW i
    PROVE  /\ ActiveOn(d)' = ActiveOn(d)
           /\ \A n \in ActiveOn(d) : overrides'[n] = overrides[n]
           /\ Effective(i, d)' = Effective(i, d)
PROOF
<1>1. \A n \in ActiveOn(d) : overrides'[n] = overrides[n]
  BY DEF ActiveOn, CellWritten
<1>2. ActiveOn(d) \subseteq ActiveOn(d)'
  BY <1>1, RowsKept DEF ActiveOn, InForce
<1>3. ASSUME NEW n \in ActiveOn(d)' PROVE n \in ActiveOn(d)
  <2>1. n \in 1 .. lastId' /\ overrides'[n].cell = d /\ overrides'[n].state = "active"
    BY <1>3 DEF ActiveOn, InForce
  <2>2. n \in 1 .. lastId
    BY <2>1 DEF CellWritten
  <2> QED
    BY <2>1, <2>2, RowsKept DEF ActiveOn
<1>4. ActiveOn(d)' = ActiveOn(d)
  BY <1>2, <1>3
<1> DEFINE was == {n \in ActiveOn(d) : Status(overrides[n], i) = "aplicada"}
           is == {n \in ActiveOn(d)' : Status(overrides'[n], i) = "aplicada"}
<1>5. is = was
  BY <1>1, <1>4
<1>6. (CHOOSE n \in is : TRUE) = (CHOOSE n \in was : TRUE)
  BY <1>5
<1>7. was # {} => (CHOOSE n \in was : TRUE) \in ActiveOn(d)
  OBVIOUS
<1>8. Effective(i, d) = IF was = {} THEN Source(i, d) ELSE overrides[CHOOSE n \in was : TRUE].web
  BY DEF Effective
<1>9. Effective(i, d)' = IF is = {} THEN Source(i, d) ELSE overrides'[CHOOSE n \in is : TRUE].web
  BY DEF Effective, Status, Source, HasRow
<1> HIDE DEF was, is
<1>10. CASE was = {}
  BY <1>1, <1>4, <1>5, <1>8, <1>9, <1>10
<1>11. CASE was # {}
  <2>1. overrides'[CHOOSE n \in is : TRUE] = overrides[CHOOSE n \in was : TRUE]
    BY <1>1, <1>6, <1>7, <1>11
  <2> QED
    BY <1>1, <1>4, <1>5, <1>8, <1>9, <1>11, <2>1
<1> QED
  BY <1>10, <1>11

----------------------------------------------------------------------------
(* What requests keep of each other *)

(* A request is as it was while the table is, and while others write to      *)
(* other cells than the one it has checked.                                  *)
LEMMA StandingBeside ==
    ASSUME TypeOK, NEW f \in Clients, Standing(f),
           tx'[f] = tx[f], page'[f] = page[f], active' = active,
           \/ UNCHANGED <<overrides, lastId>>
           \/ \E c \in Cells : CellWritten(c) /\ (tx[f].pc = "checked" => tx[f].cell # c)
    PROVE  Standing(f)'
PROOF
<1>1. /\ lastId \in Nat /\ lastId' \in Nat /\ lastId' >= lastId
      /\ \A n \in 1 .. lastId : overrides'[n].cell = overrides[n].cell
  BY DEF TypeOK, CellWritten
<1>2. RowFits(f) => RowFits(f)'
  BY <1>1 DEF RowFits
<1>3. SaveFits(f) => SaveFits(f)'
  BY DEF SaveFits
<1>4. HoldsVersion(f)'
  BY <1>2, <1>3 DEF Standing, HoldsVersion
<1>5. CASE tx[f].pc = "checked"
  <2>1. ASSUME NEW d, d = tx[f].cell, NEW i
        PROVE  /\ ActiveOn(d)' = ActiveOn(d)
               /\ \A n \in ActiveOn(d) : overrides'[n] = overrides[n]
               /\ Effective(i, d)' = Effective(i, d)
    <3>1. CASE UNCHANGED <<overrides, lastId>>
      BY <3>1, SameTable
    <3>2. ASSUME NEW c \in Cells, CellWritten(c), d # c
          PROVE  /\ ActiveOn(d)' = ActiveOn(d)
                 /\ \A n \in ActiveOn(d) : overrides'[n] = overrides[n]
                 /\ Effective(i, d)' = Effective(i, d)
      BY <3>2, OtherCells
    <3> QED
      BY <1>5, <2>1, <3>1, <3>2
  <2>2. ASSUME NEW d, d = tx[f].cell, NEW i, i = active
        PROVE  SawCell(f)'
    <3>1. tx'[f].cell = d /\ active' = i
      BY <2>2
    <3>2. /\ ActiveOn(tx[f].cell)' = ActiveOn(d)
          /\ Effective(active, tx[f].cell)' = Effective(i, d)
      <4>1. ActiveOn(tx[f].cell)' = ActiveOn(d)'
        BY <3>1 DEF ActiveOn
      <4>2. Effective(active, tx[f].cell)' = Effective(i, d)'
        BY <3>1, <4>1 DEF Effective
      <4> QED
        BY <2>1, <2>2, <4>1, <4>2
    <3>3. \A n \in ActiveOn(d) : overrides'[n] = overrides[n]
      BY <2>1, <2>2
    <3> QED
      BY <1>5, <2>2, <3>2, <3>3 DEF Standing, SawCell
  <2> QED
    BY <1>4, <2>2 DEF Standing
<1>6. CASE tx[f].pc # "checked"
  BY <1>4, <1>6 DEF Standing, SawCell
<1> QED
  BY <1>4, <1>5, <1>6 DEF Standing

(* A request that has ended leaves the locks to others. *)
LEMMA EndedStanding ==
    ASSUME TypeOK, NEW e \in Clients, End(e)
    PROVE  /\ tx' \in [Clients -> Request]
           /\ tx'[e].pc = "idle"
           /\ \A f \in Clients : f # e => tx'[f] = tx[f]
           /\ Standing(e)'
           /\ Locks => Locks'
PROOF
<1>1. /\ tx' \in [Clients -> Request] /\ tx'[e] = Idle
      /\ \A f \in Clients : f # e => tx'[f] = tx[f]
  BY IdleRequest DEF TypeOK, End
<1>2. tx'[e].pc = "idle"
  BY <1>1 DEF Idle
<1> QED
  BY <1>1, <1>2 DEF Standing, HoldsVersion, SawCell, Locks

----------------------------------------------------------------------------
(* Writes to the edit table *)

Reasons == {"superseded", "discarded", "kept"}

(* Ending an edit touches its row only, which is not in force afterwards. *)
LEMMA EndWrites ==
    ASSUME TypeOK, NEW n \in 1 .. lastId, NEW reason \in Reasons,
           overrides' = Ended(n, reason), lastId' = lastId
    PROVE  /\ CellWritten(overrides[n].cell)
           /\ \A k \in 1 .. lastId : k # n => overrides'[k] = overrides[k]
           /\ overrides'[n].state # "active"
PROOF
<1>1. overrides \in [1 .. lastId -> Override] /\ lastId \in Nat
  BY DEF TypeOK
<1>2. /\ overrides' = [overrides EXCEPT ![n] =
             [overrides[n] EXCEPT !.state = IF overrides[n].state = "active" THEN reason
                                            ELSE overrides[n].state]]
  BY DEF Ended
<1>3. overrides[n] \in Override
  BY <1>1
<1>4. /\ [overrides[n] EXCEPT !.state = IF overrides[n].state = "active" THEN reason
                                        ELSE overrides[n].state] \in Override
      /\ overrides'[n].cell = overrides[n].cell
      /\ overrides'[n].web = overrides[n].web
      /\ overrides'[n].planilla = overrides[n].planilla
      /\ overrides'[n].base = overrides[n].base
      /\ overrides'[n].state # "active"
      /\ overrides[n].state # "active" => overrides'[n] = overrides[n]
  BY <1>1, <1>2, <1>3 DEF Override, Reasons
<1>5. \A k \in 1 .. lastId : k # n => overrides'[k] = overrides[k]
  BY <1>1, <1>2
<1>6. overrides' \in [1 .. lastId' -> Override]
  BY <1>1, <1>2, <1>4
<1> QED
  BY <1>1, <1>4, <1>5, <1>6 DEF CellWritten, InForce

(* The row a save or a keep inserts. *)
NewRow(e, planilla) ==
    [cell |-> tx[e].cell, web |-> tx[e].value, planilla |-> planilla,
     base |-> tx[e].import, state |-> "active"]

(* Inserting the successor of the active edit of a cell: the table grows by  *)
(* the new row, the only one of its cell that is in force.                   *)
LEMMA ReplaceWrites ==
    ASSUME TypeOK, NEW e \in Clients, Standing(e), tx[e].pc = "checked",
           NEW reason \in Reasons, NEW planilla \in Values, Replace(e, reason, planilla)
    PROVE  /\ CellWritten(tx[e].cell)
           /\ lastId' = lastId + 1
           /\ overrides'[lastId + 1] = NewRow(e, planilla)
           /\ \A k \in 1 .. lastId :
                /\ k # tx[e].id => overrides'[k] = overrides[k]
                /\ overrides'[k].state = "active" => overrides[k].cell # tx[e].cell
PROOF
<1>1. /\ overrides \in [1 .. lastId -> Override] /\ lastId \in Nat
      /\ tx[e] \in Request /\ tx[e].import = active /\ tx[e].cell \in Cells
      /\ active \in Imports
  BY DEF TypeOK, Standing, HoldsVersion, SaveFits, RowFits, SawCell
<1>2. NewRow(e, planilla) \in Override
  BY <1>1 DEF NewRow, Override, Request
<1>3. \/ tx[e].id = NoId /\ ActiveOn(tx[e].cell) = {}
      \/ tx[e].id \in 1 .. lastId /\ ActiveOn(tx[e].cell) = {tx[e].id}
  BY DEF Standing, SawCell, ActiveOn
<1>4. ActiveOn(tx[e].cell) \ {tx[e].id} = {}
  BY <1>3
<1> DEFINE rows == IF tx[e].id = NoId THEN overrides ELSE Ended(tx[e].id, reason)
<1>5. /\ overrides' = [n \in 1 .. lastId + 1 |->
                          IF n \in 1 .. lastId THEN rows[n] ELSE NewRow(e, planilla)]
      /\ lastId' = lastId + 1
  BY <1>4 DEF Replace, Inserted, NewRow
<1>6. /\ \A k \in 1 .. lastId :
           /\ rows[k] \in Override
           /\ rows[k].cell = overrides[k].cell
           /\ rows[k].web = overrides[k].web
           /\ rows[k].planilla = overrides[k].planilla
           /\ rows[k].base = overrides[k].base
           /\ k # tx[e].id => rows[k] = overrides[k]
           /\ rows[k] # overrides[k] => rows[k].state # "active"
           /\ rows[k].state = "active" => overrides[k].cell # tx[e].cell
  <2>1. CASE tx[e].id = NoId
    BY <1>1, <1>3, <2>1 DEF ActiveOn, InForce, NoId
  <2>2. CASE tx[e].id \in 1 .. lastId /\ ActiveOn(tx[e].cell) = {tx[e].id}
    <3> DEFINE id == tx[e].id
               state == IF overrides[id].state = "active" THEN reason ELSE overrides[id].state
               row == [overrides[id] EXCEPT !.state = state]
    <3>1. id # NoId
      BY <1>1, <2>2 DEF NoId
    <3>2. rows = [overrides EXCEPT ![id] = row]
      BY <3>1 DEF Ended
    <3>3. overrides[id] \in Override /\ overrides[id].state = "active"
      BY <1>1, <2>2 DEF ActiveOn, InForce
    <3>4. /\ row \in Override /\ row.state # "active"
          /\ row.cell = overrides[id].cell /\ row.web = overrides[id].web
          /\ row.planilla = overrides[id].planilla /\ row.base = overrides[id].base
      BY <3>3 DEF Override, Reasons
    <3>5. rows[id] = row /\ \A k \in 1 .. lastId : k # id => rows[k] = overrides[k]
      BY <1>1, <2>2, <3>2
    <3>6. \A k \in 1 .. lastId : k # id /\ overrides[k].cell = tx[e].cell =>
             overrides[k].state # "active"
      BY <2>2 DEF ActiveOn, InForce
    <3> HIDE DEF row, rows
    <3> QED
      BY <1>1, <2>2, <3>4, <3>5, <3>6
  <2> QED
    BY <1>3, <2>1, <2>2
<1>7. \A k \in 1 .. lastId : rows[k] # overrides[k] =>
        overrides[k].cell = tx[e].cell /\ InForce(k)
  BY <1>3, <1>6 DEF ActiveOn, NoId
<1> HIDE DEF rows
<1>8. \A k \in 1 .. lastId : overrides'[k] = rows[k]
  BY <1>1, <1>5
<1>9. overrides'[lastId + 1] = NewRow(e, planilla)
  BY <1>1, <1>5
<1>10. overrides' \in [1 .. lastId' -> Override]
  BY <1>1, <1>2, <1>5, <1>6
<1>11. CellWritten(tx[e].cell)
  <2>1. \A n \in 1 .. lastId' : n \notin 1 .. lastId => n = lastId + 1
    BY <1>1, <1>5
  <2>2. NewRow(e, planilla).cell = tx[e].cell
    BY DEF NewRow
  <2> QED
    BY <1>1, <1>5, <1>6, <1>7, <1>8, <1>9, <1>10, <2>1, <2>2 DEF CellWritten
<1> QED
  BY <1>5, <1>6, <1>8, <1>9, <1>11

(* A row anchored to the version that is served is not one to retire. *)
LEMMA AnchoredStays ==
    ASSUME NEW d, NEW i, Status(d, i) = "aplicada"
    PROVE  ~Retires(i, d)
PROOF
  BY DEF Retires

(* What is asked of a new row. *)
Anchored(row) ==
    /\ row.base = active
    /\ row.planilla = Source(row.base, row.cell)
    /\ row.web # row.planilla
    /\ Status(row, row.base) = "aplicada"

(* Status and Retires look at cell, web and planilla. *)
LEMMA SameStatus ==
    ASSUME NEW d, NEW b, d.cell = b.cell, d.web = b.web, d.planilla = b.planilla, NEW i
    PROVE  Status(d, i) = Status(b, i) /\ (Retires(i, d) <=> Retires(i, b))
PROOF
  BY DEF Status, Retires

(* The table stays right if the new rows are anchored, and the cell that was *)
(* written has one edit in force at most.                                    *)
LEMMA RowsAfterWrite ==
    ASSUME TypeOK, RowsRight, NEW c, CellWritten(c), active' = active,
           \A n \in 1 .. lastId' : n \notin 1 .. lastId => Anchored(overrides'[n]),
           \A n, k \in 1 .. lastId' :
              /\ overrides'[n].state = "active" /\ overrides'[k].state = "active"
              /\ overrides'[n].cell = c /\ overrides'[k].cell = c
              => n = k
    PROVE  RowsRight'
PROOF
<1>1. OneActive'
  <2> SUFFICES ASSUME NEW n \in 1 .. lastId', NEW k \in 1 .. lastId',
                      overrides'[n].state = "active", overrides'[k].state = "active",
                      overrides'[n].cell = overrides'[k].cell
               PROVE  n = k
    BY DEF OneActive, InForce
  <2>1. CASE overrides'[n].cell = c
    BY <2>1
  <2>2. CASE overrides'[n].cell # c
    <3>1. n \in 1 .. lastId /\ k \in 1 .. lastId
      BY <2>2 DEF CellWritten
    <3>2. InForce(n) /\ InForce(k) /\ overrides[n].cell = overrides[k].cell
      BY <3>1, RowsKept
    <3> QED
      BY <3>1, <3>2 DEF RowsRight, OneActive
  <2> QED
    BY <2>1, <2>2
<1>2. NothingLeftToRetire'
  <2> SUFFICES ASSUME active # NoImport, NEW n \in 1 .. lastId',
                      overrides'[n].state = "active"
               PROVE  ~Retires(active, overrides'[n])
    BY DEF NothingLeftToRetire, InForce, Retires, Status, Source, HasRow, InSource
  <2>1. CASE n \in 1 .. lastId
    <3>1. InForce(n)
      BY <2>1, RowsKept
    <3>2. ~Retires(active, overrides[n])
      BY <2>1, <3>1 DEF RowsRight, NothingLeftToRetire
    <3> QED
      BY <2>1, <3>2, RowsKept, SameStatus
  <2>2. CASE n \notin 1 .. lastId
    <3>1. Status(overrides'[n], active) = "aplicada"
      BY <2>2 DEF Anchored
    <3> QED
      BY <3>1, AnchoredStays
  <2> QED
    BY <2>1, <2>2
<1>3. AnchoredToBase'
  <2> SUFFICES ASSUME NEW n \in 1 .. lastId'
               PROVE  /\ overrides'[n].planilla = Source(overrides'[n].base, overrides'[n].cell)
                      /\ overrides'[n].web # overrides'[n].planilla
                      /\ Status(overrides'[n], overrides'[n].base) = "aplicada"
    BY DEF AnchoredToBase, Status, Source, HasRow
  <2>1. CASE n \in 1 .. lastId
    <3>1. /\ overrides[n].planilla = Source(overrides[n].base, overrides[n].cell)
          /\ overrides[n].web # overrides[n].planilla
          /\ Status(overrides[n], overrides[n].base) = "aplicada"
      BY <2>1 DEF RowsRight, AnchoredToBase
    <3> QED
      BY <2>1, <3>1, RowsKept, SameStatus
  <2>2. CASE n \notin 1 .. lastId
    BY <2>2 DEF Anchored
  <2> QED
    BY <2>1, <2>2
<1> QED
  BY <1>1, <1>2, <1>3 DEF RowsRight

(* An edit that ends leaves the table right. *)
LEMMA RowsAfterEnd ==
    ASSUME TypeOK, RowsRight, active' = active, NEW n \in 1 .. lastId,
           NEW reason \in Reasons, overrides' = Ended(n, reason), lastId' = lastId
    PROVE  RowsRight'
PROOF
<1>1. /\ CellWritten(overrides[n].cell)
      /\ \A k \in 1 .. lastId : k # n => overrides'[k] = overrides[k]
      /\ overrides'[n].state # "active"
  BY EndWrites
<1>2. \A m, k \in 1 .. lastId :
        /\ overrides'[m].state = "active" /\ overrides'[k].state = "active"
        /\ overrides'[m].cell = overrides[n].cell /\ overrides'[k].cell = overrides[n].cell
        => m = k
  BY <1>1 DEF RowsRight, OneActive, InForce
<1> QED
  BY <1>1, <1>2, RowsAfterWrite

(* So does an edit that is replaced by one that is anchored. *)
LEMMA RowsAfterReplace ==
    ASSUME TypeOK, RowsRight, active' = active, NEW e \in Clients, Standing(e),
           tx[e].pc = "checked", NEW reason \in Reasons, NEW planilla \in Values,
           Replace(e, reason, planilla), Anchored(NewRow(e, planilla))
    PROVE  RowsRight'
PROOF
<1>1. /\ CellWritten(tx[e].cell)
      /\ lastId' = lastId + 1
      /\ overrides'[lastId + 1] = NewRow(e, planilla)
      /\ \A k \in 1 .. lastId :
           /\ k # tx[e].id => overrides'[k] = overrides[k]
           /\ overrides'[k].state = "active" => overrides[k].cell # tx[e].cell
  BY ReplaceWrites
<1>2. \A k \in 1 .. lastId' : k \notin 1 .. lastId => k = lastId + 1
  BY <1>1 DEF TypeOK
<1>3. \A k \in 1 .. lastId : overrides'[k].cell = overrides[k].cell
  BY <1>1, RowsKept
<1>4. \A m, k \in 1 .. lastId' :
        /\ overrides'[m].state = "active" /\ overrides'[k].state = "active"
        /\ overrides'[m].cell = tx[e].cell /\ overrides'[k].cell = tx[e].cell
        => m = k
  BY <1>1, <1>2, <1>3
<1>5. \A k \in 1 .. lastId' : k \notin 1 .. lastId => Anchored(overrides'[k])
  BY <1>1, <1>2
<1> QED
  BY <1>1, <1>4, <1>5, RowsAfterWrite

----------------------------------------------------------------------------
(* The invariant *)

LEMMA EditsInit == Init => EditsInv
PROOF
<1> SUFFICES ASSUME Init PROVE EditsInv
  OBVIOUS
<1>1. TypeOK
  BY IdleRequest, PlanillaAssumption DEF Init, TypeOK
<1>2. \A e \in Clients : tx[e].pc = "idle"
  BY DEF Init, Idle
<1>3. RowsRight /\ TrailChains
  BY DEF Init, RowsRight, OneActive, NothingLeftToRetire, AnchoredToBase, TrailChains
<1> QED
  BY <1>1, <1>2, <1>3 DEF EditsInv, Locks, Standing, HoldsVersion, SawCell

(* A step of one client that leaves the tables alone. *)
Alone(e) ==
    /\ UNCHANGED <<active, events, overrides, lastId>>
    /\ \A f \in Clients : f # e => tx'[f] = tx[f] /\ page'[f] = page[f]

LEMMA QuietStep ==
    ASSUME EditsInv, NEW e \in Clients, Alone(e), Standing(e)', Locks',
           created' \subseteq Imports, tx' \in [Clients -> Request],
           page' \in [Clients -> [import : Imports \cup {NoImport},
                                  cell : Cells \cup {NoCell}, shown : Values]]
    PROVE  EditsInv'
PROOF
<1>1. TypeOK'
  BY DEF EditsInv, TypeOK, Alone
<1>2. ASSUME NEW f \in Clients, f # e PROVE Standing(f)'
  BY <1>2, StandingBeside DEF EditsInv, Alone
<1>3. RowsRight'
  BY DEF EditsInv, RowsRight, OneActive, NothingLeftToRetire, AnchoredToBase, Alone, InForce
<1>4. TrailChains'
  BY DEF EditsInv, TrailChains, Alone
<1> QED
  BY <1>1, <1>2, <1>3, <1>4 DEF EditsInv

(* A request that ends, by commit or rollback, without a write. *)
LEMMA EndStep ==
    ASSUME EditsInv, NEW e \in Clients, End(e),
           UNCHANGED <<created, active, events, overrides, lastId, page>>
    PROVE  EditsInv'
PROOF
<1>1. TypeOK /\ Locks
  BY DEF EditsInv
<1>2. /\ tx' \in [Clients -> Request]
      /\ \A f \in Clients : f # e => tx'[f] = tx[f]
      /\ Standing(e)' /\ Locks'
  BY <1>1, EndedStanding
<1> QED
  BY <1>1, <1>2, QuietStep DEF Alone, TypeOK

(* A request that ends with a write to the cell it has locked. *)
LEMMA WriteStep ==
    ASSUME EditsInv, NEW e \in Clients, End(e), tx[e].pc \in {"locked", "checked"},
           UNCHANGED <<created, active, events, page>>,
           CellWritten(tx[e].cell), RowsRight'
    PROVE  EditsInv'
PROOF
<1>1. TypeOK /\ Locks /\ tx[e].cell \in Cells
  BY DEF EditsInv, Standing, HoldsVersion
<1>2. /\ tx' \in [Clients -> Request]
      /\ \A f \in Clients : f # e => tx'[f] = tx[f]
      /\ Standing(e)' /\ Locks'
  BY <1>1, EndedStanding
<1>3. TypeOK'
  BY <1>1, <1>2 DEF TypeOK, CellWritten
<1>4. ASSUME NEW f \in Clients, f # e PROVE Standing(f)'
  <2>1. tx[f].pc = "checked" => tx[f].cell # tx[e].cell
    BY <1>1, <1>4 DEF Locks
  <2>2. Standing(f) /\ tx'[f] = tx[f]
    BY <1>2, <1>4 DEF EditsInv
  <2> QED
    BY <1>1, <2>1, <2>2, StandingBeside
<1>5. TrailChains'
  BY DEF EditsInv, TrailChains
<1> QED
  BY <1>2, <1>3, <1>4, <1>5 DEF EditsInv

(* Reading requests. *)
LEMMA ValidateStep ==
    ASSUME EditsInv, NEW i \in Imports, Validate(i)
    PROVE  EditsInv'
PROOF
<1>1. CASE Clients = {}
  BY <1>1 DEF EditsInv, Validate, TypeOK, Locks, RowsRight, OneActive, NothingLeftToRetire,
              AnchoredToBase, InForce, TrailChains
<1>2. ASSUME NEW e \in Clients PROVE EditsInv'
  <2>1. TypeOK /\ Locks /\ Standing(e)
    BY DEF EditsInv
  <2>2. Standing(e)'
    BY <2>1, StandingBeside DEF Validate
  <2>3. Locks'
    BY <2>1 DEF Validate, Locks
  <2> QED
    BY <2>1, <2>2, <2>3, QuietStep DEF Validate, Alone, TypeOK
<1> QED
  BY <1>1, <1>2

LEMMA LoadStep ==
    ASSUME EditsInv, NEW e \in Clients,
           LoadVersion(e) \/ \E c \in Cells : LoadRow(e, c)
    PROVE  EditsInv'
PROOF
<1>1. TypeOK /\ Locks
  BY DEF EditsInv
<1>2. /\ tx[e].pc = "idle"
      /\ UNCHANGED <<created, active, events, overrides, lastId, tx>>
  BY DEF LoadVersion, LoadRow
<1> DEFINE Pages == [import : Imports \cup {NoImport}, cell : Cells \cup {NoCell}, shown : Values]
<1>3. page' \in [Clients -> Pages] /\ \A f \in Clients : f # e => page'[f] = page[f]
  <2>1. CASE LoadVersion(e)
    BY <1>1, <2>1, PlanillaAssumption DEF LoadVersion, TypeOK
  <2>2. ASSUME NEW c \in Cells, LoadRow(e, c)
        PROVE  page' \in [Clients -> Pages] /\ \A f \in Clients : f # e => page'[f] = page[f]
    <3>1. page \in [Clients -> Pages] /\ page[e] \in Pages /\ page[e].import \in Imports
      BY <1>1, <2>2 DEF LoadRow, TypeOK
    <3> DEFINE v == ShownValue(Effective(page[e].import, c))
    <3>2. v \in Values
      BY <1>1, <3>1, EffectiveIsValue, PlanillaAssumption DEF ShownValue
    <3>3. page' = [page EXCEPT ![e] = [[page[e] EXCEPT !.cell = c] EXCEPT !.shown = v]]
      BY <2>2, <3>1 DEF LoadRow
    <3> HIDE DEF v
    <3>4. [[page[e] EXCEPT !.cell = c] EXCEPT !.shown = v] \in Pages
      BY <3>1, <3>2
    <3> QED
      BY <3>1, <3>3, <3>4
  <2> QED
    BY <2>1, <2>2
<1>4. Standing(e)' /\ Locks'
  BY <1>1, <1>2 DEF Standing, HoldsVersion, SawCell, Locks
<1> QED
  BY <1>1, <1>2, <1>3, <1>4, QuietStep DEF Alone, TypeOK

(* A request that takes its next step, within its locks. *)
LEMMA MoveStep ==
    ASSUME EditsInv, NEW e \in Clients, NEW r \in Request, tx' = [tx EXCEPT ![e] = r],
           UNCHANGED <<created, active, events, overrides, lastId, page>>,
           Standing(e)',
           r.pc # "idle" => \A f \in Clients : f # e => tx[f].pc # "activating",
           r.pc = "activating" => \A f \in Clients : f # e => tx[f].pc = "idle",
           r.pc \in {"locked", "checked"} =>
              \A f \in Clients : f # e /\ tx[f].pc \in {"locked", "checked"} => tx[f].cell # r.cell
    PROVE  EditsInv'
PROOF
<1>1. TypeOK /\ Locks
  BY DEF EditsInv
<1>2. /\ tx' \in [Clients -> Request] /\ tx'[e] = r
      /\ \A f \in Clients : f # e => tx'[f] = tx[f]
  BY <1>1 DEF TypeOK
<1>3. \A f \in Clients : tx[f].pc \in {"idle", "shared", "locked", "checked", "activating"}
  BY <1>1 DEF TypeOK, Request
<1>4. Locks'
  BY <1>1, <1>2, <1>3 DEF Locks
<1> QED
  BY <1>1, <1>2, <1>4, QuietStep DEF Alone, TypeOK

LEMMA BeginSaveStep ==
    ASSUME EditsInv, NEW e \in Clients, NEW v \in Typed, BeginSave(e, v)
    PROVE  EditsInv'
PROOF
<1> DEFINE r == [Idle EXCEPT !.op = "save", !.pc = "shared", !.cell = page[e].cell,
                              !.value = v, !.import = active]
<1>1. tx' = [tx EXCEPT ![e] = r]
  BY DEF BeginSave
<1>2. /\ TypeOK
      /\ v \in Values /\ page[e].cell \in Cells /\ active \in Imports
  BY DEF EditsInv, TypeOK, BeginSave, Typed
<1>3. r \in Request
  BY <1>2, IdleRequest DEF Request
<1>4. tx'[e] = r
  BY <1>1, <1>2 DEF TypeOK
<1>5. r.pc = "shared" /\ r.op = "save" /\ r.cell = page[e].cell /\ r.value = v /\ r.import = active
  BY <1>2, <1>3, IdleRequest DEF Request
<1>6. UNCHANGED <<created, active, events, overrides, lastId, page>>
  BY DEF BeginSave
<1> HIDE DEF r
<1>7. SaveFits(e)'
  BY <1>4, <1>5, <1>6 DEF SaveFits, BeginSave
<1>8. Standing(e)'
  BY <1>2, <1>4, <1>5, <1>6, <1>7 DEF Standing, HoldsVersion, SawCell
<1> QED
  BY <1>1, <1>3, <1>5, <1>6, <1>8, MoveStep DEF BeginSave, ShareFree

LEMMA BeginByIdStep ==
    ASSUME EditsInv, NEW e \in Clients, NEW op \in {"discard", "keep"}, NEW n \in 1 .. lastId,
           BeginById(e, op, n)
    PROVE  EditsInv'
PROOF
<1> DEFINE r == [Idle EXCEPT !.op = op, !.pc = "shared", !.cell = overrides[n].cell,
                              !.id = n, !.import = active]
<1>1. tx' = [tx EXCEPT ![e] = r]
  BY DEF BeginById
<1>2. /\ TypeOK
      /\ overrides[n] \in Override /\ n \in Nat
  BY DEF EditsInv, TypeOK
<1>3. overrides[n].cell \in Cells /\ active \in Imports \cup {NoImport}
  BY <1>2 DEF Override, TypeOK
<1>4. r \in Request
  BY <1>2, <1>3, IdleRequest DEF Request
<1>5. tx'[e] = r
  BY <1>1, <1>2 DEF TypeOK
<1>6. r.pc = "shared" /\ r.op = op /\ r.cell = overrides[n].cell /\ r.id = n /\ r.import = active
  BY <1>2, <1>3, IdleRequest DEF Request
<1>7. UNCHANGED <<created, active, events, overrides, lastId, page>>
  BY DEF BeginById
<1> HIDE DEF r
<1>8. RowFits(e)'
  BY <1>5, <1>6, <1>7 DEF RowFits, BeginById
<1>9. Standing(e)'
  BY <1>3, <1>5, <1>6, <1>7, <1>8 DEF Standing, HoldsVersion, SawCell
<1> QED
  BY <1>1, <1>4, <1>6, <1>7, <1>9, MoveStep DEF BeginById, ShareFree

LEMMA LockCellStep ==
    ASSUME EditsInv, NEW e \in Clients, LockCell(e)
    PROVE  EditsInv'
PROOF
<1> DEFINE r == [tx[e] EXCEPT !.pc = "locked"]
<1>1. tx' = [tx EXCEPT ![e] = r]
  BY DEF LockCell
<1>2. TypeOK /\ tx[e] \in Request /\ tx[e].pc = "shared" /\ Standing(e) /\ Locks
  BY DEF EditsInv, TypeOK, LockCell
<1>3. /\ r \in Request /\ r.pc = "locked" /\ r.op = tx[e].op /\ r.cell = tx[e].cell
      /\ r.value = tx[e].value /\ r.id = tx[e].id /\ r.import = tx[e].import
  BY <1>2 DEF Request
<1>4. tx'[e] = r
  BY <1>1, <1>2 DEF TypeOK
<1>5. UNCHANGED <<created, active, events, overrides, lastId, page>>
  BY DEF LockCell
<1> HIDE DEF r
<1>6. (SaveFits(e) => SaveFits(e)') /\ (RowFits(e) => RowFits(e)')
  BY <1>3, <1>4, <1>5 DEF SaveFits, RowFits
<1>7. Standing(e)'
  BY <1>2, <1>3, <1>4, <1>5, <1>6 DEF Standing, HoldsVersion, SawCell
<1>8. \A f \in Clients : f # e => tx[f].pc # "activating"
  BY <1>2 DEF Locks
<1>9. \A f \in Clients : f # e /\ tx[f].pc \in {"locked", "checked"} => tx[f].cell # r.cell
  BY <1>3 DEF LockCell, CellFree
<1> QED
  BY <1>1, <1>3, <1>5, <1>7, <1>8, <1>9, MoveStep

LEMMA BeginActivateStep ==
    ASSUME EditsInv, NEW e \in Clients, NEW i \in Imports, NEW op \in {"publish", "restore"},
           BeginActivate(e, i, op)
    PROVE  EditsInv'
PROOF
<1> DEFINE r == [Idle EXCEPT !.op = op, !.pc = "activating", !.import = i, !.previous = active]
<1>1. tx' = [tx EXCEPT ![e] = r]
  BY DEF BeginActivate
<1>2. TypeOK /\ active \in Imports \cup {NoImport}
  BY DEF EditsInv, TypeOK
<1>3. r \in Request
  BY <1>2, IdleRequest DEF Request
<1>4. tx'[e] = r
  BY <1>1, <1>2 DEF TypeOK
<1>5. r.pc = "activating" /\ r.op = op /\ r.import = i /\ r.previous = active
  BY <1>2, <1>3, IdleRequest DEF Request
<1>6. UNCHANGED <<created, active, events, overrides, lastId, page>>
  BY DEF BeginActivate
<1> HIDE DEF r
<1>7. Standing(e)'
  BY <1>4, <1>5, <1>6 DEF Standing, HoldsVersion, SawCell
<1>8. \A f \in Clients : tx[f].pc = "idle"
  BY <1>2 DEF BeginActivate, ExclusiveFree, TypeOK, Request
<1> QED
  BY <1>1, <1>3, <1>5, <1>6, <1>7, <1>8, MoveStep

(* The active edit of a cell, if there is one. *)
LEMMA ActiveEdit ==
    ASSUME TypeOK, OneActive, NEW c
    PROVE  /\ ActiveOn(c) \subseteq 1 .. lastId
           /\ \A n \in ActiveOn(c) : ActiveOn(c) = {n}
PROOF
  BY DEF ActiveOn, OneActive

LEMMA CheckSaveStep ==
    ASSUME EditsInv, NEW e \in Clients, CheckSave(e)
    PROVE  EditsInv'
PROOF
<1>1. CASE End(e)
  BY <1>1, EndStep DEF CheckSave
<1>2. ASSUME NEW c, c = tx[e].cell, NEW i, i = active, NEW effective, effective = Effective(i, c),
             NEW id, id = IF ActiveOn(c) = {} THEN NoId ELSE CHOOSE n \in ActiveOn(c) : TRUE,
             ShownValue(effective) = page[e].shown, ~End(e)
      PROVE  EditsInv'
  <2> DEFINE r == [[[tx[e] EXCEPT !.pc = "checked"] EXCEPT !.seen = effective] EXCEPT !.id = id]
  <2>1. /\ TypeOK /\ Locks /\ OneActive /\ Standing(e)
        /\ tx[e] \in Request /\ tx[e].op = "save" /\ tx[e].pc = "locked"
    BY DEF EditsInv, TypeOK, CheckSave, RowsRight
  <2>2. HoldsVersion(e) /\ SaveFits(e) /\ c \in Cells /\ tx[e].import = i /\ i \in Imports
    BY <1>2, <2>1 DEF Standing, HoldsVersion, SaveFits, TypeOK
  <2>3. effective \in Values
    BY <1>2, <2>1, <2>2, EffectiveIsValue
  <2>4. id \in Nat /\ ActiveOn(c) = IF id = NoId THEN {} ELSE {id}
    <3>1. CASE ActiveOn(c) = {}
      BY <1>2, <3>1 DEF NoId
    <3>2. CASE ActiveOn(c) # {}
      <4>1. id \in ActiveOn(c)
        BY <1>2, <3>2
      <4>2. ActiveOn(c) = {id} /\ id \in 1 .. lastId
        BY <2>1, <4>1, ActiveEdit
      <4> QED
        BY <2>1, <4>2 DEF NoId, TypeOK
    <3> QED
      BY <3>1, <3>2
  <2>5. tx' = [tx EXCEPT ![e].pc = "checked", ![e].seen = effective, ![e].id = id]
    BY <1>2, <2>2 DEF CheckSave
  <2>6. tx' = [tx EXCEPT ![e] = r]
    BY <2>1, <2>5 DEF TypeOK
  <2>7. /\ r \in Request /\ r.pc = "checked" /\ r.op = "save" /\ r.cell = c
        /\ r.value = tx[e].value /\ r.seen = effective /\ r.id = id /\ r.import = i
    BY <1>2, <2>1, <2>2, <2>3, <2>4 DEF Request
  <2>8. tx'[e] = r
    BY <2>1, <2>6 DEF TypeOK
  <2>9. UNCHANGED <<created, active, events, overrides, lastId, page>>
    BY DEF CheckSave
  <2> HIDE DEF r
  <2>10. SaveFits(e)'
    BY <1>2, <2>2, <2>7, <2>8, <2>9 DEF SaveFits
  <2>11. HoldsVersion(e)'
    BY <1>2, <2>2, <2>7, <2>8, <2>9, <2>10 DEF HoldsVersion
  <2>12. /\ ActiveOn(tx[e].cell)' = ActiveOn(c)
         /\ Effective(active, tx[e].cell)' = Effective(i, c)
    <3>1. tx'[e].cell = c /\ active' = i
      BY <1>2, <2>7, <2>8, <2>9
    <3>2. ActiveOn(tx[e].cell)' = ActiveOn(c)'
      BY <3>1 DEF ActiveOn
    <3>3. Effective(active, tx[e].cell)' = Effective(i, c)'
      BY <3>1, <3>2 DEF Effective
    <3> QED
      BY <2>9, <3>2, <3>3, SameTable
  <2>13. SawCell(e)'
    BY <1>2, <2>4, <2>7, <2>8, <2>9, <2>12 DEF SawCell
  <2>14. \A f \in Clients : f # e =>
           /\ tx[f].pc # "activating"
           /\ tx[f].pc \in {"locked", "checked"} => tx[f].cell # r.cell
    BY <1>2, <2>1, <2>7 DEF Locks
  <2> QED
    BY <2>6, <2>7, <2>9, <2>11, <2>13, <2>14, MoveStep DEF Standing
<1>3. tx[e].import = active
  BY DEF CheckSave, EditsInv, Standing, HoldsVersion
<1> QED
  BY <1>1, <1>2, <1>3 DEF CheckSave

LEMMA CheckKeepStep ==
    ASSUME EditsInv, NEW e \in Clients, CheckKeep(e)
    PROVE  EditsInv'
PROOF
<1>1. CASE End(e)
  BY <1>1, EndStep DEF CheckKeep
<1>2. ASSUME NEW c, c = tx[e].cell, NEW i, i = active, NEW id, id = tx[e].id, ~End(e)
      PROVE  EditsInv'
  <2> DEFINE r == [[[tx[e] EXCEPT !.pc = "checked"] EXCEPT !.value = overrides[id].web]
                      EXCEPT !.seen = Source(i, c)]
  <2>1. /\ TypeOK /\ Locks /\ OneActive /\ Standing(e)
        /\ tx[e] \in Request /\ tx[e].op = "keep" /\ tx[e].pc = "locked"
    BY DEF EditsInv, TypeOK, CheckKeep, RowsRight
  <2>2. /\ HoldsVersion(e) /\ RowFits(e) /\ c \in Cells /\ tx[e].import = i /\ i \in Imports
        /\ id \in 1 .. lastId /\ overrides[id].cell = c
    BY <1>2, <2>1 DEF Standing, HoldsVersion, RowFits, TypeOK
  <2>3. overrides[id] \in Override /\ Source(i, c) \in Values
    BY <2>1, <2>2, SourceIsValue DEF TypeOK
  <2>4. overrides[id].web \in Values
    BY <2>3 DEF Override
  <2>5. /\ overrides[id].state = "active" /\ Status(overrides[id], i) = "en_conflicto"
        /\ tx' = [tx EXCEPT ![e].pc = "checked", ![e].value = overrides[id].web,
                            ![e].seen = Source(i, c)]
    BY <1>2, <2>2 DEF CheckKeep
  <2>6. tx' = [tx EXCEPT ![e] = r]
    BY <2>1, <2>5 DEF TypeOK
  <2>7. /\ r \in Request /\ r.pc = "checked" /\ r.op = "keep" /\ r.cell = c
        /\ r.value = overrides[id].web /\ r.seen = Source(i, c) /\ r.id = id /\ r.import = i
    BY <1>2, <2>1, <2>2, <2>3, <2>4 DEF Request
  <2>8. tx'[e] = r
    BY <2>1, <2>6 DEF TypeOK
  <2>9. UNCHANGED <<created, active, events, overrides, lastId, page>>
    BY DEF CheckKeep
  <2> HIDE DEF r
  <2>10. RowFits(e)'
    <3>1. /\ tx'[e].id = id /\ tx'[e].cell = c /\ tx'[e].op = "keep"
          /\ active' = i /\ overrides' = overrides /\ lastId' = lastId
      BY <1>2, <2>7, <2>8, <2>9
    <3>2. id \in 1 .. lastId /\ overrides[id].cell = c /\ i # NoImport
      BY <1>2, <2>1, <2>2 DEF RowFits
    <3> QED
      BY <3>1, <3>2 DEF RowFits
  <2>11. HoldsVersion(e)'
    BY <1>2, <2>2, <2>7, <2>8, <2>9, <2>10 DEF HoldsVersion
  <2>12. ActiveOn(tx[e].cell)' = {id}
    <3>1. ActiveOn(tx[e].cell)' = ActiveOn(c)'
      BY <2>7, <2>8 DEF ActiveOn
    <3>2. id \in ActiveOn(c)
      BY <2>2, <2>5 DEF ActiveOn, InForce
    <3> QED
      BY <2>1, <2>9, <3>1, <3>2, SameTable, ActiveEdit
  <2>13. SawCell(e)'
    <3>1. /\ tx'[e].pc = "checked" /\ tx'[e].op = "keep" /\ tx'[e].id = id /\ tx'[e].cell = c
          /\ tx'[e].value = overrides[id].web /\ tx'[e].seen = Source(i, c)
          /\ active' = i /\ overrides' = overrides
      BY <1>2, <2>7, <2>8, <2>9
    <3>2. Status(overrides[tx[e].id], active)' = "en_conflicto"
      BY <2>5, <3>1 DEF Status
    <3>3. tx'[e].seen = Source(active, tx[e].cell)'
      BY <3>1 DEF Source
    <3> QED
      BY <2>12, <3>1, <3>2, <3>3 DEF SawCell
  <2>14. \A f \in Clients : f # e =>
           /\ tx[f].pc # "activating"
           /\ tx[f].pc \in {"locked", "checked"} => tx[f].cell # r.cell
    BY <1>2, <2>1, <2>7 DEF Locks
  <2> QED
    BY <2>6, <2>7, <2>9, <2>11, <2>13, <2>14, MoveStep DEF Standing
<1> QED
  BY <1>1, <1>2

LEMMA RollbackStep ==
    ASSUME EditsInv, NEW e \in Clients, Rollback(e)
    PROVE  EditsInv'
PROOF
  BY EndStep DEF Rollback

----------------------------------------------------------------------------
(* Commits *)

(* What a save that has checked may rely on. *)
LEMMA SaveReady ==
    ASSUME EditsInv, NEW e \in Clients, tx[e].op = "save", tx[e].pc = "checked"
    PROVE  /\ TypeOK /\ RowsRight /\ Standing(e) /\ tx[e].import = active
           /\ active \in Imports /\ active # NoImport
           /\ tx[e].cell \in Cells /\ tx[e].value \in Typed
           /\ page[e].import = active /\ page[e].cell = tx[e].cell
           /\ InSource(active, tx[e].cell) /\ HasRow(active, tx[e].cell)
           /\ \/ tx[e].id = NoId /\ ActiveOn(tx[e].cell) = {}
              \/ /\ tx[e].id # NoId /\ tx[e].id \in 1 .. lastId
                 /\ ActiveOn(tx[e].cell) = {tx[e].id}
                 /\ overrides[tx[e].id].cell = tx[e].cell /\ InForce(tx[e].id)
PROOF
<1>1. TypeOK /\ RowsRight /\ Standing(e) /\ HoldsVersion(e) /\ SawCell(e)
  BY DEF EditsInv, Standing
<1>2. /\ tx[e].import = active /\ tx[e].cell \in Cells /\ SaveFits(e)
  BY <1>1 DEF HoldsVersion
<1>3. ActiveOn(tx[e].cell) = IF tx[e].id = NoId THEN {} ELSE {tx[e].id}
  BY <1>1 DEF SawCell
<1>4. tx[e].id # NoId =>
        /\ tx[e].id \in 1 .. lastId
        /\ overrides[tx[e].id].cell = tx[e].cell /\ InForce(tx[e].id)
  BY <1>3 DEF ActiveOn
<1>5. active \in Imports
  BY <1>1, <1>2 DEF SaveFits, TypeOK
<1> QED
  BY <1>1, <1>2, <1>3, <1>4, <1>5 DEF SaveFits

(* The row of a save that changes the value is anchored. *)
LEMMA SaveAnchors ==
    ASSUME EditsInv, NEW e \in Clients, tx[e].op = "save", tx[e].pc = "checked",
           NEW planilla, planilla = Source(tx[e].import, tx[e].cell), tx[e].value # planilla
    PROVE  Anchored(NewRow(e, planilla)) /\ planilla \in Values
PROOF
<1>1. /\ tx[e].import = active /\ active \in Imports /\ tx[e].cell \in Cells
      /\ HasRow(active, tx[e].cell)
  BY SaveReady
<1> DEFINE row == NewRow(e, planilla)
<1>2. /\ row.cell = tx[e].cell /\ row.web = tx[e].value /\ row.planilla = planilla
      /\ row.base = active
  BY <1>1 DEF NewRow
<1>3. planilla = Source(active, row.cell)
  BY <1>1, <1>2
<1> HIDE DEF row
<1>4. Status(row, active) = "aplicada"
  BY <1>1, <1>2, <1>3 DEF Status
<1>5. Anchored(row)
  BY <1>2, <1>3, <1>4 DEF Anchored
<1> QED
  BY <1>1, <1>5, SourceIsValue DEF row

(* The three ways a save commits. *)
LEMMA SaveCommits ==
    ASSUME NEW e \in Clients, CommitSave(e),
           NEW planilla, planilla = Source(tx[e].import, tx[e].cell)
    PROVE  /\ tx[e].op = "save" /\ tx[e].pc = "checked" /\ End(e)
           /\ UNCHANGED <<created, active, events, page>>
           /\ \/ tx[e].value = tx[e].seen /\ UNCHANGED <<overrides, lastId>>
              \/ /\ tx[e].value # tx[e].seen /\ tx[e].value = planilla
                 /\ overrides' = IF tx[e].id = NoId THEN overrides ELSE Ended(tx[e].id, "discarded")
                 /\ UNCHANGED lastId
              \/ /\ tx[e].value # tx[e].seen /\ tx[e].value # planilla
                 /\ Replace(e, "superseded", planilla)
PROOF
  BY DEF CommitSave

LEMMA CommitSaveStep ==
    ASSUME EditsInv, NEW e \in Clients, CommitSave(e)
    PROVE  EditsInv'
PROOF
<1> SUFFICES ASSUME NEW planilla, planilla = Source(tx[e].import, tx[e].cell)
             PROVE  EditsInv'
  OBVIOUS
<1>1. /\ tx[e].op = "save" /\ tx[e].pc = "checked" /\ End(e)
      /\ UNCHANGED <<created, active, events, page>>
  BY SaveCommits
<1>2. TypeOK /\ RowsRight /\ Standing(e)
  BY <1>1, SaveReady
<1>3. CASE UNCHANGED <<overrides, lastId>>
  BY <1>1, <1>3, EndStep
<1>4. CASE tx[e].id # NoId /\ overrides' = Ended(tx[e].id, "discarded") /\ UNCHANGED lastId
  <2>1. tx[e].id \in 1 .. lastId /\ overrides[tx[e].id].cell = tx[e].cell
    BY <1>1, <1>4, SaveReady
  <2>2. CellWritten(tx[e].cell)
    BY <1>2, <1>4, <2>1, EndWrites DEF Reasons
  <2>3. RowsRight'
    BY <1>1, <1>2, <1>4, <2>1, RowsAfterEnd DEF Reasons
  <2> QED
    BY <1>1, <2>2, <2>3, WriteStep
<1>5. CASE tx[e].value # planilla /\ Replace(e, "superseded", planilla)
  <2>1. Anchored(NewRow(e, planilla)) /\ planilla \in Values
    BY <1>1, <1>5, SaveAnchors
  <2>2. CellWritten(tx[e].cell)
    BY <1>1, <1>2, <1>5, <2>1, ReplaceWrites DEF Reasons
  <2>3. RowsRight'
    BY <1>1, <1>2, <1>5, <2>1, RowsAfterReplace DEF Reasons
  <2> QED
    BY <1>1, <2>2, <2>3, WriteStep
<1> QED
  BY <1>3, <1>4, <1>5, SaveCommits

(* A discard that holds its cell ends a row of it. *)
LEMMA DiscardReady ==
    ASSUME EditsInv, NEW e \in Clients, CommitDiscard(e)
    PROVE  /\ TypeOK /\ RowsRight /\ tx[e].pc = "locked" /\ End(e)
           /\ UNCHANGED <<created, active, events, lastId, page>>
           /\ tx[e].id \in 1 .. lastId /\ overrides[tx[e].id].cell = tx[e].cell
           /\ overrides' = Ended(tx[e].id, "discarded")
PROOF
<1>1. TypeOK /\ RowsRight /\ HoldsVersion(e)
  BY DEF EditsInv, Standing
<1>2. tx[e].op = "discard" /\ tx[e].pc = "locked"
  BY DEF CommitDiscard
<1>3. RowFits(e)
  BY <1>1, <1>2 DEF HoldsVersion
<1> QED
  BY <1>1, <1>2, <1>3 DEF CommitDiscard, RowFits

LEMMA CommitDiscardStep ==
    ASSUME EditsInv, NEW e \in Clients, CommitDiscard(e)
    PROVE  EditsInv'
PROOF
<1>1. CellWritten(tx[e].cell)
  BY DiscardReady, EndWrites DEF Reasons
<1>2. RowsRight'
  BY DiscardReady, RowsAfterEnd DEF Reasons
<1> QED
  BY <1>1, <1>2, DiscardReady, WriteStep

(* A keep that has checked replaces a contradicted edit by an anchored one. *)
LEMMA KeepReady ==
    ASSUME EditsInv, NEW e \in Clients, CommitKeep(e)
    PROVE  /\ TypeOK /\ RowsRight /\ Standing(e) /\ tx[e].pc = "checked" /\ End(e)
           /\ UNCHANGED <<created, active, events, page>>
           /\ Replace(e, "kept", tx[e].seen)
           /\ tx[e].id \in 1 .. lastId /\ overrides[tx[e].id].cell = tx[e].cell
           /\ ActiveOn(tx[e].cell) = {tx[e].id}
           /\ tx[e].value = overrides[tx[e].id].web
           /\ tx[e].cell \in Cells /\ active \in Imports /\ tx[e].import = active
           /\ tx[e].seen = Source(active, tx[e].cell)
           /\ Status(overrides[tx[e].id], active) = "en_conflicto"
PROOF
<1>1. TypeOK /\ RowsRight /\ Standing(e) /\ HoldsVersion(e) /\ SawCell(e)
  BY DEF EditsInv, Standing
<1>2. tx[e].op = "keep" /\ tx[e].pc = "checked"
  BY DEF CommitKeep
<1>3. RowFits(e) /\ tx[e].cell \in Cells /\ tx[e].import = active
  BY <1>1, <1>2 DEF HoldsVersion
<1>4. active \in Imports
  BY <1>1, <1>2, <1>3 DEF RowFits, TypeOK
<1>5. /\ ActiveOn(tx[e].cell) = {tx[e].id}
      /\ tx[e].value = overrides[tx[e].id].web
      /\ tx[e].seen = Source(active, tx[e].cell)
      /\ Status(overrides[tx[e].id], active) = "en_conflicto"
  BY <1>1, <1>2 DEF SawCell
<1>6. End(e) /\ UNCHANGED <<created, active, events, page>> /\ Replace(e, "kept", tx[e].seen)
  BY DEF CommitKeep
<1> QED
  BY <1>1, <1>2, <1>3, <1>4, <1>5, <1>6 DEF RowFits

LEMMA KeepAnchors ==
    ASSUME EditsInv, NEW e \in Clients, CommitKeep(e)
    PROVE  Anchored(NewRow(e, tx[e].seen)) /\ tx[e].seen \in Values
PROOF
<1> DEFINE row == NewRow(e, tx[e].seen)
           old == overrides[tx[e].id]
<1>1. /\ row.cell = tx[e].cell /\ row.web = tx[e].value /\ row.planilla = tx[e].seen
      /\ row.base = tx[e].import
  BY DEF NewRow
<1>2. /\ old.cell = tx[e].cell /\ old.web = tx[e].value /\ tx[e].import = active
      /\ tx[e].seen = Source(active, tx[e].cell) /\ Status(old, active) = "en_conflicto"
      /\ tx[e].cell \in Cells /\ active \in Imports
  BY KeepReady
<1> HIDE DEF row, old
<1>3. /\ HasRow(active, old.cell) /\ Source(active, old.cell) # old.web
  BY <1>2 DEF Status
<1>4. Status(row, active) = "aplicada"
  BY <1>1, <1>2, <1>3 DEF Status
<1>5. Anchored(row)
  BY <1>1, <1>2, <1>3, <1>4 DEF Anchored
<1> QED
  BY <1>2, <1>5, SourceIsValue DEF row

LEMMA CommitKeepStep ==
    ASSUME EditsInv, NEW e \in Clients, CommitKeep(e)
    PROVE  EditsInv'
PROOF
<1>1. CellWritten(tx[e].cell)
  BY KeepReady, KeepAnchors, ReplaceWrites DEF Reasons
<1>2. RowsRight'
  BY KeepReady, KeepAnchors, RowsAfterReplace DEF Reasons
<1> QED
  BY <1>1, <1>2, KeepReady, WriteStep

(* Retirement ends the edits the new version carries and touches nothing     *)
(* else.                                                                     *)
LEMMA RetireWrites ==
    ASSUME TypeOK, NEW i, overrides' = Retired(i), lastId' = lastId
    PROVE  /\ overrides' \in [1 .. lastId -> Override]
           /\ \A n \in 1 .. lastId :
                /\ overrides'[n].cell = overrides[n].cell
                /\ overrides'[n].web = overrides[n].web
                /\ overrides'[n].planilla = overrides[n].planilla
                /\ overrides'[n].base = overrides[n].base
                /\ overrides'[n].state = "active" <=> InForce(n) /\ ~Retires(i, overrides[n])
                /\ overrides'[n] # overrides[n] => InForce(n)
PROOF
<1>1. overrides' = [n \in 1 .. lastId |->
        IF InForce(n) /\ Retires(i, overrides[n])
        THEN [overrides[n] EXCEPT !.state = "incorporated"] ELSE overrides[n]]
  BY DEF Retired
<1>2. ASSUME NEW n \in 1 .. lastId
      PROVE  /\ overrides'[n] \in Override
             /\ overrides'[n].cell = overrides[n].cell
             /\ overrides'[n].web = overrides[n].web
             /\ overrides'[n].planilla = overrides[n].planilla
             /\ overrides'[n].base = overrides[n].base
             /\ overrides'[n].state = "active" <=> InForce(n) /\ ~Retires(i, overrides[n])
             /\ overrides'[n] # overrides[n] => InForce(n)
  <2>1. overrides[n] \in Override
    BY DEF TypeOK
  <2>2. CASE InForce(n) /\ Retires(i, overrides[n])
    BY <1>1, <2>1, <2>2 DEF Override
  <2>3. CASE ~(InForce(n) /\ Retires(i, overrides[n]))
    BY <1>1, <2>1, <2>3 DEF InForce
  <2> QED
    BY <2>2, <2>3
<1>3. overrides' \in [1 .. lastId -> Override]
  BY <1>1, <1>2
<1> QED
  BY <1>2, <1>3

(* The table after a publication. *)
LEMMA RowsAfterRetire ==
    ASSUME TypeOK, RowsRight, NEW i \in Imports, active' = i,
           overrides' = Retired(i), lastId' = lastId
    PROVE  RowsRight'
PROOF
<1>1. \A n \in 1 .. lastId :
        /\ overrides'[n].cell = overrides[n].cell
        /\ overrides'[n].web = overrides[n].web
        /\ overrides'[n].planilla = overrides[n].planilla
        /\ overrides'[n].base = overrides[n].base
        /\ overrides'[n].state = "active" <=> InForce(n) /\ ~Retires(i, overrides[n])
  BY RetireWrites
<1>2. OneActive'
  BY <1>1 DEF RowsRight, OneActive, InForce
<1>3. NothingLeftToRetire'
  <2> SUFFICES ASSUME NEW n \in 1 .. lastId, overrides'[n].state = "active"
               PROVE  ~Retires(i, overrides'[n])
    BY DEF NothingLeftToRetire, InForce, Retires, Status, Source, HasRow, InSource
  <2>1. ~Retires(i, overrides[n])
    BY <1>1
  <2> QED
    BY <1>1, <2>1, SameStatus
<1>4. AnchoredToBase'
  <2> SUFFICES ASSUME NEW n \in 1 .. lastId
               PROVE  /\ overrides'[n].planilla = Source(overrides'[n].base, overrides'[n].cell)
                      /\ overrides'[n].web # overrides'[n].planilla
                      /\ Status(overrides'[n], overrides'[n].base) = "aplicada"
    BY DEF AnchoredToBase, Status, Source, HasRow
  <2>1. /\ overrides[n].planilla = Source(overrides[n].base, overrides[n].cell)
        /\ overrides[n].web # overrides[n].planilla
        /\ Status(overrides[n], overrides[n].base) = "aplicada"
    BY DEF RowsRight, AnchoredToBase
  <2> QED
    BY <1>1, <2>1, SameStatus
<1> QED
  BY <1>2, <1>3, <1>4 DEF RowsRight

(* The trail goes on from the version that was served. *)
LEMMA TrailAfterEvent ==
    ASSUME TypeOK, TrailChains, NEW ev \in Event, ev.previous = active,
           events' = Append(events, ev), active' = ev.import
    PROVE  TrailChains' /\ events' \in Seq(Event)
PROOF
<1>1. /\ events \in Seq(Event) /\ Len(events) \in Nat
      /\ events' \in Seq(Event) /\ Len(events') = Len(events) + 1
      /\ events'[Len(events) + 1] = ev
      /\ \A k \in 1 .. Len(events) : events'[k] = events[k]
  BY DEF TypeOK
<1>2. /\ \A k \in 1 .. Len(events) :
           events[k].previous = IF k = 1 THEN NoImport ELSE events[k - 1].import
      /\ active = IF events = << >> THEN NoImport ELSE events[Len(events)].import
  BY DEF TrailChains
<1>3. events = << >> <=> Len(events) = 0
  BY <1>1
<1>4. ASSUME NEW k \in 1 .. Len(events')
      PROVE  events'[k].previous = IF k = 1 THEN NoImport ELSE events'[k - 1].import
  <2>1. CASE k \in 1 .. Len(events)
    <3>1. k # 1 => k - 1 \in 1 .. Len(events)
      BY <1>1, <2>1
    <3> QED
      BY <1>1, <1>2, <2>1, <3>1
  <2>2. CASE k = Len(events) + 1
    <3>1. events'[k].previous = active
      BY <1>1, <2>2
    <3>2. CASE Len(events) = 0
      BY <1>2, <1>3, <2>2, <3>1, <3>2
    <3>3. CASE Len(events) # 0
      <4>1. k # 1 /\ k - 1 = Len(events) /\ Len(events) \in 1 .. Len(events)
        BY <1>1, <2>2, <3>3
      <4>2. events'[k - 1] = events[Len(events)]
        BY <1>1, <4>1
      <4> QED
        BY <1>2, <1>3, <3>1, <3>3, <4>1, <4>2
    <3> QED
      BY <3>2, <3>3
  <2> QED
    BY <1>1, <2>1, <2>2
<1>5. active' = IF events' = << >> THEN NoImport ELSE events'[Len(events')].import
  <2>1. events' # << >> /\ events'[Len(events')] = ev
    BY <1>1
  <2> QED
    BY <2>1
<1> QED
  BY <1>1, <1>4, <1>5 DEF TrailChains

(* Under the exclusive lock everybody else is idle. *)
LEMMA ActivateReady ==
    ASSUME EditsInv, NEW e \in Clients, tx[e].pc = "activating"
    PROVE  /\ TypeOK /\ Locks /\ RowsRight /\ TrailChains
           /\ tx[e].import \in Imports /\ tx[e].previous = active
           /\ \A f \in Clients : f # e => tx[f].pc = "idle"
           /\ EventOf(e) \in Event
           /\ EventOf(e).previous = active /\ EventOf(e).import = tx[e].import
PROOF
<1>1. TypeOK /\ Locks /\ RowsRight /\ TrailChains /\ HoldsVersion(e)
  BY DEF EditsInv, Standing
<1>2. tx[e].op \in {"publish", "restore"} /\ tx[e].import \in Imports /\ tx[e].previous = active
  BY <1>1 DEF HoldsVersion
<1>3. \A f \in Clients : f # e => tx[f].pc = "idle"
  BY <1>1 DEF Locks
<1>4. active \in Imports \cup {NoImport}
  BY <1>1 DEF TypeOK
<1>5. EventOf(e) \in Event /\ EventOf(e).previous = active /\ EventOf(e).import = tx[e].import
  BY <1>2, <1>4 DEF EventOf, Event
<1> QED
  BY <1>1, <1>2, <1>3, <1>5

LEMMA CommitActivateStep ==
    ASSUME EditsInv, NEW e \in Clients, CommitActivate(e)
    PROVE  EditsInv'
PROOF
<1>1. tx[e].pc = "activating" /\ End(e) /\ UNCHANGED <<created, lastId, page>>
  BY DEF CommitActivate
<1>2. /\ TypeOK /\ Locks /\ RowsRight /\ TrailChains /\ tx[e].import \in Imports
      /\ \A f \in Clients : f # e => tx[f].pc = "idle"
      /\ EventOf(e) \in Event /\ EventOf(e).previous = active /\ EventOf(e).import = tx[e].import
  BY <1>1, ActivateReady
<1>3. CASE tx[e].import \notin created
  BY <1>1, <1>3, EndStep DEF CommitActivate
<1>4. CASE tx[e].import \in created
  <2>1. /\ active' = tx[e].import /\ events' = Append(events, EventOf(e))
        /\ overrides' = Retired(tx[e].import)
    BY <1>4 DEF CommitActivate
  <2>2. /\ tx' \in [Clients -> Request] /\ tx'[e].pc = "idle"
        /\ \A f \in Clients : f # e => tx'[f] = tx[f]
        /\ Locks'
    BY <1>1, <1>2, EndedStanding
  <2>3. \A f \in Clients : Standing(f)'
    BY <1>2, <2>2 DEF Standing, HoldsVersion, SawCell
  <2>4. RowsRight'
    BY <1>1, <1>2, <2>1, RowsAfterRetire
  <2>5. TrailChains' /\ events' \in Seq(Event)
    <3> DEFINE ev == EventOf(e)
    <3>1. ev \in Event /\ ev.previous = active /\ events' = Append(events, ev) /\ active' = ev.import
      BY <1>2, <2>1
    <3> HIDE DEF ev
    <3> QED
      BY <1>2, <3>1, TrailAfterEvent
  <2>6. overrides' \in [1 .. lastId' -> Override]
    BY <1>1, <1>2, <2>1, RetireWrites
  <2>7. TypeOK'
    BY <1>1, <1>2, <2>1, <2>2, <2>5, <2>6 DEF TypeOK
  <2> QED
    BY <2>2, <2>3, <2>4, <2>5, <2>7 DEF EditsInv
<1> QED
  BY <1>3, <1>4

(* Every step keeps the invariant. *)
LEMMA EditsNext == EditsInv /\ [Next]_vars => EditsInv'
PROOF
<1> SUFFICES ASSUME EditsInv, [Next]_vars PROVE EditsInv'
  OBVIOUS
<1>1. ASSUME NEW i \in Imports, Validate(i) PROVE EditsInv'
  BY <1>1, ValidateStep
<1>2. ASSUME NEW e \in Clients, LoadVersion(e) \/ \E c \in Cells : LoadRow(e, c) PROVE EditsInv'
  BY <1>2, LoadStep
<1>3. ASSUME NEW e \in Clients, NEW v \in Typed, BeginSave(e, v) PROVE EditsInv'
  BY <1>3, BeginSaveStep
<1>4. ASSUME NEW e \in Clients, NEW op \in {"discard", "keep"}, NEW n \in 1 .. lastId,
             BeginById(e, op, n)
      PROVE  EditsInv'
  BY <1>4, BeginByIdStep
<1>5. ASSUME NEW e \in Clients, NEW i \in Imports, NEW op \in {"publish", "restore"},
             BeginActivate(e, i, op)
      PROVE  EditsInv'
  BY <1>5, BeginActivateStep
<1>6. ASSUME NEW e \in Clients, EditStep(e) PROVE EditsInv'
  BY <1>6, LockCellStep, CheckSaveStep, CommitSaveStep, CommitDiscardStep, CheckKeepStep,
     CommitKeepStep, CommitActivateStep DEF EditStep
<1>7. ASSUME NEW e \in Clients, Rollback(e) PROVE EditsInv'
  BY <1>7, RollbackStep
<1>8. ASSUME UNCHANGED vars PROVE EditsInv'
  <2>1. CASE Clients = {}
    BY <1>8, <2>1 DEF EditsInv, vars, TypeOK, Locks, RowsRight, OneActive, NothingLeftToRetire,
                      AnchoredToBase, InForce, TrailChains
  <2>2. ASSUME NEW e \in Clients PROVE EditsInv'
    <3>1. TypeOK /\ Standing(e) /\ Locks
      BY DEF EditsInv
    <3>2. Standing(e)'
      BY <1>8, <3>1, StandingBeside DEF vars
    <3>3. Locks'
      BY <1>8, <3>1 DEF vars, Locks
    <3> QED
      BY <1>8, <3>1, <3>2, <3>3, QuietStep DEF Alone, TypeOK, vars
  <2> QED
    BY <2>1, <2>2
<1> QED
  BY <1>1, <1>2, <1>3, <1>4, <1>5, <1>6, <1>7, <1>8 DEF Next

(* The invariant holds in every state of every behaviour. *)
THEOREM EditsInvariant == Spec => []EditsInv
PROOF
  BY EditsInit, EditsNext, PTL DEF Spec

(* Every row, page, event and request stays well formed, and edits are       *)
(* numbered without gaps.                                                    *)
THEOREM EditsTypeCorrect == Spec => []TypeOK
PROOF
<1>1. EditsInv => TypeOK
  BY DEF EditsInv
<1> QED
  BY <1>1, EditsInvariant, PTL

(* uq_transelec_field_override_active_cell never fires, for any number of    *)
(* editors: the advisory lock of the cell is enough.                         *)
THEOREM IndexCorrect == Spec => []IndexNeverFires
PROOF
<1>1. EditsInv => IndexNeverFires
  BY DEF EditsInv, IndexNeverFires, Standing, SawCell
<1> QED
  BY <1>1, EditsInvariant, PTL

(* No edit stays active that the served planilla carries in a column of its  *)
(* own, whatever is published, restored, saved or kept at the same time      *)
(* (retire_incorporated_overrides under the exclusive lock).                 *)
THEOREM RetiredCorrect == Spec => []NothingLeftToRetire
PROOF
<1>1. EditsInv => NothingLeftToRetire
  BY DEF EditsInv, RowsRight
<1> QED
  BY <1>1, EditsInvariant, PTL

(* Every edit records a real difference with the version it was made on      *)
(* (save_override and keep_override read the planilla under their locks).    *)
THEOREM AnchoredCorrect == Spec => []AnchoredToBase
PROOF
<1>1. EditsInv => AnchoredToBase
  BY DEF EditsInv, RowsRight
<1> QED
  BY <1>1, EditsInvariant, PTL

(* The publication trail is a chain without gaps that ends at what is served *)
(* (activate_import reads the previous version under the exclusive lock).    *)
THEOREM TrailChainsCorrect == Spec => []TrailChains
PROOF
<1>1. EditsInv => TrailChains
  BY DEF EditsInv
<1> QED
  BY <1>1, EditsInvariant, PTL

----------------------------------------------------------------------------
(* The edit table as a history *)

(* Two rows that agree on all but their state. *)
LEMMA SameRow ==
    ASSUME NEW a \in Override, NEW b \in Override,
           b.cell = a.cell, b.web = a.web, b.planilla = a.planilla, b.base = a.base
    PROVE  b = [a EXCEPT !.state = b.state]
PROOF
  BY DEF Override

LEMMA WrittenOnlyEnds ==
    ASSUME TypeOK, NEW c, CellWritten(c)
    PROVE  RowsOnlyEnd
PROOF
<1>1. ASSUME NEW n \in 1 .. lastId, overrides'[n] # overrides[n]
      PROVE  /\ InForce(n)
             /\ overrides'[n] = [overrides[n] EXCEPT !.state = overrides'[n].state]
  <2>1. overrides[n] \in Override /\ overrides'[n] \in Override
    BY RowsKept DEF TypeOK, CellWritten
  <2>2. /\ overrides'[n].cell = overrides[n].cell /\ overrides'[n].web = overrides[n].web
        /\ overrides'[n].planilla = overrides[n].planilla
        /\ overrides'[n].base = overrides[n].base /\ InForce(n)
    BY <1>1 DEF CellWritten
  <2> QED
    BY <2>1, <2>2, SameRow
<1> QED
  BY <1>1 DEF RowsOnlyEnd, CellWritten

LEMMA HistoryStep ==
    ASSUME EditsInv, [Next]_vars
    PROVE  RowsOnlyEnd
PROOF
<1>1. TypeOK
  BY DEF EditsInv
<1>2. ASSUME UNCHANGED <<overrides, lastId>> PROVE RowsOnlyEnd
  BY <1>1, <1>2 DEF RowsOnlyEnd, TypeOK
<1>3. ASSUME NEW e \in Clients, CommitSave(e) PROVE RowsOnlyEnd
  <2> SUFFICES ASSUME NEW planilla, planilla = Source(tx[e].import, tx[e].cell)
               PROVE  RowsOnlyEnd
    OBVIOUS
  <2>1. tx[e].op = "save" /\ tx[e].pc = "checked"
    BY <1>3, SaveCommits
  <2>2. CASE tx[e].id # NoId /\ overrides' = Ended(tx[e].id, "discarded") /\ UNCHANGED lastId
    <3>1. CellWritten(overrides[tx[e].id].cell)
      BY <1>1, <2>1, <2>2, SaveReady, EndWrites DEF Reasons
    <3> QED
      BY <1>1, <3>1, WrittenOnlyEnds
  <2>3. CASE tx[e].value # planilla /\ Replace(e, "superseded", planilla)
    <3>1. Standing(e) /\ planilla \in Values
      BY <2>1, <2>3, SaveReady, SaveAnchors
    <3>2. CellWritten(tx[e].cell)
      BY <1>1, <2>1, <2>3, <3>1, ReplaceWrites DEF Reasons
    <3> QED
      BY <1>1, <3>2, WrittenOnlyEnds
  <2> QED
    BY <1>2, <1>3, <2>2, <2>3, SaveCommits
<1>4. ASSUME NEW e \in Clients, CommitDiscard(e) PROVE RowsOnlyEnd
  <2>1. CellWritten(overrides[tx[e].id].cell)
    BY <1>4, DiscardReady, EndWrites DEF Reasons
  <2> QED
    BY <1>1, <2>1, WrittenOnlyEnds
<1>5. ASSUME NEW e \in Clients, CommitKeep(e) PROVE RowsOnlyEnd
  <2>1. CellWritten(tx[e].cell)
    BY <1>5, KeepReady, KeepAnchors, ReplaceWrites DEF Reasons
  <2> QED
    BY <1>1, <2>1, WrittenOnlyEnds
<1>6. ASSUME NEW e \in Clients, CommitActivate(e) PROVE RowsOnlyEnd
  <2>1. CASE overrides' = Retired(tx[e].import) /\ lastId' = lastId
    <3>1. ASSUME NEW n \in 1 .. lastId, overrides'[n] # overrides[n]
          PROVE  /\ InForce(n)
                 /\ overrides'[n] = [overrides[n] EXCEPT !.state = overrides'[n].state]
      <4>1. overrides[n] \in Override /\ overrides'[n] \in Override
        BY <1>1, <2>1, RetireWrites DEF TypeOK
      <4>2. /\ overrides'[n].cell = overrides[n].cell /\ overrides'[n].web = overrides[n].web
            /\ overrides'[n].planilla = overrides[n].planilla
            /\ overrides'[n].base = overrides[n].base /\ InForce(n)
        BY <1>1, <2>1, <3>1, RetireWrites
      <4> QED
        BY <4>1, <4>2, SameRow
    <3> QED
      BY <1>1, <2>1, <3>1 DEF RowsOnlyEnd, TypeOK
  <2> QED
    BY <1>2, <1>6, <2>1 DEF CommitActivate
<1>7. \/ UNCHANGED <<overrides, lastId>>
      \/ \E e \in Clients : CommitSave(e) \/ CommitDiscard(e) \/ CommitKeep(e) \/ CommitActivate(e)
  BY DEF Next, EditStep, Validate, LoadVersion, LoadRow, BeginSave, BeginById, BeginActivate,
         LockCell, CheckSave, CheckKeep, Rollback, vars
<1> QED
  BY <1>2, <1>3, <1>4, <1>5, <1>6, <1>7

(* The edit table is the history of the edits: no request rewrites or drops  *)
(* a row, and a row ends once (transelec_overrides.py _end).                 *)
THEOREM HistoryCorrect == Spec => HistoryIsKept
PROOF
<1>1. EditsInv /\ [Next]_vars => [RowsOnlyEnd]_vars
  BY HistoryStep
<1> QED
  BY <1>1, EditsInvariant, PTL DEF Spec, HistoryIsKept

----------------------------------------------------------------------------
(* The refinement of EditedCells *)

(* The abstract edit a row stands for. *)
EditOf(n) ==
    [cell |-> overrides[n].cell, web |-> overrides[n].web, planilla |-> overrides[n].planilla]

LEMMA InForceEdits ==
    /\ EditsInForce = {EditOf(n) : n \in {k \in 1 .. lastId : InForce(k)}}
    /\ \A n \in 1 .. lastId : InForce(n) => EditOf(n) \in EditsInForce
    /\ \A d \in EditsInForce : \E n \in 1 .. lastId : InForce(n) /\ d = EditOf(n)
PROOF
<1>1. EditsInForce = {EditOf(n) : n \in {k \in 1 .. lastId : InForce(k)}}
  BY DEF EditsInForce, EditOf
<1> QED
  BY <1>1

LEMMA InForceEditsAfter ==
    /\ \A n \in 1 .. lastId' : InForce(n)' => EditOf(n)' \in EditsInForce'
    /\ \A d \in EditsInForce' : \E n \in 1 .. lastId' : InForce(n)' /\ d = EditOf(n)'
PROOF
<1>1. EditsInForce' = {EditOf(n)' : n \in {k \in 1 .. lastId' : InForce(k)'}}
  BY DEF EditsInForce, EditOf
<1> QED
  BY <1>1

(* An edit has its row's cell and values, so its status. *)
LEMMA EditLikeRow ==
    ASSUME NEW n, NEW i
    PROVE  /\ EditOf(n).cell = overrides[n].cell
           /\ EditOf(n).web = overrides[n].web
           /\ EditOf(n).planilla = overrides[n].planilla
           /\ Status(EditOf(n), i) = Status(overrides[n], i)
           /\ Retires(i, EditOf(n)) <=> Retires(i, overrides[n])
PROOF
<1>1. /\ EditOf(n).cell = overrides[n].cell /\ EditOf(n).web = overrides[n].web
      /\ EditOf(n).planilla = overrides[n].planilla
  BY DEF EditOf
<1> QED
  BY <1>1, SameStatus

(* Both specifications read the planillas the same way. *)
LEMMA SameReading ==
    /\ \A i, c : Abstract!HasRow(i, c) <=> HasRow(i, c)
    /\ \A i, c : Abstract!InSource(i, c) <=> InSource(i, c)
    /\ \A i, c : Abstract!Source(i, c) = Source(i, c)
    /\ \A v : Abstract!ShownValue(v) = ShownValue(v)
    /\ \A d, i : Abstract!Status(d, i) = Status(d, i)
    /\ \A d, i : Abstract!Retires(i, d) <=> Retires(i, d)
    /\ Abstract!Typed = Typed
PROOF
<1>1. /\ \A i, c : Abstract!HasRow(i, c) <=> HasRow(i, c)
      /\ \A i, c : Abstract!InSource(i, c) <=> InSource(i, c)
      /\ \A i, c : Abstract!Source(i, c) = Source(i, c)
      /\ \A v : Abstract!ShownValue(v) = ShownValue(v)
      /\ Abstract!Typed = Typed
  BY DEF Abstract!HasRow, HasRow, Abstract!InSource, InSource, Abstract!Source, Source,
         Abstract!ShownValue, ShownValue, Abstract!Typed, Typed
<1>2. \A d, i : Abstract!Status(d, i) = Status(d, i)
  BY <1>1 DEF Abstract!Status, Status
<1>3. \A d, i : Abstract!Retires(i, d) <=> Retires(i, d)
  BY <1>1, <1>2 DEF Abstract!Retires, Retires
<1> QED
  BY <1>1, <1>2, <1>3

(* What a cell shows is what EditedCells serves. *)
LEMMA ServesEffective ==
    ASSUME TypeOK, NEW i, NEW c
    PROVE  Abstract!Serves(i, c, Effective(i, c))
PROOF
<1> DEFINE applied == {n \in ActiveOn(c) : Status(overrides[n], i) = "aplicada"}
           edits == {d \in EditsInForce : d.cell = c /\ Status(d, i) = "aplicada"}
<1>1. Abstract!Applied(i, c) = edits
  BY SameReading DEF Abstract!Applied
<1>2. Effective(i, c) = IF applied = {} THEN Source(i, c)
                        ELSE overrides[CHOOSE n \in applied : TRUE].web
  BY DEF Effective
<1>3. \A n \in applied : EditOf(n) \in edits
  BY InForceEdits, EditLikeRow DEF ActiveOn
<1>4. \A d \in edits : \E n \in applied : d = EditOf(n)
  BY InForceEdits, EditLikeRow DEF ActiveOn
<1> HIDE DEF edits
<1>5. CASE applied = {}
  <2>1. edits = {}
    BY <1>4, <1>5
  <2> QED
    BY <1>1, <1>2, <1>5, <2>1, SameReading DEF Abstract!Serves
<1>6. CASE applied # {}
  <2>1. PICK n \in applied : n = CHOOSE k \in applied : TRUE
    BY <1>6
  <2>2. Effective(i, c) = EditOf(n).web /\ EditOf(n) \in edits
    BY <1>2, <1>3, <1>6, <2>1, EditLikeRow
  <2> QED
    BY <1>1, <2>2 DEF Abstract!Serves
<1> QED
  BY <1>5, <1>6

(* A write to one cell leaves the edits of the others. *)
LEMMA OtherEdits ==
    ASSUME TypeOK, NEW c, CellWritten(c)
    PROVE  {d \in EditsInForce' : d.cell # c} = {d \in EditsInForce : d.cell # c}
PROOF
<1>1. ASSUME NEW d \in EditsInForce, d.cell # c PROVE d \in EditsInForce'
  <2>1. PICK n \in 1 .. lastId : InForce(n) /\ d = EditOf(n)
    BY InForceEdits
  <2>2. overrides[n].cell # c
    BY <1>1, <2>1, EditLikeRow
  <2>3. overrides'[n] = overrides[n] /\ n \in 1 .. lastId'
    BY <2>2, RowsKept DEF CellWritten
  <2>4. InForce(n)' /\ EditOf(n)' = d
    BY <2>1, <2>3 DEF InForce, EditOf
  <2> QED
    BY <2>3, <2>4, InForceEditsAfter
<1>2. ASSUME NEW d \in EditsInForce', d.cell # c PROVE d \in EditsInForce
  <2>1. PICK n \in 1 .. lastId' : InForce(n)' /\ d = EditOf(n)'
    BY InForceEditsAfter
  <2>2. overrides'[n].cell # c
    BY <1>2, <2>1 DEF EditOf
  <2>3. n \in 1 .. lastId
    BY <2>2 DEF CellWritten
  <2>4. overrides'[n] = overrides[n]
    BY <2>2, <2>3 DEF CellWritten
  <2>5. InForce(n) /\ EditOf(n) = d
    BY <2>1, <2>4 DEF InForce, EditOf
  <2> QED
    BY <2>3, <2>5, InForceEdits
<1> QED
  BY <1>1, <1>2

(* The edits of a cell are those of its rows in force. *)
LEMMA CellEdits ==
    ASSUME NEW c
    PROVE  {d \in EditsInForce : d.cell = c} = {EditOf(n) : n \in ActiveOn(c)}
PROOF
  BY InForceEdits, EditLikeRow DEF ActiveOn

LEMMA CellEditsAfter ==
    ASSUME NEW c
    PROVE  {d \in EditsInForce' : d.cell = c} = {EditOf(n)' : n \in ActiveOn(c)'}
PROOF
<1>1. \A n : EditOf(n)'.cell = overrides'[n].cell
  BY DEF EditOf
<1> QED
  BY <1>1, InForceEditsAfter DEF ActiveOn

(* Ending the active edit of a cell removes it from the edits in force. *)
LEMMA EditsAfterEnd ==
    ASSUME TypeOK, NEW n \in 1 .. lastId, NEW reason \in Reasons,
           overrides' = Ended(n, reason), lastId' = lastId,
           NEW c, c = overrides[n].cell, ActiveOn(c) \subseteq {n}
    PROVE  EditsInForce' = {d \in EditsInForce : d.cell # c}
PROOF
<1>1. /\ CellWritten(c)
      /\ \A k \in 1 .. lastId : k # n => overrides'[k] = overrides[k]
      /\ overrides'[n].state # "active"
  BY EndWrites
<1>2. ActiveOn(c)' = {}
  <2> SUFFICES ASSUME NEW k \in ActiveOn(c)' PROVE FALSE
    OBVIOUS
  <2>1. k \in 1 .. lastId /\ overrides'[k].state = "active" /\ overrides'[k].cell = c
    BY DEF ActiveOn, InForce
  <2>2. k # n /\ overrides'[k] = overrides[k]
    BY <1>1, <2>1
  <2>3. k \in ActiveOn(c)
    BY <2>1, <2>2 DEF ActiveOn, InForce
  <2> QED
    BY <2>2, <2>3
<1>3. {d \in EditsInForce' : d.cell = c} = {}
  BY <1>2, CellEditsAfter
<1>4. {d \in EditsInForce' : d.cell # c} = {d \in EditsInForce : d.cell # c}
  BY <1>1, OtherEdits
<1> QED
  BY <1>3, <1>4

(* Replacing it puts the new edit in its place. *)
LEMMA EditsAfterReplace ==
    ASSUME TypeOK, NEW e \in Clients, Standing(e), tx[e].pc = "checked",
           NEW reason \in Reasons, NEW planilla \in Values, Replace(e, reason, planilla),
           NEW c, c = tx[e].cell
    PROVE  EditsInForce' = {d \in EditsInForce : d.cell # c}
             \cup {[cell |-> c, web |-> tx[e].value, planilla |-> planilla]}
PROOF
<1> SUFFICES ASSUME NEW m, m = lastId + 1,
                    NEW new, new = [cell |-> c, web |-> tx[e].value, planilla |-> planilla]
             PROVE  EditsInForce' = {d \in EditsInForce : d.cell # c} \cup {new}
  OBVIOUS
<1>1. /\ CellWritten(c) /\ lastId' = m
      /\ overrides'[m] = NewRow(e, planilla)
      /\ \A k \in 1 .. lastId : overrides'[k].state = "active" => overrides[k].cell # c
  BY ReplaceWrites
<1>2. /\ lastId \in Nat /\ m \in 1 .. lastId'
      /\ \A k \in 1 .. lastId' : k # m => k \in 1 .. lastId
  BY <1>1 DEF TypeOK
<1>3. InForce(m)' /\ overrides'[m].cell = c /\ EditOf(m)' = new
  BY <1>1 DEF InForce, EditOf, NewRow
<1>4. m \in ActiveOn(c)'
  BY <1>2, <1>3 DEF ActiveOn
<1>5. \A k \in ActiveOn(c)' : k = m
  <2> SUFFICES ASSUME NEW k \in ActiveOn(c)', k # m PROVE FALSE
    OBVIOUS
  <2>1. k \in 1 .. lastId' /\ overrides'[k].state = "active" /\ overrides'[k].cell = c
    BY DEF ActiveOn, InForce
  <2>2. k \in 1 .. lastId
    BY <1>2, <2>1
  <2>3. overrides'[k].cell = overrides[k].cell
    BY <1>1, <2>2, RowsKept
  <2> QED
    BY <1>1, <2>1, <2>2, <2>3
<1>6. ActiveOn(c)' = {m}
  BY <1>4, <1>5
<1>7. {d \in EditsInForce' : d.cell = c} = {new}
  <2>1. {d \in EditsInForce' : d.cell = c} = {EditOf(n)' : n \in ActiveOn(c)'}
    BY CellEditsAfter
  <2>2. {EditOf(n)' : n \in ActiveOn(c)'} = {EditOf(m)'}
    BY <1>6
  <2> QED
    BY <1>3, <2>1, <2>2
<1>8. {d \in EditsInForce' : d.cell # c} = {d \in EditsInForce : d.cell # c}
  BY <1>1, OtherEdits
<1> QED
  BY <1>7, <1>8

(* A table that is left alone has the same edits. *)
LEMMA SameEdits ==
    ASSUME UNCHANGED <<overrides, lastId>>
    PROVE  EditsInForce' = EditsInForce
PROOF
  BY DEF EditsInForce, InForce

(* A save is one step of EditedCells, with the page's cell and version. *)
LEMMA SaveRefines ==
    ASSUME EditsInv, NEW e \in Clients, CommitSave(e)
    PROVE  [Abstract!Next]_(Abstract!vars)
PROOF
<1> SUFFICES ASSUME NEW i, i = active, NEW c, c = tx[e].cell, NEW v, v = tx[e].value,
                    NEW planilla, planilla = Source(i, c)
             PROVE  [Abstract!Next]_(Abstract!vars)
  OBVIOUS
<1>1. /\ tx[e].op = "save" /\ tx[e].pc = "checked"
      /\ UNCHANGED <<created, active, events, page>>
  BY SaveCommits
<1>2. /\ TypeOK /\ RowsRight /\ Standing(e) /\ tx[e].import = i
      /\ i \in Imports /\ i # NoImport /\ c \in Cells /\ v \in Typed
      /\ page[e].import = i /\ page[e].cell = c
      /\ InSource(i, c) /\ HasRow(i, c)
  BY <1>1, SaveReady
<1>3. /\ tx[e].id = NoId => ActiveOn(c) = {}
      /\ tx[e].id # NoId => /\ tx[e].id \in 1 .. lastId /\ ActiveOn(c) = {tx[e].id}
                            /\ overrides[tx[e].id].cell = c
  BY <1>1, SaveReady
<1>4. c # NoCell
  BY <1>2, EditsAssumption
<1>5. \/ tx[e].value = tx[e].seen /\ UNCHANGED <<overrides, lastId>>
      \/ /\ v # tx[e].seen /\ v = planilla
         /\ overrides' = IF tx[e].id = NoId THEN overrides ELSE Ended(tx[e].id, "discarded")
         /\ UNCHANGED lastId
      \/ v # tx[e].seen /\ v # planilla /\ Replace(e, "superseded", planilla)
  BY <1>2, SaveCommits
<1>6. CASE UNCHANGED <<overrides, lastId>> /\ v = tx[e].seen
  BY <1>1, <1>6, SameEdits DEF Abstract!vars
<1>7. ASSUME v # tx[e].seen,
             EditsInForce' = IF v = planilla THEN {d \in EditsInForce : d.cell # c}
                             ELSE {d \in EditsInForce : d.cell # c}
                                    \cup {[cell |-> c, web |-> v, planilla |-> planilla]}
      PROVE  [Abstract!Next]_(Abstract!vars)
  <2> DEFINE served == tx[e].seen
  <2>1. served = Effective(i, c) /\ ShownValue(served) = page[e].shown
    BY <1>1, <1>2 DEF Standing, SawCell
  <2>2. served \in Values /\ Abstract!Serves(i, c, served)
    BY <1>2, <2>1, EffectiveIsValue, ServesEffective
  <2>3. \E w \in Values : /\ Abstract!Serves(i, c, w)
                          /\ Abstract!ShownValue(w) = page[e].shown
                          /\ w # v
    BY <1>7, <2>1, <2>2, SameReading
  <2>4. Abstract!InSource(i, c) /\ Abstract!Source(i, c) = planilla
    BY <1>2, SameReading
  <2>5. Abstract!Save(e, v)
    BY <1>1, <1>2, <1>4, <1>7, <2>3, <2>4 DEF Abstract!Save
  <2>6. v \in Abstract!Typed
    BY <1>2, SameReading
  <2> QED
    BY <2>5, <2>6 DEF Abstract!Next
<1>8. CASE v # tx[e].seen /\ v = planilla /\ tx[e].id = NoId /\ UNCHANGED <<overrides, lastId>>
  <2>1. {d \in EditsInForce : d.cell = c} = {}
    BY <1>3, <1>8, CellEdits
  <2>2. EditsInForce' = {d \in EditsInForce : d.cell # c}
    BY <1>8, <2>1, SameEdits
  <2> QED
    BY <1>7, <1>8, <2>2
<1>9. CASE /\ v # tx[e].seen /\ v = planilla /\ tx[e].id # NoId
           /\ overrides' = Ended(tx[e].id, "discarded") /\ lastId' = lastId
  <2>1. EditsInForce' = {d \in EditsInForce : d.cell # c}
    BY <1>2, <1>3, <1>9, EditsAfterEnd DEF Reasons
  <2> QED
    BY <1>7, <1>9, <2>1
<1>10. CASE v # tx[e].seen /\ v # planilla /\ Replace(e, "superseded", planilla)
  <2>1. planilla \in Values
    BY <1>2, SourceIsValue
  <2>2. EditsInForce' = {d \in EditsInForce : d.cell # c}
                          \cup {[cell |-> c, web |-> v, planilla |-> planilla]}
    BY <1>1, <1>2, <1>10, <2>1, EditsAfterReplace DEF Reasons
  <2> QED
    BY <1>7, <1>10, <2>2
<1> QED
  BY <1>5, <1>6, <1>8, <1>9, <1>10

(* A discard takes its edit away, if it is still in force. *)
LEMMA DiscardRefines ==
    ASSUME EditsInv, NEW e \in Clients, CommitDiscard(e)
    PROVE  [Abstract!Next]_(Abstract!vars)
PROOF
<1> SUFFICES ASSUME NEW id, id = tx[e].id, NEW c, c = overrides[id].cell
             PROVE  [Abstract!Next]_(Abstract!vars)
  OBVIOUS
<1>1. /\ TypeOK /\ RowsRight /\ UNCHANGED <<created, active, events, lastId, page>>
      /\ id \in 1 .. lastId /\ overrides' = Ended(id, "discarded")
  BY DiscardReady
<1>2. CASE InForce(id)
  <2>1. ActiveOn(c) = {id}
    BY <1>1, <1>2 DEF RowsRight, OneActive, ActiveOn
  <2>2. EditsInForce' = {d \in EditsInForce : d.cell # c}
    BY <1>1, <2>1, EditsAfterEnd DEF Reasons
  <2>3. {d \in EditsInForce : d.cell = c} = {EditOf(id)}
    BY <2>1, CellEdits
  <2>4. EditOf(id) \in EditsInForce /\ EditsInForce' = EditsInForce \ {EditOf(id)}
    BY <2>2, <2>3
  <2>5. Abstract!Discard(EditOf(id))
    BY <1>1, <2>4 DEF Abstract!Discard
  <2> QED
    BY <2>4, <2>5 DEF Abstract!Next
<1>3. CASE ~InForce(id)
  <2>1. overrides' = [overrides EXCEPT ![id].state = overrides[id].state]
    BY <1>1, <1>3 DEF Ended, InForce
  <2>2. overrides' = overrides
    <3>1. overrides \in [1 .. lastId -> Override] /\ overrides[id] \in Override
      BY <1>1 DEF TypeOK
    <3>2. overrides' = [overrides EXCEPT ![id] = [overrides[id] EXCEPT !.state = overrides[id].state]]
      BY <2>1
    <3>3. [overrides[id] EXCEPT !.state = overrides[id].state] = overrides[id]
      BY <3>1, SameRow
    <3>4. overrides' = [overrides EXCEPT ![id] = overrides[id]]
      BY <3>2, <3>3
    <3> QED
      BY <1>1, <3>1, <3>4
  <2> QED
    BY <1>1, <2>2, SameEdits DEF Abstract!vars
<1> QED
  BY <1>2, <1>3

(* A keep anchors its edit anew. *)
LEMMA KeepRefines ==
    ASSUME EditsInv, NEW e \in Clients, CommitKeep(e)
    PROVE  [Abstract!Next]_(Abstract!vars)
PROOF
<1> SUFFICES ASSUME NEW i, i = active, NEW id, id = tx[e].id, NEW c, c = tx[e].cell,
                    NEW seen, seen = tx[e].seen
             PROVE  [Abstract!Next]_(Abstract!vars)
  OBVIOUS
<1>1. /\ TypeOK /\ RowsRight /\ Standing(e) /\ tx[e].pc = "checked"
      /\ UNCHANGED <<created, active, events, page>>
      /\ Replace(e, "kept", seen) /\ seen \in Values
      /\ id \in 1 .. lastId /\ overrides[id].cell = c /\ ActiveOn(c) = {id}
      /\ tx[e].value = overrides[id].web
      /\ i \in Imports /\ seen = Source(i, c)
      /\ Status(overrides[id], i) = "en_conflicto"
  BY KeepReady, KeepAnchors
<1> DEFINE d == EditOf(id)
           new == [cell |-> c, web |-> tx[e].value, planilla |-> seen]
<1>2. EditsInForce' = {b \in EditsInForce : b.cell # c} \cup {new}
  BY <1>1, EditsAfterReplace DEF Reasons
<1>3. {b \in EditsInForce : b.cell = c} = {d}
  BY <1>1, CellEdits
<1>4. d \in EditsInForce /\ EditsInForce \ {d} = {b \in EditsInForce : b.cell # c}
  BY <1>3
<1>5. new = [d EXCEPT !.planilla = Source(i, d.cell)]
  BY <1>1 DEF EditOf
<1>6. Abstract!Status(d, i) = "en_conflicto" /\ i # NoImport
  BY <1>1, EditLikeRow, SameReading, PlanillaAssumption
<1>7. Abstract!Source(i, d.cell) = Source(i, d.cell)
  BY SameReading
<1> HIDE DEF d, new
<1>8. Abstract!Keep(d)
  BY <1>1, <1>2, <1>4, <1>5, <1>6, <1>7 DEF Abstract!Keep
<1> QED
  BY <1>4, <1>8 DEF Abstract!Next

(* A publication keeps the edits the new version does not carry. *)
LEMMA ActivateRefines ==
    ASSUME EditsInv, NEW e \in Clients, CommitActivate(e)
    PROVE  [Abstract!Next]_(Abstract!vars)
PROOF
<1> SUFFICES ASSUME NEW i, i = tx[e].import PROVE [Abstract!Next]_(Abstract!vars)
  OBVIOUS
<1>1. tx[e].pc = "activating" /\ UNCHANGED <<created, lastId, page>>
  BY DEF CommitActivate
<1>2. TypeOK /\ i \in Imports
  BY <1>1, ActivateReady
<1>3. CASE i \notin created
  BY <1>1, <1>3, SameEdits DEF CommitActivate, Abstract!vars
<1>4. CASE i \in created
  <2>1. active' = i /\ overrides' = Retired(i)
    BY <1>4 DEF CommitActivate
  <2>2. \A n \in 1 .. lastId :
          /\ overrides'[n].cell = overrides[n].cell
          /\ overrides'[n].web = overrides[n].web
          /\ overrides'[n].planilla = overrides[n].planilla
          /\ overrides'[n].state = "active" <=> InForce(n) /\ ~Retires(i, overrides[n])
    BY <1>1, <1>2, <2>1, RetireWrites
  <2>3. \A n \in 1 .. lastId :
          /\ EditOf(n)' = EditOf(n)
          /\ InForce(n)' <=> InForce(n) /\ ~Retires(i, EditOf(n))
    BY <2>2, EditLikeRow DEF EditOf, InForce
  <2>4. ASSUME NEW d \in EditsInForce' PROVE d \in EditsInForce /\ ~Retires(i, d)
    <3>1. PICK n \in 1 .. lastId : InForce(n)' /\ d = EditOf(n)'
      BY <1>1, InForceEditsAfter
    <3> QED
      BY <2>3, <3>1, InForceEdits
  <2>5. ASSUME NEW d \in EditsInForce, ~Retires(i, d) PROVE d \in EditsInForce'
    <3>1. PICK n \in 1 .. lastId : InForce(n) /\ d = EditOf(n)
      BY InForceEdits
    <3>2. InForce(n)' /\ d = EditOf(n)'
      BY <2>3, <2>5, <3>1
    <3> QED
      BY <1>1, <3>1, <3>2, InForceEditsAfter
  <2>6. EditsInForce' = {d \in EditsInForce : ~Abstract!Retires(i, d)}
    BY <2>4, <2>5, SameReading
  <2>7. Abstract!Publish(i)
    BY <1>1, <2>1, <2>6 DEF Abstract!Publish
  <2> QED
    BY <1>2, <2>7 DEF Abstract!Next
<1> QED
  BY <1>3, <1>4

(* Browsers read the same pages. *)
LEMMA LoadVersionRefines ==
    ASSUME EditsInv, NEW e \in Clients, LoadVersion(e)
    PROVE  [Abstract!Next]_(Abstract!vars)
PROOF
<1>1. EditsInForce' = EditsInForce
  BY SameEdits DEF LoadVersion
<1>2. Abstract!LoadVersion(e)
  BY <1>1 DEF LoadVersion, Abstract!LoadVersion
<1> QED
  BY <1>2 DEF Abstract!Next

LEMMA LoadRowRefines ==
    ASSUME EditsInv, NEW e \in Clients, NEW c \in Cells, LoadRow(e, c)
    PROVE  [Abstract!Next]_(Abstract!vars)
PROOF
<1> SUFFICES ASSUME NEW i, i = page[e].import PROVE [Abstract!Next]_(Abstract!vars)
  OBVIOUS
<1>1. EditsInForce' = EditsInForce
  BY SameEdits DEF LoadRow
<1>2. TypeOK
  BY DEF EditsInv
<1>3. /\ i # NoImport /\ HasRow(i, c) /\ UNCHANGED active
      /\ page' = [page EXCEPT ![e].cell = c, ![e].shown = ShownValue(Effective(i, c))]
  BY DEF LoadRow
<1>4. i \in Imports
  BY <1>2, <1>3 DEF TypeOK
<1>5. Effective(i, c) \in Values /\ Abstract!Serves(i, c, Effective(i, c))
  BY <1>2, <1>4, EffectiveIsValue, ServesEffective
<1>6. Abstract!ShownValue(Effective(i, c)) = ShownValue(Effective(i, c)) /\ Abstract!HasRow(i, c)
  BY <1>3, SameReading
<1>7. \E v \in Values :
        /\ Abstract!Serves(i, c, v)
        /\ page' = [page EXCEPT ![e].cell = c, ![e].shown = Abstract!ShownValue(v)]
  BY <1>3, <1>5, <1>6
<1>8. Abstract!LoadRow(e, c)
  BY <1>1, <1>3, <1>6, <1>7 DEF Abstract!LoadRow
<1> QED
  BY <1>8 DEF Abstract!Next

(* Every other step is invisible. *)
LEMMA AbstractStep ==
    ASSUME EditsInv, [Next]_vars
    PROVE  [Abstract!Next]_(Abstract!vars)
PROOF
<1>1. ASSUME UNCHANGED <<active, overrides, lastId, page>>
      PROVE  [Abstract!Next]_(Abstract!vars)
  BY <1>1, SameEdits DEF Abstract!vars
<1>2. \/ UNCHANGED <<active, overrides, lastId, page>>
      \/ \E e \in Clients :
           \/ LoadVersion(e)
           \/ \E c \in Cells : LoadRow(e, c)
           \/ CommitSave(e) \/ CommitDiscard(e) \/ CommitKeep(e) \/ CommitActivate(e)
  BY DEF Next, EditStep, Validate, BeginSave, BeginById, BeginActivate, LockCell, CheckSave,
         CheckKeep, Rollback, vars
<1> QED
  BY <1>1, <1>2, LoadVersionRefines, LoadRowRefines, SaveRefines, DiscardRefines, KeepRefines,
     ActivateRefines

LEMMA AbstractInit == Init => Abstract!Init
PROOF
<1> SUFFICES ASSUME Init PROVE Abstract!Init
  OBVIOUS
<1>1. EditsInForce = {}
  BY DEF Init, EditsInForce
<1> QED
  BY <1>1 DEF Init, Abstract!Init

(* The web edits are atomic: for any number of clients, versions and cells,  *)
(* every interleaving of the transactions of transelec_overrides.py and      *)
(* transelec_publication.py is a behaviour of EditedCells, in which a save   *)
(* is a compare-and-set on the version and the value its author saw.         *)
THEOREM EditsCorrect == Spec => EditsAreAtomic
PROOF
<1>1. EditsInv /\ [Next]_vars => [Abstract!Next]_(Abstract!vars)
  BY AbstractStep
<1> QED
  BY <1>1, AbstractInit, EditsInvariant, PTL DEF Spec, EditsAreAtomic, Abstract!Spec

=============================================================================
