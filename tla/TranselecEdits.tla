---------------------------- MODULE TranselecEdits ----------------------------
(***************************************************************************)
(* Publication and web edits of the Transelec dashboard:                    *)
(*                                                                         *)
(*   - transelec_publication.py   activate_import                          *)
(*   - transelec_overrides.py     save, discard, keep, retire              *)
(*   - routers/transelec.py, routers/transelec_edits.py   the requests     *)
(*   - migration 0012             the views the values are read through    *)
(*                                                                         *)
(* Every request is one PostgreSQL transaction at READ COMMITTED, cut here  *)
(* where it waits for a lock, where it has read what it will decide on, and *)
(* where it commits.  Locks are released by commit and rollback, so who     *)
(* holds them follows from where each transaction is:                       *)
(*                                                                         *)
(*   shared, locked, checked   the singleton dashboard-state row FOR SHARE  *)
(*   locked, checked           the advisory lock of the request's cell      *)
(*   activating                the singleton row FOR UPDATE                 *)
(***************************************************************************)
EXTENDS PlanillaCells, Naturals, Sequences, FiniteSets

CONSTANTS
    Clients,        \* browser sessions of operators; one request at a time each
    Warned,         \* imports validated with warnings
    MaxOverrides,   \* bound: rows of transelec_field_override
    MaxEvents       \* bound: rows of transelec_publish_event

NoCell == "no cell"

NoId == 0

ASSUME EditsAssumption ==
    /\ Warned \subseteq Imports
    /\ MaxOverrides \in Nat
    /\ MaxEvents \in Nat
    /\ NoCell \notin Cells

VARIABLES
    created,    \* imports committed by validate-and-project
    active,     \* transelec_dashboard_state.active_import_id
    events,     \* transelec_publish_event with its audit record
    overrides,  \* platform.transelec_field_override
    lastId,     \* the last id inserted there
    page,       \* what each client's browser shows of the cell it edits
    tx          \* each client's request in progress

vars == <<created, active, events, overrides, lastId, page, tx>>

Override ==
    [cell : Cells, web : Values, planilla : Values, base : Imports,
     state : {"active", "superseded", "discarded", "kept", "incorporated"}]

Event ==
    [import : Imports, type : {"publish", "restore"}, acknowledged : BOOLEAN,
     previous : Imports \cup {NoImport}]

Request ==
    [op : {"none", "save", "discard", "keep", "publish", "restore"},
     pc : {"idle", "shared", "locked", "checked", "activating"},
     cell : Cells \cup {NoCell},
     value : Values,                        \* the web value to store
     seen : Values,                         \* the effective or planilla value read
     id : Nat,                              \* the edit to end, or NoId
     import : Imports \cup {NoImport},      \* the version edited or activated
     previous : Imports \cup {NoImport}]

Idle ==
    [op |-> "none", pc |-> "idle", cell |-> NoCell, value |-> Blank,
     seen |-> Blank, id |-> NoId, import |-> NoImport, previous |-> NoImport]

(* The type invariant: every row, page and request is well formed, and edits *)
(* are numbered without gaps.                                                *)
TypeOK ==
    /\ created \subseteq Imports
    /\ active \in Imports \cup {NoImport}
    /\ events \in Seq(Event)
    /\ lastId \in Nat
    /\ overrides \in [1 .. lastId -> Override]
    /\ page \in [Clients -> [import : Imports \cup {NoImport},
                             cell : Cells \cup {NoCell}, shown : Values]]
    /\ tx \in [Clients -> Request]

Init ==
    /\ created = {}
    /\ active = NoImport
    /\ events = << >>
    /\ overrides = << >>
    /\ lastId = 0
    /\ page = [e \in Clients |->
                 [import |-> NoImport, cell |-> NoCell, shown |-> Blank]]
    /\ tx = [e \in Clients |-> Idle]

----------------------------------------------------------------------------
(* The views of migration 0012 *)

(* ended_at IS NULL *)
InForce(n) == overrides[n].state = "active"

ActiveOn(c) == {n \in 1 .. lastId : InForce(n) /\ overrides[n].cell = c}

(* platform.transelec_effective_row: at most one edit of a cell applies. *)
Effective(i, c) ==
    LET applied == {n \in ActiveOn(c) : Status(overrides[n], i) = "aplicada"}
    IN  IF applied = {} THEN Source(i, c)
        ELSE overrides[CHOOSE n \in applied : TRUE].web

----------------------------------------------------------------------------
(* Locks *)

(* SELECT ... FOR SHARE on the singleton waits for FOR UPDATE only. *)
ShareFree == \A e \in Clients : tx[e].pc # "activating"

(* Fault: activation does not wait for edits in progress. *)
ExclusiveFreeOfActivations == \A e \in Clients : tx[e].pc # "activating"

(* Fault: the singleton row is read without a lock. *)
ExclusiveFreeAlways == TRUE

(* SELECT ... FOR UPDATE waits for every other holder. *)
ExclusiveFree ==
    \A e \in Clients : tx[e].pc \notin {"shared", "locked", "checked", "activating"}

(* pg_advisory_xact_lock on the cell. *)
CellFree(c) ==
    \A e \in Clients : tx[e].pc \in {"locked", "checked"} => tx[e].cell # c

(* The bound: room in the table for every insert in progress. *)
HasRoom ==
    lastId + Cardinality({e \in Clients : tx[e].op \in {"save", "keep"}}) < MaxOverrides

(* Commit or rollback, which release the locks. *)
End(e) == tx' = [tx EXCEPT ![e] = Idle]

----------------------------------------------------------------------------
(* Requests that only read *)

(* validate_and_project commits an import; for a snapshot that has one it    *)
(* returns that one.                                                         *)
Validate(i) ==
    /\ created' = created \cup {i}
    /\ UNCHANGED <<active, events, overrides, lastId, page, tx>>

(* A browser reads the active version, and in another statement a row of the *)
(* version it has read.                                                      *)
LoadVersion(e) ==
    /\ tx[e].pc = "idle"
    /\ active # NoImport
    /\ page' = [page EXCEPT ![e] =
                  [import |-> active, cell |-> NoCell, shown |-> Blank]]
    /\ UNCHANGED <<created, active, events, overrides, lastId, tx>>

LoadRow(e, c) ==
    /\ tx[e].pc = "idle"
    /\ page[e].import # NoImport
    /\ HasRow(page[e].import, c)
    /\ page' = [page EXCEPT ![e].cell = c,
                            ![e].shown = ShownValue(Effective(page[e].import, c))]
    /\ UNCHANGED <<created, active, events, overrides, lastId, tx>>

----------------------------------------------------------------------------
(* Statements that end and insert edits *)

(* _end: WHERE id AND ended_at IS NULL. *)
Ended(n, reason) ==
    [overrides EXCEPT ![n].state = IF @ = "active" THEN reason ELSE @]

(* INSERT with the next identity value. *)
Inserted(rows, e, planilla) ==
    [n \in 1 .. lastId + 1 |->
        IF n \in 1 .. lastId THEN rows[n]
        ELSE [cell |-> tx[e].cell, web |-> tx[e].value, planilla |-> planilla,
              base |-> tx[e].import, state |-> "active"]]

(* Fault: the value the edit was anchored to before is kept. *)
ReplaceWithoutReanchoring(e, reason, planilla) ==
    LET rows == IF tx[e].id = NoId THEN overrides ELSE Ended(tx[e].id, reason)
        old == IF tx[e].id = NoId THEN planilla ELSE overrides[tx[e].id].planilla
    IN  /\ overrides' = Inserted(rows, e, old)
        /\ lastId' = lastId + 1

(* End the edit that was found and insert its successor.  The partial unique *)
(* index uq_transelec_field_override_active_cell makes the insert fail, and  *)
(* the transaction roll back, if another edit of the cell is still active.   *)
Replace(e, reason, planilla) ==
    LET rows == IF tx[e].id = NoId THEN overrides ELSE Ended(tx[e].id, reason)
    IN  IF ActiveOn(tx[e].cell) \ {tx[e].id} # {}
        THEN UNCHANGED <<overrides, lastId>>
        ELSE /\ overrides' = Inserted(rows, e, planilla)
             /\ lastId' = lastId + 1

----------------------------------------------------------------------------
(* save_override *)

(* The version check under FOR SHARE, and the checks on field and row.  A    *)
(* refused request changes nothing.                                          *)
BeginSave(e, v) ==
    /\ tx[e].pc = "idle"
    /\ ShareFree
    /\ active # NoImport
    /\ page[e].import = active
    /\ page[e].cell # NoCell
    /\ InSource(active, page[e].cell)
    /\ HasRow(active, page[e].cell)
    /\ HasRoom
    /\ tx' = [tx EXCEPT ![e] = [Idle EXCEPT !.op = "save", !.pc = "shared",
                                            !.cell = page[e].cell, !.value = v,
                                            !.import = active]]
    /\ UNCHANGED <<created, active, events, overrides, lastId, page>>

(* discard_override: any edit of the table; keep_override: a published       *)
(* version must exist.  _lock_cell_of_override reads the edit's cell.        *)
BeginById(e, op, n) ==
    /\ tx[e].pc = "idle"
    /\ ShareFree
    /\ op = "keep" => active # NoImport /\ HasRoom
    /\ tx' = [tx EXCEPT ![e] = [Idle EXCEPT !.op = op, !.pc = "shared",
                                            !.cell = overrides[n].cell, !.id = n,
                                            !.import = active]]
    /\ UNCHANGED <<created, active, events, overrides, lastId, page>>

(* _lock_cell waits for the other edit of the cell to commit. *)
LockCell(e) ==
    /\ tx[e].pc = "shared"
    /\ CellFree(tx[e].cell)
    /\ tx' = [tx EXCEPT ![e].pc = "locked"]
    /\ UNCHANGED <<created, active, events, overrides, lastId, page>>

(* Fault: the transaction of a refused save is not ended. *)
CheckSaveLeaking(e) ==
    LET effective == Effective(tx[e].import, tx[e].cell)
    IN  /\ tx[e].op = "save" /\ tx[e].pc = "locked"
        /\ ShownValue(effective) = page[e].shown
        /\ tx' = [tx EXCEPT ![e].pc = "checked",
                            ![e].seen = effective,
                            ![e].id = IF ActiveOn(tx[e].cell) = {} THEN NoId
                                      ELSE CHOOSE n \in ActiveOn(tx[e].cell) : TRUE]
        /\ UNCHANGED <<created, active, events, overrides, lastId, page>>

(* Under both locks: the effective value, compared with the page's, and the  *)
(* active edit of the cell.  Another value: 409 value_changed, rolled back.  *)
CheckSave(e) ==
    LET effective == Effective(tx[e].import, tx[e].cell)
    IN  /\ tx[e].op = "save" /\ tx[e].pc = "locked"
        /\ IF ShownValue(effective) # page[e].shown
           THEN End(e)
           ELSE tx' = [tx EXCEPT ![e].pc = "checked",
                                 ![e].seen = effective,
                                 ![e].id = IF ActiveOn(tx[e].cell) = {} THEN NoId
                                           ELSE CHOOSE n \in ActiveOn(tx[e].cell) : TRUE]
        /\ UNCHANGED <<created, active, events, overrides, lastId, page>>

(* The submitted value against the effective one and the planilla's: no      *)
(* change, back to the planilla, or a new edit.  Commit.                     *)
CommitSave(e) ==
    LET planilla == Source(tx[e].import, tx[e].cell)
    IN  /\ tx[e].op = "save" /\ tx[e].pc = "checked"
        /\ CASE tx[e].value = tx[e].seen ->
                  UNCHANGED <<overrides, lastId>>
             [] tx[e].value # tx[e].seen /\ tx[e].value = planilla ->
                  /\ overrides' = IF tx[e].id = NoId THEN overrides
                                  ELSE Ended(tx[e].id, "discarded")
                  /\ UNCHANGED lastId
             [] OTHER ->
                  Replace(e, "superseded", planilla)
        /\ End(e)
        /\ UNCHANGED <<created, active, events, page>>

----------------------------------------------------------------------------
(* discard_override and keep_override *)

(* Fault: an edit that has ended is discarded again. *)
CommitDiscardOfEnded(e) ==
    /\ tx[e].op = "discard" /\ tx[e].pc = "locked"
    /\ overrides' = [overrides EXCEPT ![tx[e].id].state = "discarded"]
    /\ End(e)
    /\ UNCHANGED <<created, active, events, lastId, page>>

(* The edit ends if it is still active; otherwise 404, and nothing changes.  *)
CommitDiscard(e) ==
    /\ tx[e].op = "discard" /\ tx[e].pc = "locked"
    /\ overrides' = Ended(tx[e].id, "discarded")
    /\ End(e)
    /\ UNCHANGED <<created, active, events, lastId, page>>

(* The edit must be active and contradicted by the version that is served;   *)
(* otherwise 404 or 409, rolled back.                                        *)
CheckKeep(e) ==
    LET o == overrides[tx[e].id]
    IN  /\ tx[e].op = "keep" /\ tx[e].pc = "locked"
        /\ IF o.state = "active" /\ Status(o, tx[e].import) = "en_conflicto"
           THEN tx' = [tx EXCEPT ![e].pc = "checked", ![e].value = o.web,
                                 ![e].seen = Source(tx[e].import, o.cell)]
           ELSE End(e)
        /\ UNCHANGED <<created, active, events, overrides, lastId, page>>

CommitKeep(e) ==
    /\ tx[e].op = "keep" /\ tx[e].pc = "checked"
    /\ Replace(e, "kept", tx[e].seen)
    /\ End(e)
    /\ UNCHANGED <<created, active, events, page>>

----------------------------------------------------------------------------
(* publish_import and restore_import *)

(* activate_import waits for FOR UPDATE and reads the previous version.      *)
(* publish_import refuses an import with warnings unless the caller          *)
(* acknowledges them, which changes nothing; restore_import looks at no      *)
(* warnings.                                                                 *)
BeginActivate(e, i, op) ==
    /\ tx[e].pc = "idle"
    /\ ExclusiveFree
    /\ Len(events) < MaxEvents
    /\ tx' = [tx EXCEPT ![e] = [Idle EXCEPT !.op = op, !.pc = "activating",
                                            !.import = i, !.previous = active]]
    /\ UNCHANGED <<created, active, events, overrides, lastId, page>>

(* Fault: edits the planilla carries are left active. *)
RetiredNothing(i) == overrides

(* retire_incorporated_overrides *)
Retired(i) ==
    [n \in 1 .. lastId |->
        IF InForce(n) /\ Retires(i, overrides[n])
        THEN [overrides[n] EXCEPT !.state = "incorporated"]
        ELSE overrides[n]]

(* The row of transelec_publish_event, with previous_import_id of its audit *)
(* record.                                                                  *)
EventOf(e) ==
    [import |-> tx[e].import, type |-> tx[e].op,
     acknowledged |-> tx[e].op = "publish" /\ tx[e].import \in Warned,
     previous |-> tx[e].previous]

(* The rest of activate_import and the retirement, in one transaction.  An   *)
(* import that does not exist: 404, rolled back.                             *)
CommitActivate(e) ==
    /\ tx[e].pc = "activating"
    /\ IF tx[e].import \in created
       THEN /\ active' = tx[e].import
            /\ events' = Append(events, EventOf(e))
            /\ overrides' = Retired(tx[e].import)
       ELSE UNCHANGED <<active, events, overrides>>
    /\ End(e)
    /\ UNCHANGED <<created, lastId, page>>

(* A connection or a server process dies: PostgreSQL rolls the transaction   *)
(* back and releases its locks.                                              *)
Rollback(e) ==
    /\ tx[e].pc # "idle"
    /\ End(e)
    /\ UNCHANGED <<created, active, events, overrides, lastId, page>>

EditStep(e) ==
    \/ LockCell(e)
    \/ CheckSave(e) \/ CommitSave(e)
    \/ CommitDiscard(e)
    \/ CheckKeep(e) \/ CommitKeep(e)
    \/ CommitActivate(e)

Next ==
    \/ \E i \in Imports : Validate(i)
    \/ \E e \in Clients :
         \/ LoadVersion(e)
         \/ \E c \in Cells : LoadRow(e, c)
         \/ \E v \in Typed : BeginSave(e, v)
         \/ \E op \in {"discard", "keep"}, n \in 1 .. lastId : BeginById(e, op, n)
         \/ \E i \in Imports, op \in {"publish", "restore"} : BeginActivate(e, i, op)
         \/ EditStep(e)
         \/ Rollback(e)

Spec == Init /\ [][Next]_vars

----------------------------------------------------------------------------
(* Properties *)

(* The web edits are atomic: however requests interleave, every one of them  *)
(* acts as a single step of EditedCells.  In particular a save commits only  *)
(* if the version and the value its author saw are still the ones served at  *)
(* the commit, the guarantee behind the version_changed and value_changed    *)
(* answers of save_field_override.                                           *)
EditsInForce ==
    {[cell |-> overrides[n].cell, web |-> overrides[n].web,
      planilla |-> overrides[n].planilla] : n \in {k \in 1 .. lastId : InForce(k)}}

Abstract == INSTANCE EditedCells WITH edits <- EditsInForce

EditsAreAtomic == Abstract!Spec

(* The unique index on active edits is a safety net that never fires: when a *)
(* save or a keep is about to insert, the edit it ends is the only active    *)
(* one of its cell.                                                          *)
IndexNeverFires ==
    \A e \in Clients :
        tx[e].pc = "checked" => ActiveOn(tx[e].cell) \subseteq {tx[e].id}

(* Whatever was published or edited since, no edit stays active that the     *)
(* published planilla already carries in a column of its own: activation     *)
(* retires those edits, and an edit or a keep racing with it cannot leave    *)
(* one behind.                                                               *)
NothingLeftToRetire ==
    active # NoImport =>
        \A n \in 1 .. lastId : InForce(n) => ~Retires(active, overrides[n])

(* Every edit, active or ended, records a real difference with the version   *)
(* it was made on: its anchor is what that version holds in its cell, so it  *)
(* applied when it was saved or kept.                                        *)
AnchoredToBase ==
    \A n \in 1 .. lastId :
        /\ overrides[n].planilla = Source(overrides[n].base, overrides[n].cell)
        /\ overrides[n].web # overrides[n].planilla
        /\ Status(overrides[n], overrides[n].base) = "aplicada"

(* The publication trail is a chain: every event names as previous the       *)
(* version the event before it activated, and the last one is served.        *)
TrailChains ==
    /\ \A k \in 1 .. Len(events) :
         events[k].previous = IF k = 1 THEN NoImport ELSE events[k - 1].import
    /\ active = IF events = << >> THEN NoImport ELSE events[Len(events)].import

(* A row changes only by ending, once, with its reason. *)
RowsOnlyEnd ==
    /\ lastId' >= lastId
    /\ \A n \in 1 .. lastId :
         overrides'[n] # overrides[n] =>
             /\ InForce(n)
             /\ overrides'[n] = [overrides[n] EXCEPT !.state = overrides'[n].state]

(* The edit table is the history: no request, save, discard, keep or          *)
(* publication, rewrites or deletes a row (transelec_overrides.py never       *)
(* updates more than the ending of an active row).                            *)
HistoryIsKept == [][RowsOnlyEnd]_vars

(* What publish_import says of warnings: an import validated with warnings   *)
(* is served only after a caller acknowledged them.                          *)
WarningsAcknowledged ==
    \A k \in 1 .. Len(events) :
        events[k].import \in Warned =>
            \E j \in 1 .. k : events[j].import = events[k].import
                              /\ events[j].acknowledged

(* Liveness: the loop of a transaction goes on until it commits, and         *)
(* advisory locks are granted in the order they were asked for.              *)
Fairness ==
    \A e \in Clients : WF_vars(EditStep(e)) /\ SF_vars(LockCell(e))

FairSpec == Spec /\ Fairness

(* Every request that has begun ends, committed or rolled back: editors of   *)
(* one cell never wait for each other for ever.                              *)
RequestsEnd == \A e \in Clients : tx[e].pc # "idle" ~> tx[e].pc = "idle"

=============================================================================
