--------------------------- MODULE ForestryReports ---------------------------
(***************************************************************************)
(* The management reports of Rodales (forestry_reports.py and               *)
(* routers/forestry_reports.py): drafts edited and reviewed by several      *)
(* people under optimistic locking by revision.                             *)
(*                                                                         *)
(* Every write locks the report row FOR UPDATE and reads it after that, so  *)
(* it is one action, with two exceptions that read other rows before they   *)
(* write: the name check, which the index on active names makes safe, and   *)
(* the copy of a report, which locks nothing.                               *)
(* A page is read in two statements, first the report row and then its      *)
(* features.  Polygons and their attributes are one value, a content.       *)
(***************************************************************************)
EXTENDS Naturals

CONSTANTS
    Reports,      \* report ids
    Names,        \* names, equal when lower(name) is
    Contents,     \* feature sets that pass the geometry rules
    EmptyContent, \* no features: a new report
    Marked,       \* contents with at least one feature in_report
    Users,        \* browser sessions of operators and admins
    MaxRevision   \* bound: no change beyond this revision

NoReport == "no report"

NoName == "no name"

ASSUME ReportsAssumption ==
    /\ EmptyContent \in Contents \ Marked
    /\ Marked \subseteq Contents
    /\ NoReport \notin Reports
    /\ NoName \notin Names
    /\ MaxRevision \in Nat

VARIABLES
    report,   \* forestry.report with report_feature and report_note
    page,     \* what each user's browser holds
    tx        \* each user's write in progress

vars == <<report, page, tx>>

Status == {"absent", "borrador", "enviado", "aprobado", "cambios_solicitados",
           "archivado", "deleted"}

Row ==
    [status : Status,
     name : Names \cup {NoName},
     content : Contents,
     revision : Nat,
     submitted : BOOLEAN,    \* submitted_at IS NOT NULL
     notes : Nat]            \* review notes of kind cambios_solicitados

Absent == [status |-> "absent", name |-> NoName, content |-> EmptyContent,
           revision |-> 0, submitted |-> FALSE, notes |-> 0]

(* header: the row has been read, its features have not. *)
Page ==
    [state : {"none", "header", "loaded"},
     report : Reports \cup {NoReport},
     name : Names \cup {NoName},
     content : Contents,
     revision : Nat]

NoPage == [state |-> "none", report |-> NoReport, name |-> NoName,
           content |-> EmptyContent, revision |-> 0]

(* creating, copying, copied: the name was found free.  renaming: the same,   *)
(* with the row lock held.                                                    *)
Write ==
    [pc : {"idle", "creating", "renaming", "copying", "copied"},
     report : Reports \cup {NoReport},
     name : Names \cup {NoName}]

NoWrite == [pc |-> "idle", report |-> NoReport, name |-> NoName]

(* The type invariant: rows, pages and writes in progress are well formed. *)
TypeOK ==
    /\ report \in [Reports -> Row]
    /\ page \in [Users -> Page]
    /\ tx \in [Users -> Write]

Init ==
    /\ report = [r \in Reports |-> Absent]
    /\ page = [u \in Users |-> NoPage]
    /\ tx = [u \in Users |-> NoWrite]

----------------------------------------------------------------------------

Exists(r) == report[r].status \notin {"absent", "deleted"}

Editable(r) == report[r].status \in {"borrador", "cambios_solicitados"}

(* Fault: the row is read without FOR UPDATE. *)
RowFreeAlways(r) == TRUE

(* SELECT ... FOR UPDATE waits for a rename in progress. *)
RowFree(r) == \A u \in Users : tx[u].pc = "renaming" => tx[u].report # r

(* _name_in_use: among reports that are not archived, except the given one. *)
NameFree(n, except) ==
    \A r \in Reports \ {except} :
        Exists(r) /\ report[r].status # "archivado" => report[r].name # n

(* uq_report_active_name: the names of committed rows that are not archived. *)
IndexAdmits(n, except) == NameFree(n, except)

(* A name inserted and not committed: the next insert of it waits. *)
NameHeld(n) == \E u \in Users : tx[u].pc = "copied" /\ tx[u].name = n

(* _lock and the checks every change makes: the row is free and exists, and  *)
(* the page holds its current revision.                                      *)
Current(u, r) ==
    /\ tx[u].pc = "idle"
    /\ page[u].state = "loaded"
    /\ page[u].report = r
    /\ RowFree(r)
    /\ Exists(r)
    /\ report[r].revision = page[u].revision
    /\ report[r].revision < MaxRevision

(* Fault: a write forgets _bump. *)
ChangeWithoutBump(r, row) == report' = [report EXCEPT ![r] = row]

(* The UPDATE of a change, and _bump. *)
Change(r, row) ==
    report' = [report EXCEPT ![r] = [row EXCEPT !.revision = @ + 1]]

(* The answer carries the new revision; it reaches the page or is lost. *)
Answer(u, shown) ==
    \/ page' = [page EXCEPT ![u] = [shown EXCEPT !.revision = @ + 1]]
    \/ UNCHANGED page

----------------------------------------------------------------------------
(* Reads *)

(* get_report_detail: get_report, and then list_report_features. *)
LoadHeader(u, r) ==
    /\ tx[u].pc = "idle"
    /\ Exists(r)
    /\ page' = [page EXCEPT ![u] =
                  [state |-> "header", report |-> r, name |-> report[r].name,
                   content |-> EmptyContent, revision |-> report[r].revision]]
    /\ UNCHANGED <<report, tx>>

LoadFeatures(u) ==
    /\ page[u].state = "header"
    /\ page' = [page EXCEPT ![u].state = "loaded",
                            ![u].content = IF Exists(page[u].report)
                                           THEN report[page[u].report].content
                                           ELSE EmptyContent]
    /\ UNCHANGED <<report, tx>>

----------------------------------------------------------------------------
(* create_report, and the other writes that choose a name.  A base snapshot  *)
(* is published throughout, as create_report requires.                       *)

CreateCheck(u, n) ==
    /\ tx[u].pc = "idle"
    /\ NameFree(n, NoReport)
    /\ tx' = [tx EXCEPT ![u] = [pc |-> "creating", report |-> NoReport, name |-> n]]
    /\ UNCHANGED <<report, page>>

(* The insert, or the error of the index when the name was taken meanwhile. *)
CreateInsert(u, r) ==
    /\ tx[u].pc = "creating"
    /\ ~NameHeld(tx[u].name)
    /\ report[r].status = "absent"
    /\ IF IndexAdmits(tx[u].name, NoReport)
       THEN report' = [report EXCEPT ![r] = [Absent EXCEPT !.status = "borrador",
                                                           !.name = tx[u].name,
                                                           !.revision = 1]]
       ELSE UNCHANGED report
    /\ tx' = [tx EXCEPT ![u] = NoWrite]
    /\ UNCHANGED page

(* update_report_header with a name: the row is locked and the name checked. *)
RenameCheck(u, r, n) ==
    /\ Current(u, r)
    /\ Editable(r)
    /\ NameFree(n, r)
    /\ tx' = [tx EXCEPT ![u] = [pc |-> "renaming", report |-> r, name |-> n]]
    /\ UNCHANGED <<report, page>>

RenameWrite(u) ==
    LET r == tx[u].report
    IN  /\ tx[u].pc = "renaming"
        /\ ~NameHeld(tx[u].name)
        /\ IF IndexAdmits(tx[u].name, r)
           THEN /\ Change(r, [report[r] EXCEPT !.name = tx[u].name])
                /\ Answer(u, [page[u] EXCEPT !.name = tx[u].name])
           ELSE UNCHANGED <<report, page>>
        /\ tx' = [tx EXCEPT ![u] = NoWrite]

(* update_report_header with only the CONAF number: until archived.  A new    *)
(* type or date alone changes as little, and only while editable.            *)
SetConaf(u, r) ==
    /\ Current(u, r)
    /\ report[r].status # "archivado"
    /\ Change(r, report[r])
    /\ Answer(u, page[u])
    /\ UNCHANGED tx

(* duplicate_report: the row and a free name, the new row, its features.     *)
(* Nothing is locked; the copy is visible when the transaction commits.      *)
CopyCheck(u, r, n) ==
    /\ tx[u].pc = "idle"
    /\ Exists(r)
    /\ n # report[r].name
    /\ NameFree(n, NoReport)
    /\ tx' = [tx EXCEPT ![u] = [pc |-> "copying", report |-> r, name |-> n]]
    /\ UNCHANGED <<report, page>>

(* INSERT ... SELECT finds no row, or the index refuses it, and the           *)
(* transaction fails; or the name is held until the copy commits.            *)
CopyInsert(u) ==
    /\ tx[u].pc = "copying"
    /\ ~NameHeld(tx[u].name)
    /\ tx' = [tx EXCEPT ![u] = IF Exists(tx[u].report) /\ IndexAdmits(tx[u].name, NoReport)
                               THEN [@ EXCEPT !.pc = "copied"]
                               ELSE NoWrite]
    /\ UNCHANGED <<report, page>>

(* The features the source has now: none if it was deleted meanwhile. *)
CopyFeatures(u, r) ==
    LET source == report[tx[u].report]
    IN  /\ tx[u].pc = "copied"
        /\ report[r].status = "absent"
        /\ report' = [report EXCEPT ![r] =
                        [Absent EXCEPT !.status = "borrador", !.name = tx[u].name,
                                       !.content = IF Exists(tx[u].report)
                                                   THEN source.content
                                                   ELSE EmptyContent,
                                       !.revision = 1]]
        /\ tx' = [tx EXCEPT ![u] = NoWrite]
        /\ UNCHANGED page

----------------------------------------------------------------------------
(* Writes of one locked row *)

(* save_report_features: the whole feature set is replaced. *)
SaveFeatures(u, r, c) ==
    /\ Current(u, r)
    /\ Editable(r)
    /\ Change(r, [report[r] EXCEPT !.content = c])
    /\ Answer(u, [page[u] EXCEPT !.content = c])
    /\ UNCHANGED tx

(* Fault: a draft can be approved without being sent. *)
AllowedFromDraft ==
    [submit          |-> {"borrador", "cambios_solicitados"},
     approve         |-> {"enviado", "borrador"},
     request_changes |-> {"enviado"},
     archive         |-> {"borrador", "enviado", "aprobado", "cambios_solicitados"}]

(* _TRANSITIONS *)
AllowedFrom ==
    [submit          |-> {"borrador", "cambios_solicitados"},
     approve         |-> {"enviado"},
     request_changes |-> {"enviado"},
     archive         |-> {"borrador", "enviado", "aprobado", "cambios_solicitados"}]

Target ==
    [submit          |-> "enviado",
     approve         |-> "aprobado",
     request_changes |-> "cambios_solicitados",
     archive         |-> "archivado"]

Actions == {"submit", "approve", "request_changes", "archive"}

(* What a transition writes; request_changes requires a note, and stores it. *)
Moved(row, action) ==
    [status |-> Target[action],
     name |-> row.name,
     content |-> row.content,
     revision |-> row.revision,
     submitted |-> row.submitted \/ action = "submit",
     notes |-> IF action = "request_changes" THEN row.notes + 1 ELSE row.notes]

(* transition_report *)
Transition(u, r, action) ==
    /\ Current(u, r)
    /\ report[r].status \in AllowedFrom[action]
    /\ action = "submit" => report[r].content \in Marked
    /\ Change(r, Moved(report[r], action))
    /\ Answer(u, page[u])
    /\ UNCHANGED tx

(* delete_report: a draft that was never submitted; no revision is sent. *)
Delete(u, r) ==
    /\ tx[u].pc = "idle"
    /\ RowFree(r)
    /\ report[r].status = "borrador"
    /\ ~report[r].submitted
    /\ report' = [report EXCEPT ![r].status = "deleted"]
    /\ UNCHANGED <<page, tx>>

(* A connection dies: the transaction rolls back. *)
Rollback(u) ==
    /\ tx[u].pc # "idle"
    /\ tx' = [tx EXCEPT ![u] = NoWrite]
    /\ UNCHANGED <<report, page>>

Next ==
    \E u \in Users :
        \/ LoadFeatures(u) \/ RenameWrite(u) \/ CopyInsert(u) \/ Rollback(u)
        \/ \E n \in Names : CreateCheck(u, n)
        \/ \E r \in Reports :
             \/ LoadHeader(u, r)
             \/ CreateInsert(u, r)
             \/ \E n \in Names : RenameCheck(u, r, n) \/ CopyCheck(u, r, n)
             \/ SetConaf(u, r)
             \/ CopyFeatures(u, r)
             \/ \E c \in Contents : SaveFeatures(u, r, c)
             \/ \E action \in Actions : Transition(u, r, action)
             \/ Delete(u, r)

Spec == Init /\ [][Next]_vars

----------------------------------------------------------------------------
(* Properties *)

(* "Nobody overwrites or approves a version they did not see": a page whose  *)
(* revision is still the stored one holds the stored name and features,      *)
(* although it was read in two statements and its answers may be lost.       *)
(* Every change and every decision requires such a page.                     *)
CurrentPageIsTrue ==
    \A u \in Users :
        LET r == page[u].report
        IN  page[u].state = "loaded" /\ Exists(r)
                /\ page[u].revision = report[r].revision
            => /\ page[u].name = report[r].name
               /\ page[u].content = report[r].content

(* What was sent for review is reviewable: a report that is submitted or     *)
(* approved has marked polygons, and one sent back has a note saying why.    *)
ReviewHasSubject ==
    \A r \in Reports :
        /\ report[r].status \in {"enviado", "aprobado"} =>
             report[r].content \in Marked /\ report[r].submitted
        /\ report[r].status = "cambios_solicitados" => report[r].notes > 0

(* An approved report is frozen: its polygons and its name never change      *)
(* again, and it can only be archived, so what viewers are shown is what was *)
(* approved.                                                                 *)
ApprovedIsFrozen ==
    \A r \in Reports :
      report[r].status = "aprobado" =>
          /\ report'[r].content = report[r].content
          /\ report'[r].name = report[r].name
          /\ report'[r].status \in {"aprobado", "archivado"}

(* A report that was ever submitted is never deleted: its review history     *)
(* stays.                                                                    *)
SubmittedIsKept ==
    \A r \in Reports : report[r].submitted =>
      report'[r].status # "deleted" /\ report'[r].notes >= report[r].notes

(* What was decided or sent for a decision stays: approved reports are       *)
(* frozen, submitted ones and their notes are kept.                          *)
ReviewedIsKept == [][ApprovedIsFrozen /\ SubmittedIsKept]_vars

(* "unique among non-archived reports, case-insensitive": however creations, *)
(* renames and copies that found the same name free interleave.              *)
UniqueNames ==
    \A r, s \in Reports :
        /\ Exists(r) /\ report[r].status # "archivado"
        /\ Exists(s) /\ report[s].status # "archivado"
        /\ report[r].name = report[s].name
        => r = s

(* The table of reports is in order: whatever is under review has a subject, *)
(* and the live reports have names of their own.                             *)
ReportsInOrder == ReviewHasSubject /\ UniqueNames

=============================================================================
