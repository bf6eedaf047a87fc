------------------------- MODULE ForestryPublication -------------------------
(***************************************************************************)
(* Which shapefile snapshot the Rodales dashboard serves                    *)
(* (forestry_publication.py, routers/forestry_workflow.py).                 *)
(*                                                                         *)
(* A publication takes two transactions: one that compares the pending      *)
(* snapshot with the published one and checks the acknowledgement, and one  *)
(* that locks the state row, checks again and flips it.  Between them other *)
(* reviewers may publish and restore.  The second transaction reads         *)
(* everything after its row lock, so it is one action.                      *)
(***************************************************************************)
EXTENDS Naturals, Sequences

CONSTANTS
    Snapshots,      \* contents a shapefile family may have
    NoSnapshot,     \* published_snapshot_id IS NULL
    Reviewers,      \* browser sessions of operators
    ReviewRequired, \* the pairs <<pending, published>> _review_required flags
    MaxEvents       \* bound: rows of forestry.publication_event

ASSUME PublicationAssumption ==
    /\ NoSnapshot \notin Snapshots
    /\ ReviewRequired \subseteq Snapshots \X (Snapshots \cup {NoSnapshot})
    /\ MaxEvents \in Nat

VARIABLES
    uploaded,    \* forestry.shapefile_snapshot
    published,   \* forestry.publication_state
    trail,       \* forestry.publication_event with its audit record
    review,      \* the version and its baseline on each reviewer's page
    request      \* each reviewer's publish call between its two transactions

pubVars == <<uploaded, published, trail, review, request>>

Event ==
    [snapshot : Snapshots, type : {"initial", "publish", "restore"},
     previous : Snapshots \cup {NoSnapshot}, acknowledged : BOOLEAN]

OpenPage == [snapshot : Snapshots \cup {NoSnapshot},
         expected : Snapshots \cup {NoSnapshot}]

NoReview == [snapshot |-> NoSnapshot, expected |-> NoSnapshot]

(* idle, or compared: the acknowledgement has been accepted. *)
Request == [pc : {"idle", "compared"}, acknowledged : BOOLEAN]

NoRequest == [pc |-> "idle", acknowledged |-> FALSE]

(* The type invariant: state row, trail, pages and requests are well formed. *)
PubTypeOK ==
    /\ uploaded \subseteq Snapshots
    /\ published \in Snapshots \cup {NoSnapshot}
    /\ trail \in Seq(Event)
    /\ review \in [Reviewers -> OpenPage]
    /\ request \in [Reviewers -> Request]

PubInit ==
    /\ uploaded = {}
    /\ published = NoSnapshot
    /\ trail = << >>
    /\ review = [r \in Reviewers |-> NoReview]
    /\ request = [r \in Reviewers |-> NoRequest]

EverPublished == {trail[k].snapshot : k \in 1 .. Len(trail)}

----------------------------------------------------------------------------

(* accept_forestry_upload: identical content resolves to its snapshot. *)
Upload(s) ==
    /\ uploaded' = uploaded \cup {s}
    /\ UNCHANGED <<published, trail, review, request>>

(* get_review, or the version list: what the reviewer will expect to replace. *)
OpenReview(r, s) ==
    /\ request[r].pc = "idle"
    /\ s \in uploaded
    /\ review' = [review EXCEPT ![r] = [snapshot |-> s, expected |-> published]]
    /\ UNCHANGED <<uploaded, published, trail, request>>

(* _activate, first transaction: a fresh comparison with what is published   *)
(* now.  A review that is required and not acknowledged is refused.          *)
Compare(r, acknowledged) ==
    LET s == review[r].snapshot
        required == <<s, published>> \in ReviewRequired
    IN  /\ request[r].pc = "idle"
        /\ s # NoSnapshot
        /\ required => acknowledged
        /\ request' = [request EXCEPT ![r] =
                         [pc |-> "compared", acknowledged |-> required]]
        /\ UNCHANGED <<uploaded, published, trail, review>>

(* Fault: publish does not look at the trail. *)
MayActivateAgain(s, type, expected) ==
    /\ published = expected
    /\ published # s
    /\ type = "restore" => s \in EverPublished

(* The refusals of activate_snapshot: stale_review, already_published,       *)
(* use_restore and not_previously_published.                                 *)
MayActivate(s, type, expected) ==
    /\ published = expected
    /\ published # s
    /\ (type = "restore") <=> (s \in EverPublished)

(* The UPDATE of the state row and the INSERT of the event. *)
Flip(s, type, acknowledged) ==
    /\ published' = s
    /\ trail' = Append(trail, [snapshot |-> s, type |-> type,
                               previous |-> published,
                               acknowledged |-> acknowledged])

(* _activate, second transaction: under the row lock, or refused. *)
Publish(r) ==
    /\ request[r].pc = "compared"
    /\ IF MayActivate(review[r].snapshot, "publish", review[r].expected)
       THEN /\ Len(trail) < MaxEvents
            /\ Flip(review[r].snapshot, "publish", request[r].acknowledged)
       ELSE UNCHANGED <<published, trail>>
    /\ request' = [request EXCEPT ![r] = NoRequest]
    /\ UNCHANGED <<uploaded, review>>

(* restore_snapshot has no comparison and so no first transaction. *)
Restore(r) ==
    /\ request[r].pc = "idle"
    /\ review[r].snapshot # NoSnapshot
    /\ MayActivate(review[r].snapshot, "restore", review[r].expected)
    /\ Len(trail) < MaxEvents
    /\ Flip(review[r].snapshot, "restore", FALSE)
    /\ UNCHANGED <<uploaded, review, request>>

(* scripts/forestry_snapshot_import.py: import, and publish only when nothing *)
(* is published.  Its check that the database holds no other snapshot comes   *)
(* first and locks nothing, so others may have been uploaded since.           *)
PublishInitial(s) ==
    /\ published = NoSnapshot
    /\ Len(trail) < MaxEvents
    /\ uploaded' = uploaded \cup {s}
    /\ Flip(s, "initial", FALSE)
    /\ UNCHANGED <<review, request>>

(* The server dies between the two transactions. *)
Abandon(r) ==
    /\ request[r].pc = "compared"
    /\ request' = [request EXCEPT ![r] = NoRequest]
    /\ UNCHANGED <<uploaded, published, trail, review>>

PubNext ==
    \/ \E s \in Snapshots : Upload(s) \/ PublishInitial(s)
    \/ \E r \in Reviewers :
         \/ \E s \in Snapshots : OpenReview(r, s)
         \/ \E acknowledged \in BOOLEAN : Compare(r, acknowledged)
         \/ Publish(r)
         \/ Restore(r)
         \/ Abandon(r)

PubSpec == PubInit /\ [][PubNext]_pubVars

----------------------------------------------------------------------------
(* Properties *)

(* The trail reads as the dashboard's history: every event replaced the      *)
(* version the one before it activated, the last one is served, and no event *)
(* activates what is already served.                                         *)
TrailIsHistory ==
    /\ \A k \in 1 .. Len(trail) :
         /\ trail[k].previous = IF k = 1 THEN NoSnapshot ELSE trail[k - 1].snapshot
         /\ trail[k].snapshot # trail[k].previous
    /\ published = IF trail = << >> THEN NoSnapshot ELSE trail[Len(trail)].snapshot

(* "The trail then says plainly whether a new version was made visible or an *)
(* old one was brought back": the first event of a version is its publish or *)
(* initial event, every later one a restore, and only the first event of all *)
(* can be initial, however CLI imports and reviewers race.                   *)
NewOrBroughtBack ==
    \A k \in 1 .. Len(trail) :
        /\ trail[k].type = "restore"
              <=> \E j \in 1 .. k - 1 : trail[j].snapshot = trail[k].snapshot
        /\ trail[k].type = "initial" => k = 1

(* The trail of publications is a true history: a chain of activations that  *)
(* ends in what is served, each labelled new or brought back as it was.      *)
TrailTellsHistory == TrailIsHistory /\ NewOrBroughtBack

(* What the publish control is for: a version whose comparison with the one  *)
(* it replaces needs review is published only with an acknowledgement.       *)
ReviewAcknowledged ==
    \A k \in 1 .. Len(trail) :
        trail[k].type = "publish"
            /\ <<trail[k].snapshot, trail[k].previous>> \in ReviewRequired
                => trail[k].acknowledged

=============================================================================
