---------------------------- MODULE ForestryProofs ----------------------------
(***************************************************************************)
(* Proofs about ForestryPublication, for any set of snapshots and reviewers *)
(* and any verdicts of the comparison, about the requests of ForestryViews  *)
(* beside it, and about ForestryReports, for any reports, names, contents   *)
(* and users and any bound on the revisions.                                *)
(*                                                                         *)
(* The invariants of the publication are inductive together once it is      *)
(* known that a request between its transactions names a snapshot.  An      *)
(* activation appends one event; everything else leaves state row and trail *)
(* alone.  Beside that, what a request has read was right when it was read: *)
(* it stays right where the history only grows, and is still exact as long  *)
(* as nothing was activated (RequestRight).                                 *)
(*                                                                         *)
(* CurrentPageIsTrue is not inductive: it has to be known of pages whose    *)
(* features are still to be read, and that no page is ahead of its report   *)
(* (PagesLag).  UniqueNames needs what the index knows of names that are    *)
(* inserted and not committed (NamesHeld), ApprovedIsFrozen what the row    *)
(* lock of a rename keeps true (InProgress).                                *)
(***************************************************************************)
EXTENDS ForestryViews, ForestryReports, FiniteSetTheorems, TLAPS

RequestsNameSnapshots ==
    \A r \in Reviewers :
        request[r].pc = "compared" => review[r].snapshot # NoSnapshot

PubInv ==
    /\ PubTypeOK
    /\ RequestsNameSnapshots
    /\ TrailIsHistory
    /\ NewOrBroughtBack

(* What the trail is after an activation: the events it had, then the new one. *)
LEMMA FlipAppends ==
    ASSUME trail \in Seq(Event), published \in Snapshots \cup {NoSnapshot},
           NEW s \in Snapshots, NEW type \in {"initial", "publish", "restore"},
           NEW acknowledged \in BOOLEAN,
           Flip(s, type, acknowledged)
    PROVE  /\ published' = s
           /\ trail' \in Seq(Event)
           /\ Len(trail) \in Nat
           /\ Len(trail') = Len(trail) + 1
           /\ trail' # << >>
           /\ \A k \in 1 .. Len(trail) : trail'[k] = trail[k]
           /\ trail'[Len(trail) + 1].snapshot = s
           /\ trail'[Len(trail) + 1].type = type
           /\ trail'[Len(trail) + 1].previous = published
PROOF
<1> DEFINE e == [snapshot |-> s, type |-> type, previous |-> published,
                 acknowledged |-> acknowledged]
<1>1. e \in Event
  BY DEF Event
<1>2. trail' = Append(trail, e) /\ published' = s
  BY DEF Flip
<1>3. trail'[Len(trail) + 1] = e
  BY <1>1, <1>2
<1> QED
  BY <1>1, <1>2, <1>3

(* An activation that MayActivate allows, or the initial one, keeps the trail *)
(* the dashboard's history and its types right.                              *)
LEMMA FlipKeepsHistory ==
    ASSUME PubTypeOK, TrailIsHistory, NewOrBroughtBack,
           NEW s \in Snapshots, NEW type \in {"initial", "publish", "restore"},
           NEW acknowledged \in BOOLEAN,
           Flip(s, type, acknowledged),
           published # s,
           (type = "restore") <=> (s \in EverPublished),
           type = "initial" => published = NoSnapshot
    PROVE  TrailIsHistory' /\ NewOrBroughtBack'
PROOF
<1> DEFINE n == Len(trail)
<1>1. /\ published' = s
      /\ trail' \in Seq(Event)
      /\ n \in Nat
      /\ Len(trail') = n + 1
      /\ trail' # << >>
      /\ \A k \in 1 .. n : trail'[k] = trail[k]
      /\ trail'[n + 1].snapshot = s
      /\ trail'[n + 1].type = type
      /\ trail'[n + 1].previous = published
  BY FlipAppends DEF PubTypeOK
<1>2. trail \in Seq(Event) /\ (trail = << >> <=> n = 0)
  BY DEF PubTypeOK
<1>3. published = IF n = 0 THEN NoSnapshot ELSE trail[n].snapshot
  BY <1>2 DEF TrailIsHistory
<1>4. TrailIsHistory'
  <2>1. ASSUME NEW k \in 1 .. n + 1
        PROVE  /\ trail'[k].previous = IF k = 1 THEN NoSnapshot
                                                ELSE trail'[k - 1].snapshot
               /\ trail'[k].snapshot # trail'[k].previous
    <3>1. CASE k = n + 1
      BY <1>1, <1>3, <3>1
    <3>2. CASE k \in 1 .. n
      <4>1. trail'[k] = trail[k] /\ (k # 1 => k - 1 \in 1 .. n /\ trail'[k - 1] = trail[k - 1])
        BY <1>1, <3>2
      <4> QED
        BY <3>2, <4>1 DEF TrailIsHistory
    <3> QED
      BY <1>1, <2>1, <3>1, <3>2
  <2>2. trail'[Len(trail')].snapshot = published'
    BY <1>1
  <2> QED
    BY <1>1, <2>1, <2>2 DEF TrailIsHistory
<1>5. NewOrBroughtBack'
  <2>1. ASSUME NEW k \in 1 .. n + 1
        PROVE  /\ trail'[k].type = "restore"
                     <=> \E j \in 1 .. k - 1 : trail'[j].snapshot = trail'[k].snapshot
               /\ trail'[k].type = "initial" => k = 1
    <3>1. CASE k = n + 1
      <4>1. s \in EverPublished <=> \E j \in 1 .. n : trail'[j].snapshot = s
        BY <1>1 DEF EverPublished
      <4>2. type = "initial" => n = 0
        <5> SUFFICES ASSUME type = "initial", n # 0
                     PROVE  FALSE
          OBVIOUS
        <5>1. trail[n] \in Event
          BY <1>1, <1>2
        <5>2. trail[n].snapshot \in Snapshots
          BY <5>1 DEF Event
        <5> QED
          BY <1>3, <5>2, PublicationAssumption
      <4> QED
        BY <1>1, <3>1, <4>1, <4>2
    <3>2. CASE k \in 1 .. n
      <4>1. trail'[k] = trail[k] /\ \A j \in 1 .. k - 1 : trail'[j] = trail[j]
        BY <1>1, <3>2
      <4> QED
        BY <3>2, <4>1 DEF NewOrBroughtBack
    <3> QED
      BY <1>1, <2>1, <3>1, <3>2
  <2> QED
    BY <1>1, <2>1 DEF NewOrBroughtBack
<1> QED
  BY <1>4, <1>5

LEMMA PubInitInv == PubInit => PubInv
PROOF
<1> SUFFICES ASSUME PubInit
             PROVE  PubInv
  OBVIOUS
<1> USE DEF PubInit
<1>1. PubTypeOK
  BY DEF PubTypeOK, OpenPage, NoReview, Request, NoRequest
<1>2. RequestsNameSnapshots
  BY DEF RequestsNameSnapshots, NoRequest
<1>3. TrailIsHistory /\ NewOrBroughtBack
  BY DEF TrailIsHistory, NewOrBroughtBack
<1> QED
  BY <1>1, <1>2, <1>3 DEF PubInv

LEMMA PubNextInv == PubInv /\ [PubNext]_pubVars => PubInv'
PROOF
<1> SUFFICES ASSUME PubInv, [PubNext]_pubVars
             PROVE  PubInv'
  OBVIOUS
<1>1. PubTypeOK /\ RequestsNameSnapshots /\ TrailIsHistory /\ NewOrBroughtBack
  BY DEF PubInv
<1>2. ASSUME UNCHANGED <<published, trail>>
      PROVE  TrailIsHistory' /\ NewOrBroughtBack'
  BY <1>1, <1>2 DEF TrailIsHistory, NewOrBroughtBack
<1>3. ASSUME NEW s \in Snapshots, Upload(s)
      PROVE  PubInv'
  <2>1. PubTypeOK' /\ RequestsNameSnapshots'
    BY <1>1, <1>3 DEF Upload, PubTypeOK, RequestsNameSnapshots
  <2> QED
    BY <1>2, <1>3, <2>1 DEF Upload, PubInv
<1>4. ASSUME NEW s \in Snapshots, PublishInitial(s)
      PROVE  PubInv'
  <2>1. Flip(s, "initial", FALSE) /\ published = NoSnapshot
    BY <1>4 DEF PublishInitial
  <2>2. trail' \in Seq(Event) /\ published' = s
    BY <1>1, <2>1, FlipAppends DEF PubTypeOK
  <2>3. PubTypeOK' /\ RequestsNameSnapshots'
    BY <1>1, <1>4, <2>2 DEF PublishInitial, PubTypeOK, RequestsNameSnapshots
  <2>4. s \notin EverPublished
    <3>1. trail = << >>
      <4> SUFFICES ASSUME trail # << >>
                   PROVE  FALSE
        OBVIOUS
      <4>1. trail \in Seq(Event) /\ Len(trail) \in 1 .. Len(trail)
        BY <1>1 DEF PubTypeOK
      <4>2. trail[Len(trail)] \in Event
        BY <4>1
      <4>3. trail[Len(trail)].snapshot \in Snapshots
        BY <4>2 DEF Event
      <4> QED
        BY <1>1, <2>1, <4>3, PublicationAssumption DEF TrailIsHistory
    <3> QED
      BY <3>1 DEF EverPublished
  <2>5. TrailIsHistory' /\ NewOrBroughtBack'
    BY <1>1, <2>1, <2>4, FlipKeepsHistory, PublicationAssumption
  <2> QED
    BY <2>3, <2>5 DEF PubInv
<1>5. ASSUME NEW r \in Reviewers, NEW s \in Snapshots, OpenReview(r, s)
      PROVE  PubInv'
  <2>1. PubTypeOK'
    BY <1>1, <1>5 DEF OpenReview, PubTypeOK, OpenPage
  <2>2. RequestsNameSnapshots'
    BY <1>1, <1>5 DEF OpenReview, RequestsNameSnapshots, PubTypeOK
  <2> QED
    BY <1>2, <1>5, <2>1, <2>2 DEF OpenReview, PubInv
<1>6. ASSUME NEW r \in Reviewers, NEW acknowledged \in BOOLEAN, Compare(r, acknowledged)
      PROVE  PubInv'
  <2> DEFINE required == <<review[r].snapshot, published>> \in ReviewRequired
  <2>1. request' \in [Reviewers -> Request] /\ \A q \in Reviewers \ {r} : request'[q] = request[q]
    <3>1. request' = [request EXCEPT ![r] = [pc |-> "compared", acknowledged |-> required]]
      BY <1>6 DEF Compare
    <3>2. [pc |-> "compared", acknowledged |-> required] \in Request
      <4>1. CASE required
        BY <4>1 DEF Request
      <4>2. CASE ~required
        BY <4>2 DEF Request
      <4> QED
        BY <4>1, <4>2
    <3> HIDE DEF required
    <3> QED
      BY <1>1, <3>1, <3>2 DEF PubTypeOK
  <2>2. PubTypeOK'
    BY <1>1, <1>6, <2>1 DEF Compare, PubTypeOK
  <2>3. RequestsNameSnapshots'
    BY <1>1, <1>6, <2>1 DEF Compare, RequestsNameSnapshots, PubTypeOK
  <2> QED
    BY <1>2, <1>6, <2>2, <2>3 DEF Compare, PubInv
<1>7. ASSUME NEW r \in Reviewers, Publish(r)
      PROVE  PubInv'
  <2>1. request[r].pc = "compared" /\ review[r].snapshot \in Snapshots
    BY <1>1, <1>7 DEF Publish, PubTypeOK, OpenPage, RequestsNameSnapshots
  <2>2. RequestsNameSnapshots'
    BY <1>1, <1>7 DEF Publish, RequestsNameSnapshots, PubTypeOK, NoRequest
  <2>3. review' = review /\ uploaded' = uploaded /\ request' \in [Reviewers -> Request]
    BY <1>1, <1>7 DEF Publish, PubTypeOK, Request, NoRequest
  <2>4. CASE MayActivate(review[r].snapshot, "publish", review[r].expected)
    <3>1. request[r].acknowledged \in BOOLEAN
      BY <1>1 DEF PubTypeOK, Request
    <3>2. Flip(review[r].snapshot, "publish", request[r].acknowledged)
      BY <1>7, <2>4 DEF Publish
    <3>3. trail' \in Seq(Event) /\ published' = review[r].snapshot
      BY <1>1, <2>1, <3>1, <3>2, FlipAppends DEF PubTypeOK
    <3>4. TrailIsHistory' /\ NewOrBroughtBack'
      BY <1>1, <2>1, <2>4, <3>1, <3>2, FlipKeepsHistory DEF MayActivate
    <3>5. PubTypeOK'
      BY <1>1, <2>1, <2>3, <3>3 DEF PubTypeOK
    <3> QED
      BY <2>2, <3>4, <3>5 DEF PubInv
  <2>5. CASE ~MayActivate(review[r].snapshot, "publish", review[r].expected)
    <3>1. UNCHANGED <<published, trail>>
      BY <1>7, <2>5 DEF Publish
    <3>2. PubTypeOK'
      BY <1>1, <2>3, <3>1 DEF PubTypeOK
    <3> QED
      BY <1>2, <2>2, <3>1, <3>2 DEF PubInv
  <2> QED
    BY <2>4, <2>5
<1>8. ASSUME NEW r \in Reviewers, Restore(r)
      PROVE  PubInv'
  <2>1. review[r].snapshot \in Snapshots
    BY <1>1, <1>8 DEF Restore, PubTypeOK, OpenPage
  <2>2. /\ Flip(review[r].snapshot, "restore", FALSE)
        /\ MayActivate(review[r].snapshot, "restore", review[r].expected)
    BY <1>8 DEF Restore
  <2>3. trail' \in Seq(Event) /\ published' = review[r].snapshot
    BY <1>1, <2>1, <2>2, FlipAppends DEF PubTypeOK
  <2>4. TrailIsHistory' /\ NewOrBroughtBack'
    BY <1>1, <2>1, <2>2, FlipKeepsHistory DEF MayActivate
  <2>5. PubTypeOK' /\ RequestsNameSnapshots'
    BY <1>1, <1>8, <2>1, <2>3 DEF Restore, PubTypeOK, RequestsNameSnapshots
  <2> QED
    BY <2>4, <2>5 DEF PubInv
<1>9. ASSUME NEW r \in Reviewers, Abandon(r)
      PROVE  PubInv'
  <2>1. PubTypeOK' /\ RequestsNameSnapshots'
    BY <1>1, <1>9 DEF Abandon, PubTypeOK, RequestsNameSnapshots, Request, NoRequest
  <2> QED
    BY <1>2, <1>9, <2>1 DEF Abandon, PubInv
<1>10. CASE UNCHANGED pubVars
  BY <1>1, <1>10
     DEF pubVars, PubInv, PubTypeOK, RequestsNameSnapshots, TrailIsHistory, NewOrBroughtBack
<1> QED
  BY <1>3, <1>4, <1>5, <1>6, <1>7, <1>8, <1>9, <1>10 DEF PubNext

(* The invariant holds throughout. *)
THEOREM PubInvariant == PubSpec => []PubInv
PROOF
  BY PubInitInv, PubNextInv, PTL DEF PubSpec

(* Publications, restores and initial publications only write well-formed    *)
(* state and events (forestry_publication.py).                               *)
THEOREM PubTypeCorrect == PubSpec => []PubTypeOK
PROOF
<1>1. PubInv => PubTypeOK
  BY DEF PubInv
<1> QED
  BY <1>1, PubInvariant, PTL

(* forestry.publication_event is the history of what the dashboard served:   *)
(* activate_snapshot and publish_initial_if_unpublished name what they       *)
(* replaced, whoever else is publishing, and the types of the events tell    *)
(* new versions from restored ones: publish accepts only what was never      *)
(* published and restore only what was.                                      *)
THEOREM TrailCorrect == PubSpec => []TrailTellsHistory
PROOF
<1>1. PubInv => TrailTellsHistory
  BY DEF PubInv, TrailTellsHistory
<1> QED
  BY <1>1, PubInvariant, PTL

-----------------------------------------------------------------------------
(* Readers beside the publications: what a request has read so far. *)

IsRequest(q) ==
    q = [kind |-> q.kind, role |-> q.role, snapshot |-> q.snapshot, pc |-> q.pc,
         published |-> q.published, ever |-> q.ever, versions |-> q.versions, page |-> q.page,
         quiet |-> q.quiet, served |-> q.served, due |-> q.due]

(* The published id it read was the served one at some moment, and is while quiet. *)
IdRight(q) ==
    /\ q.published \in q.served /\ q.published \in EverPublished \cup {NoSnapshot}
    /\ q.quiet => q.published = published

(* The versions it read from the trail have been published, and are all of them while quiet. *)
EverRight(q) ==
    /\ q.ever \subseteq EverPublished
    /\ q.role = "viewer" => q.due \subseteq q.ever
    /\ q.quiet => q.ever = EverPublished

(* The rows it read, with the status each has from the two reads before. *)
RowsRight(q, list) ==
    /\ q.role = "viewer" => DOMAIN list \subseteq EverPublished
    /\ \A s \in DOMAIN list : list[s] = "published" => s = q.published
    /\ q.quiet => \A s \in DOMAIN list : list[s] = VersionStatus(s, published, EverPublished)

RowsComplete(q, list) ==
    /\ q.due \subseteq DOMAIN list
    /\ q.quiet => EverPublished \subseteq DOMAIN list

ListRight(q) == RowsRight(q, q.versions)
AllListed(q) == RowsComplete(q, q.versions)

IdBesideRight(q) ==
    LET id == q.page.published_snapshot_id IN
    /\ q.page = [published_snapshot_id |-> id, events |-> q.page.events]
    /\ id \in q.served /\ id \in EverPublished \cup {NoSnapshot}
    /\ q.quiet => id = published

EventsRight(q) ==
    /\ \A k \in DOMAIN q.page.events : k \in DOMAIN trail /\ q.page.events[k] = trail[k]
    /\ q.quiet => q.page.events = trail

VersionsRight(q) ==
    q.kind = "versions" =>
        /\ q.pc \in {"published", "ever", "rows", "id", "events", "done"}
        /\ q.pc # "published" => IdRight(q)
        /\ q.pc = "rows" => EverRight(q)
        /\ q.pc \in {"id", "events", "done"} => ListRight(q) /\ AllListed(q)
        /\ q.pc \in {"events", "done"} => IdBesideRight(q)
        /\ q.pc = "done" => EventsRight(q)

(* A review page: its buttons from the status, its comparison from the second id. *)
PageRight(q) ==
    LET s == q.snapshot
        base == q.page.compared IN
    /\ base \in EverPublished \cup {NoSnapshot}
    /\ q.quiet => base = published
    /\ q.page.review_required = (<<s, base>> \in ReviewRequired)
    /\ q.page.can_publish = (q.versions[s] = "pending")
    /\ q.page.can_restore = (q.versions[s] = "previously_published")
    /\ q.page.expected = IF base = s THEN NoSnapshot ELSE base

ReviewRight(q) ==
    q.kind = "review" =>
        /\ q.role = "operator"
        /\ q.pc \in {"published", "ever", "rows", "compare", "done", "404"}
        /\ q.pc # "published" => IdRight(q)
        /\ q.pc = "rows" => EverRight(q)
        /\ q.pc \in {"compare", "done"} => q.snapshot \in DOMAIN q.versions /\ ListRight(q)
        /\ q.pc = "done" => PageRight(q)

SnapshotsRight(q) ==
    q.kind = "snapshots" =>
        /\ q.pc \in {"rows", "each", "done"}
        /\ q.pc = "each" => q.due \subseteq q.page \cup q.ever
        /\ q.pc = "done" => q.due \subseteq q.page
        /\ q.pc # "rows" /\ q.role = "viewer" => q.page \subseteq EverPublished

ServedRight(q) ==
    q.kind = "served" =>
        /\ q.pc \in {"published", "done", "404"}
        /\ q.pc = "done" => q.page \subseteq q.served \cap EverPublished
        /\ q.pc = "404" => NoSnapshot \in q.served

ContentRight(q) ==
    q.kind = "content" =>
        /\ q.pc \in {"record", "done", "404"}
        /\ q.pc = "done" /\ q.role = "viewer" => q.snapshot \in EverPublished
        /\ q.pc = "404" => q.snapshot \notin q.due

(* What has to be shown is still there, and what is served now has been served. *)
AskedRight(q) ==
    /\ q.kind \in {"versions", "review", "snapshots", "served", "content"}
    /\ q.role \in Roles /\ q.quiet \in BOOLEAN
    /\ q.kind \in {"review", "content"} => q.snapshot \in Snapshots
    /\ q.due \subseteq IF q.role = "operator" THEN uploaded ELSE EverPublished
    /\ published \in q.served

RequestRight(q) ==
    /\ IsRequest(q) /\ AskedRight(q)
    /\ VersionsRight(q) /\ ReviewRight(q) /\ SnapshotsRight(q) /\ ServedRight(q) /\ ContentRight(q)

Unasked == {NoRead, [NoRead EXCEPT !.pc = "503"]}

(* Only what is stored has been published, or is on a page. *)
StoredFirst ==
    /\ EverPublished \subseteq uploaded
    /\ \A r \in Reviewers : review[r].snapshot \in uploaded \cup {NoSnapshot}

ViewInv == PubInv /\ StoredFirst /\ (reader \in Unasked \/ RequestRight(reader))

(* What the history says of the served version and of the events. *)
LEMMA ServedWasPublished ==
    ASSUME PubInv
    PROVE  /\ published \in EverPublished \cup {NoSnapshot}
           /\ EverPublished \subseteq Snapshots
           /\ DOMAIN trail = 1 .. Len(trail)
           /\ \A k \in DOMAIN trail : /\ trail[k].snapshot \in EverPublished
                                      /\ trail[k].previous \in EverPublished \cup {NoSnapshot}
<1>1. trail \in Seq(Event) /\ TrailIsHistory
  BY DEF PubInv, PubTypeOK
<1>2. Len(trail) \in Nat /\ DOMAIN trail = 1 .. Len(trail) /\ \A k \in 1 .. Len(trail) : trail[k] \in Event
  BY <1>1
<1>3. \A k \in 1 .. Len(trail) : trail[k].snapshot \in Snapshots
  BY <1>2 DEF Event
<1>4. trail # << >> => Len(trail) \in 1 .. Len(trail)
  BY <1>1
<1>5. published \in EverPublished \cup {NoSnapshot}
  BY <1>1, <1>4 DEF TrailIsHistory, EverPublished
<1>6. ASSUME NEW k \in 1 .. Len(trail)
      PROVE  trail[k].previous \in EverPublished \cup {NoSnapshot}
  <2>1. k # 1 => k - 1 \in 1 .. Len(trail)
    BY <1>2
  <2> QED
    BY <1>1, <2>1 DEF TrailIsHistory, EverPublished
<1> QED
  BY <1>2, <1>3, <1>5, <1>6 DEF EverPublished

(* The reviewers only add to the history, and serve another version with an event. *)
LEMMA HistoryGrows ==
    ASSUME PubInv, StoredFirst, [PubNext]_pubVars
    PROVE  /\ PubInv' /\ StoredFirst'
           /\ uploaded \subseteq uploaded' /\ EverPublished \subseteq EverPublished'
           /\ trail' = trail => published' = published /\ EverPublished' = EverPublished
<1>1. PubInv'
  BY PubNextInv
<1>2. /\ trail \in Seq(Event) /\ published \in Snapshots \cup {NoSnapshot} /\ uploaded \subseteq Snapshots
      /\ review \in [Reviewers -> OpenPage] /\ request \in [Reviewers -> Request] /\ RequestsNameSnapshots
  BY DEF PubInv, PubTypeOK
<1>3. trail' = trail => EverPublished' = EverPublished
  BY DEF EverPublished
<1>4. ASSUME NEW s \in Snapshots, NEW type \in {"initial", "publish", "restore"}, NEW acknowledged \in BOOLEAN,
             Flip(s, type, acknowledged)
      PROVE  EverPublished' = EverPublished \cup {s} /\ trail' # trail
  <2>1. /\ Len(trail) \in Nat /\ Len(trail') = Len(trail) + 1
        /\ \A k \in 1 .. Len(trail) : trail'[k] = trail[k]
        /\ trail'[Len(trail) + 1].snapshot = s
    BY <1>2, <1>4, FlipAppends
  <2>2. trail' # trail
    BY <2>1
  <2>3. EverPublished' = {trail'[k].snapshot : k \in 1 .. Len(trail) + 1}
    BY <2>1 DEF EverPublished
  <2>4. \A k \in 1 .. Len(trail) + 1 : k \in 1 .. Len(trail) \/ k = Len(trail) + 1
    BY <2>1
  <2>5. Len(trail) + 1 \in 1 .. Len(trail) + 1 /\ \A k \in 1 .. Len(trail) : k \in 1 .. Len(trail) + 1
    BY <2>1
  <2> QED
    BY <2>1, <2>2, <2>3, <2>4, <2>5 DEF EverPublished
<1> DEFINE Goal == /\ StoredFirst' /\ uploaded \subseteq uploaded' /\ EverPublished \subseteq EverPublished'
                   /\ trail' = trail => published' = published
<1>5. ASSUME NEW s \in Snapshots, Upload(s)
      PROVE  Goal
  BY <1>3, <1>5 DEF Upload, StoredFirst
<1>6. ASSUME NEW s \in Snapshots, PublishInitial(s)
      PROVE  Goal
  <2>1. EverPublished' = EverPublished \cup {s} /\ trail' # trail
    BY <1>4, <1>6 DEF PublishInitial
  <2> QED
    BY <1>6, <2>1 DEF PublishInitial, StoredFirst
<1>7. ASSUME NEW r \in Reviewers, NEW s \in Snapshots, OpenReview(r, s)
      PROVE  Goal
  BY <1>2, <1>3, <1>7 DEF OpenReview, StoredFirst
<1>8. ASSUME NEW r \in Reviewers, NEW acknowledged \in BOOLEAN, Compare(r, acknowledged)
      PROVE  Goal
  BY <1>3, <1>8 DEF Compare, StoredFirst
<1>9. ASSUME NEW r \in Reviewers, Publish(r)
      PROVE  Goal
  <2>1. review[r].snapshot \in Snapshots /\ request[r].acknowledged \in BOOLEAN
    BY <1>2, <1>9 DEF Publish, OpenPage, RequestsNameSnapshots, Request
  <2>2. CASE MayActivate(review[r].snapshot, "publish", review[r].expected)
    <3>1. EverPublished' = EverPublished \cup {review[r].snapshot} /\ trail' # trail
      BY <1>4, <1>9, <2>1, <2>2 DEF Publish
    <3>2. review[r].snapshot \in uploaded
      BY <2>1, PublicationAssumption DEF StoredFirst, PublicationAssumption
    <3> QED
      BY <1>9, <3>1, <3>2 DEF Publish, StoredFirst
  <2>3. CASE ~MayActivate(review[r].snapshot, "publish", review[r].expected)
    BY <1>3, <1>9, <2>3 DEF Publish, StoredFirst
  <2> QED
    BY <2>2, <2>3
<1>10. ASSUME NEW r \in Reviewers, Restore(r)
       PROVE  Goal
  <2>1. review[r].snapshot \in Snapshots
    BY <1>2, <1>10 DEF Restore, OpenPage
  <2>2. EverPublished' = EverPublished \cup {review[r].snapshot} /\ trail' # trail
    BY <1>4, <1>10, <2>1 DEF Restore
  <2>3. review[r].snapshot \in uploaded
    BY <2>1, PublicationAssumption DEF StoredFirst, PublicationAssumption
  <2> QED
    BY <1>10, <2>2, <2>3 DEF Restore, StoredFirst
<1>11. ASSUME NEW r \in Reviewers, Abandon(r)
       PROVE  Goal
  BY <1>3, <1>11 DEF Abandon, StoredFirst
<1>12. ASSUME UNCHANGED pubVars
       PROVE  Goal
  <2>1. uploaded' = uploaded /\ published' = published /\ trail' = trail /\ review' = review
    BY <1>12 DEF pubVars
  <2>2. EverPublished' = EverPublished
    BY <1>3, <2>1
  <2>3. StoredFirst'
    BY <2>1, <2>2 DEF StoredFirst
  <2> QED
    BY <2>1, <2>2, <2>3
<1>13. Goal
  BY <1>5, <1>6, <1>7, <1>8, <1>9, <1>10, <1>11, <1>12 DEF PubNext
<1> QED
  BY <1>1, <1>3, <1>13

(* The statements of GET /versions and of a review that they share. *)
LEMMA IdStatement ==
    ASSUME PubInv, NEW q, RequestRight(q), q.kind \in {"versions", "review"}, q.pc = "published",
           NEW p, p = [q EXCEPT !.published = published, !.pc = "ever"]
    PROVE  RequestRight(p)
<1>1. /\ IsRequest(p) /\ p.published = published /\ p.pc = "ever"
      /\ p.kind = q.kind /\ p.role = q.role /\ p.snapshot = q.snapshot /\ p.ever = q.ever
      /\ p.versions = q.versions /\ p.page = q.page /\ p.quiet = q.quiet /\ p.served = q.served
      /\ p.due = q.due
  <2>1. IsRequest(q)
    BY DEF RequestRight
  <2> QED
    BY <2>1 DEF IsRequest
<1>2. AskedRight(q) /\ ReviewRight(q)
  BY DEF RequestRight
<1>3. AskedRight(p)
  BY <1>1, <1>2 DEF AskedRight
<1>4. IdRight(p)
  BY <1>1, <1>2, ServedWasPublished DEF IdRight, AskedRight
<1>5. VersionsRight(p) /\ ReviewRight(p)
  BY <1>1, <1>2, <1>4 DEF VersionsRight, ReviewRight
<1> QED
  BY <1>1, <1>3, <1>5 DEF RequestRight, SnapshotsRight, ServedRight, ContentRight

LEMMA EverStatement ==
    ASSUME PubInv, NEW q, RequestRight(q), q.kind \in {"versions", "review"}, q.pc = "ever",
           NEW p, p = [q EXCEPT !.ever = EverPublished, !.pc = "rows"]
    PROVE  RequestRight(p)
<1>1. /\ IsRequest(p) /\ p.ever = EverPublished /\ p.pc = "rows"
      /\ p.kind = q.kind /\ p.role = q.role /\ p.snapshot = q.snapshot /\ p.published = q.published
      /\ p.versions = q.versions /\ p.page = q.page /\ p.quiet = q.quiet /\ p.served = q.served
      /\ p.due = q.due
  <2>1. IsRequest(q)
    BY DEF RequestRight
  <2> QED
    BY <2>1 DEF IsRequest
<1>2. AskedRight(q) /\ VersionsRight(q) /\ ReviewRight(q)
  BY DEF RequestRight
<1>3. AskedRight(p)
  BY <1>1, <1>2 DEF AskedRight
<1>4. IdRight(p)
  <2>1. IdRight(q)
    BY <1>2 DEF VersionsRight, ReviewRight
  <2> QED
    BY <1>1, <2>1 DEF IdRight
<1>5. EverRight(p)
  BY <1>1, <1>2 DEF EverRight, AskedRight
<1>6. VersionsRight(p) /\ ReviewRight(p)
  BY <1>1, <1>2, <1>4, <1>5 DEF VersionsRight, ReviewRight
<1> QED
  BY <1>1, <1>3, <1>6 DEF RequestRight, SnapshotsRight, ServedRight, ContentRight

(* The status of every row is right, and no pending one is a viewer's. *)
LEMMA StatusesRight ==
    ASSUME PubInv, NEW q, IdRight(q), EverRight(q),
           NEW list, DOMAIN list \subseteq Snapshots,
           \A s \in DOMAIN list : list[s] = VersionStatus(s, q.published, q.ever),
           q.role = "viewer" => \A s \in DOMAIN list : list[s] # "pending"
    PROVE  RowsRight(q, list)
<1>1. NoSnapshot \notin Snapshots
  BY PublicationAssumption DEF PublicationAssumption
<1>2. q.role = "viewer" => DOMAIN list \subseteq EverPublished
  <2>1. \A s : VersionStatus(s, q.published, q.ever) # "pending" => s = q.published \/ s \in q.ever
    BY DEF VersionStatus
  <2>2. q.role = "viewer" => \A s \in DOMAIN list : s \in EverPublished \/ s = NoSnapshot
    BY <2>1 DEF IdRight, EverRight
  <2> QED
    BY <1>1, <2>2
<1>3. \A s \in DOMAIN list : list[s] = "published" => s = q.published
  BY DEF VersionStatus
<1>4. q.quiet => \A s \in DOMAIN list : list[s] = VersionStatus(s, published, EverPublished)
  BY DEF IdRight, EverRight
<1> QED
  BY <1>2, <1>3, <1>4 DEF RowsRight

(* The list of every version: an operator's is of all of them, a viewer's of the published ones. *)
LEMMA VersionRows ==
    ASSUME PubInv, StoredFirst, NEW q, q = reader, AskedRight(q), IdRight(q), EverRight(q),
           NEW list, list = list_versions(q.role = "operator", Snapshots)
    PROVE  RowsRight(q, list) /\ RowsComplete(q, list)
<1>1. /\ EverPublished \subseteq Snapshots /\ EverPublished \subseteq uploaded /\ uploaded \subseteq Snapshots
      /\ q.role \in {"operator", "viewer"}
  BY ServedWasPublished DEF StoredFirst, PubInv, PubTypeOK, AskedRight, Roles
<1>2. /\ \A s \in DOMAIN list : list[s] = VersionStatus(s, q.published, q.ever)
      /\ q.role = "operator" => DOMAIN list = uploaded
      /\ q.role = "viewer" =>
           DOMAIN list = {t \in uploaded : VersionStatus(t, q.published, q.ever) # "pending"}
  BY <1>1 DEF list_versions
<1>3. DOMAIN list \subseteq Snapshots
  BY <1>1, <1>2
<1>4. q.role = "viewer" => \A s \in DOMAIN list : list[s] # "pending"
  BY <1>2
<1>5. RowsRight(q, list)
  BY <1>2, <1>3, <1>4, StatusesRight
<1>6. CASE q.role = "operator"
  <2>1. q.due \subseteq uploaded
    BY <1>6 DEF AskedRight
  <2> QED
    BY <1>1, <1>2, <1>5, <1>6, <2>1 DEF RowsComplete
<1>7. CASE q.role = "viewer"
  <2>1. q.due \subseteq q.ever /\ q.due \subseteq EverPublished /\ (q.quiet => q.ever = EverPublished)
    BY <1>7 DEF EverRight, AskedRight
  <2>2. \A t \in q.ever : VersionStatus(t, q.published, q.ever) # "pending"
    BY DEF VersionStatus
  <2>3. q.ever \cap uploaded \subseteq DOMAIN list
    BY <1>2, <1>7, <2>2
  <2> QED
    BY <1>1, <1>5, <2>1, <2>3 DEF RowsComplete
<1> QED
  BY <1>1, <1>6, <1>7

(* The row of the version that a reviewer asked about. *)
LEMMA ReviewRow ==
    ASSUME PubInv, NEW q, q = reader, IdRight(q), EverRight(q), q.role = "operator",
           NEW list, list = list_versions(TRUE, {q.snapshot})
    PROVE  RowsRight(q, list) /\ DOMAIN list \subseteq {q.snapshot}
<1>1. /\ \A s \in DOMAIN list : list[s] = VersionStatus(s, q.published, q.ever)
      /\ DOMAIN list = uploaded \cap {q.snapshot}
  BY DEF list_versions
<1>2. DOMAIN list \subseteq Snapshots
  BY <1>1 DEF PubInv, PubTypeOK
<1>3. q.role = "viewer" => \A s \in DOMAIN list : list[s] # "pending"
  OBVIOUS
<1>4. RowsRight(q, list)
  BY <1>1, <1>2, <1>3, StatusesRight
<1> QED
  BY <1>1, <1>4

(* GET /versions, from the rows on. *)
LEMMA RowsOfVersions ==
    ASSUME PubInv, NEW q, RequestRight(q), q.kind = "versions", q.pc = "rows",
           NEW list, RowsRight(q, list), RowsComplete(q, list),
           NEW p, p = [q EXCEPT !.versions = list, !.ever = {}, !.pc = "id"]
    PROVE  RequestRight(p)
<1>1. IsRequest(q) /\ AskedRight(q) /\ IdRight(q) /\ EverRight(q)
  BY DEF RequestRight, VersionsRight
<1>2. /\ IsRequest(p) /\ p.versions = list /\ p.pc = "id"
      /\ p.kind = q.kind /\ p.role = q.role /\ p.snapshot = q.snapshot /\ p.published = q.published
      /\ p.quiet = q.quiet /\ p.served = q.served /\ p.due = q.due
  BY <1>1 DEF IsRequest
<1>3. AskedRight(p) /\ IdRight(p)
  BY <1>1, <1>2 DEF AskedRight, IdRight
<1>6. ListRight(p) /\ AllListed(p)
  BY <1>2 DEF ListRight, AllListed, RowsRight, RowsComplete
<1>7. VersionsRight(p)
  BY <1>2, <1>3, <1>6 DEF VersionsRight
<1> QED
  BY <1>2, <1>3, <1>7 DEF RequestRight, ReviewRight, SnapshotsRight, ServedRight, ContentRight

LEMMA IdOfVersions ==
    ASSUME PubInv, NEW q, RequestRight(q), q.kind = "versions", q.pc = "id",
           NEW p, p = [q EXCEPT !.page = [published_snapshot_id |-> published, events |-> << >>],
                                !.pc = "events"]
    PROVE  RequestRight(p)
<1>1. IsRequest(q) /\ AskedRight(q) /\ IdRight(q) /\ ListRight(q) /\ AllListed(q)
  BY DEF RequestRight, VersionsRight
<1>2. /\ IsRequest(p) /\ p.page = [published_snapshot_id |-> published, events |-> << >>] /\ p.pc = "events"
      /\ p.kind = q.kind /\ p.role = q.role /\ p.snapshot = q.snapshot /\ p.published = q.published
      /\ p.versions = q.versions /\ p.quiet = q.quiet /\ p.served = q.served /\ p.due = q.due
  BY <1>1 DEF IsRequest
<1>3. AskedRight(p) /\ IdRight(p) /\ ListRight(p) /\ AllListed(p)
  BY <1>1, <1>2 DEF AskedRight, IdRight, ListRight, AllListed, RowsRight, RowsComplete
<1>4. IdBesideRight(p)
  BY <1>1, <1>2, ServedWasPublished DEF IdBesideRight, AskedRight
<1>5. VersionsRight(p)
  BY <1>2, <1>3, <1>4 DEF VersionsRight
<1> QED
  BY <1>2, <1>3, <1>5 DEF RequestRight, ReviewRight, SnapshotsRight, ServedRight, ContentRight

LEMMA EventsOfVersions ==
    ASSUME PubInv, NEW q, RequestRight(q), q.kind = "versions", q.pc = "events",
           NEW events, events = list_publication_events(DOMAIN q.versions),
           NEW p, p = [q EXCEPT !.page.events = events, !.pc = "done"]
    PROVE  RequestRight(p)
<1>1. IsRequest(q) /\ AskedRight(q) /\ IdRight(q) /\ ListRight(q) /\ AllListed(q) /\ IdBesideRight(q)
  BY DEF RequestRight, VersionsRight
<1>2. /\ IsRequest(p) /\ p.page = [q.page EXCEPT !.events = events] /\ p.pc = "done"
      /\ p.kind = q.kind /\ p.role = q.role /\ p.snapshot = q.snapshot /\ p.published = q.published
      /\ p.versions = q.versions /\ p.quiet = q.quiet /\ p.served = q.served /\ p.due = q.due
  BY <1>1 DEF IsRequest
<1>3. /\ p.page.events = events /\ p.page.published_snapshot_id = q.page.published_snapshot_id
      /\ p.page = [published_snapshot_id |-> p.page.published_snapshot_id, events |-> p.page.events]
  BY <1>1, <1>2 DEF IdBesideRight
<1>4. AskedRight(p) /\ IdRight(p) /\ ListRight(p) /\ AllListed(p)
  BY <1>1, <1>2 DEF AskedRight, IdRight, ListRight, AllListed, RowsRight, RowsComplete
<1>5. IdBesideRight(p)
  BY <1>1, <1>2, <1>3 DEF IdBesideRight
<1>6. /\ DOMAIN events = {n \in DOMAIN trail : trail[n].snapshot \in DOMAIN q.versions}
      /\ \A k \in DOMAIN events : events[k] = trail[k]
  BY DEF list_publication_events
<1>7. q.quiet => events = trail
  <2>1. \A n \in DOMAIN trail : trail[n].snapshot \in EverPublished
    BY ServedWasPublished
  <2>2. q.quiet => DOMAIN events = DOMAIN trail
    BY <1>1, <1>6, <2>1 DEF AllListed, RowsComplete
  <2>3. q.quiet => events = [k \in DOMAIN trail |-> trail[k]]
    BY <2>2 DEF list_publication_events
  <2>4. trail = [k \in DOMAIN trail |-> trail[k]]
    BY DEF PubInv, PubTypeOK
  <2> QED
    BY <2>3, <2>4
<1>8. EventsRight(p)
  BY <1>2, <1>3, <1>6, <1>7 DEF EventsRight
<1>9. VersionsRight(p)
  BY <1>2, <1>4, <1>5, <1>8 DEF VersionsRight
<1> QED
  BY <1>2, <1>4, <1>9 DEF RequestRight, ReviewRight, SnapshotsRight, ServedRight, ContentRight

(* A review, from the row on. *)
LEMMA RowOfReview ==
    ASSUME PubInv, NEW q, RequestRight(q), q.kind = "review", q.pc = "rows",
           NEW p, p = [q EXCEPT !.versions = p.versions, !.ever = {}, !.pc = p.pc],
           RowsRight(q, p.versions), DOMAIN p.versions \subseteq {q.snapshot},
           p.pc \in {"404", "compare"}, p.pc = "compare" => DOMAIN p.versions # {}
    PROVE  RequestRight(p)
<1>1. IsRequest(q) /\ AskedRight(q) /\ IdRight(q) /\ EverRight(q) /\ q.role = "operator"
  BY DEF RequestRight, ReviewRight
<1>2. /\ IsRequest(p)
      /\ p.kind = q.kind /\ p.role = q.role /\ p.snapshot = q.snapshot /\ p.published = q.published
      /\ p.quiet = q.quiet /\ p.served = q.served /\ p.due = q.due
  BY <1>1 DEF IsRequest
<1>3. AskedRight(p) /\ IdRight(p)
  BY <1>1, <1>2 DEF AskedRight, IdRight
<1>5. ListRight(p)
  BY <1>2 DEF ListRight, RowsRight
<1>6. p.pc = "compare" => p.snapshot \in DOMAIN p.versions
  BY <1>2
<1>7. ReviewRight(p)
  BY <1>1, <1>2, <1>3, <1>5, <1>6 DEF ReviewRight
<1> QED
  BY <1>2, <1>3, <1>7 DEF RequestRight, VersionsRight, SnapshotsRight, ServedRight, ContentRight

LEMMA ComparisonOfReview ==
    ASSUME PubInv, NEW q, q = reader, RequestRight(q), q.kind = "review", q.pc = "compare",
           NEW shown, shown = ReviewPage(_compare_with_published(q.snapshot, q.published, published)),
           NEW p, p = [q EXCEPT !.page = shown, !.pc = "done"]
    PROVE  RequestRight(p)
<1>1. /\ IsRequest(q) /\ AskedRight(q) /\ IdRight(q) /\ q.role = "operator"
      /\ ListRight(q) /\ q.snapshot \in DOMAIN q.versions
  BY DEF RequestRight, ReviewRight
<1>2. /\ IsRequest(p) /\ p.page = shown /\ p.pc = "done"
      /\ p.kind = q.kind /\ p.role = q.role /\ p.snapshot = q.snapshot /\ p.published = q.published
      /\ p.versions = q.versions /\ p.quiet = q.quiet /\ p.served = q.served /\ p.due = q.due
  BY <1>1 DEF IsRequest
<1>3. AskedRight(p) /\ IdRight(p) /\ ListRight(p)
  BY <1>1, <1>2 DEF AskedRight, IdRight, ListRight, RowsRight
<1>4. /\ shown.compared = published
      /\ shown.review_required = (<<q.snapshot, published>> \in ReviewRequired)
      /\ shown.can_publish = (q.versions[q.snapshot] = "pending")
      /\ shown.can_restore = (q.versions[q.snapshot] = "previously_published")
      /\ shown.expected = IF published = q.snapshot THEN NoSnapshot ELSE published
  BY DEF ReviewPage, _compare_with_published, can_publish
<1>5. PageRight(p)
  BY <1>2, <1>4, ServedWasPublished DEF PageRight
<1>6. ReviewRight(p)
  BY <1>1, <1>2, <1>3, <1>5 DEF ReviewRight
<1> QED
  BY <1>2, <1>3, <1>6 DEF RequestRight, VersionsRight, SnapshotsRight, ServedRight, ContentRight

(* The short requests: the stored snapshots, the served one, and a route of one of them. *)
LEMMA SnapshotsStatement ==
    ASSUME PubInv, StoredFirst, NEW q, q = reader, RequestRight(q), list_snapshots,
           NEW p, p = reader'
    PROVE  RequestRight(p)
<1>1. IsRequest(q) /\ AskedRight(q) /\ SnapshotsRight(q) /\ q.kind = "snapshots" /\ EverPublished \subseteq uploaded
  BY DEF list_snapshots, RequestRight, StoredFirst
<1>2. CASE q.pc = "rows" /\ p = [q EXCEPT !.ever = uploaded, !.page = {}, !.pc = "each"]
  <2>1. /\ IsRequest(p) /\ p.ever = uploaded /\ p.page = {} /\ p.pc = "each"
        /\ p.kind = q.kind /\ p.role = q.role /\ p.snapshot = q.snapshot /\ p.published = q.published
        /\ p.quiet = q.quiet /\ p.served = q.served /\ p.due = q.due
    BY <1>1, <1>2 DEF IsRequest
  <2>2. AskedRight(p)
    BY <1>1, <2>1 DEF AskedRight
  <2>3. p.due \subseteq uploaded
    BY <1>1, <2>1 DEF AskedRight
  <2>4. SnapshotsRight(p)
    BY <2>1, <2>3 DEF SnapshotsRight
  <2> QED
    BY <1>1, <2>1, <2>2, <2>4 DEF RequestRight, VersionsRight, ReviewRight, ServedRight, ContentRight
<1>3. ASSUME NEW s \in q.ever, q.pc = "each",
             p = [q EXCEPT !.ever = @ \ {s},
                           !.page = IF _visible_to(q.role, s) THEN @ \cup {s} ELSE @]
      PROVE  RequestRight(p)
  <2>1. /\ IsRequest(p) /\ p.ever = q.ever \ {s} /\ p.pc = "each"
        /\ p.page = IF _visible_to(q.role, s) THEN q.page \cup {s} ELSE q.page
        /\ p.kind = q.kind /\ p.role = q.role /\ p.snapshot = q.snapshot /\ p.published = q.published
        /\ p.quiet = q.quiet /\ p.served = q.served /\ p.due = q.due
    BY <1>1, <1>3 DEF IsRequest
  <2>2. AskedRight(p)
    BY <1>1, <2>1 DEF AskedRight
  <2>3. q.due \subseteq q.page \cup q.ever /\ (q.role = "viewer" => q.page \subseteq EverPublished)
    BY <1>1, <1>3 DEF SnapshotsRight
  <2>4. s \in q.due => _visible_to(q.role, s)
    BY <1>1 DEF AskedRight, _visible_to, Roles
  <2>5. p.role = "viewer" => p.page \subseteq EverPublished
    BY <2>1, <2>3 DEF _visible_to
  <2>6. p.due \subseteq p.page \cup p.ever
    BY <2>1, <2>3, <2>4
  <2>7. SnapshotsRight(p)
    BY <2>1, <2>5, <2>6 DEF SnapshotsRight
  <2> QED
    BY <1>1, <2>1, <2>2, <2>7 DEF RequestRight, VersionsRight, ReviewRight, ServedRight, ContentRight
<1>4. CASE q.pc = "each" /\ q.ever = {} /\ p = [q EXCEPT !.pc = "done"]
  <2>1. /\ IsRequest(p) /\ p.pc = "done" /\ p.page = q.page
        /\ p.kind = q.kind /\ p.role = q.role /\ p.snapshot = q.snapshot /\ p.published = q.published
        /\ p.quiet = q.quiet /\ p.served = q.served /\ p.due = q.due
    BY <1>1, <1>4 DEF IsRequest
  <2>2. AskedRight(p)
    BY <1>1, <2>1 DEF AskedRight
  <2>3. SnapshotsRight(p)
    BY <1>1, <1>4, <2>1 DEF SnapshotsRight
  <2> QED
    BY <1>1, <2>1, <2>2, <2>3 DEF RequestRight, VersionsRight, ReviewRight, ServedRight, ContentRight
<1> QED
  BY <1>2, <1>3, <1>4 DEF list_snapshots, Statement

LEMMA ServedStatement ==
    ASSUME PubInv, NEW q, q = reader, RequestRight(q), get_published_snapshot,
           NEW p, p = reader'
    PROVE  RequestRight(p)
<1>1. IsRequest(q) /\ AskedRight(q) /\ q.kind = "served" /\ published \in EverPublished \cup {NoSnapshot}
  BY ServedWasPublished DEF get_published_snapshot, RequestRight
<1>2. PICK shown, pc : /\ p = [q EXCEPT !.page = shown, !.pc = pc] /\ shown = {published} \ {NoSnapshot}
                      /\ pc = IF published = NoSnapshot THEN "404" ELSE "done"
  BY DEF get_published_snapshot, Statement
<1>3. /\ IsRequest(p) /\ p.page = shown /\ p.pc = pc
      /\ p.kind = q.kind /\ p.role = q.role /\ p.snapshot = q.snapshot
      /\ p.quiet = q.quiet /\ p.served = q.served /\ p.due = q.due
  BY <1>1, <1>2 DEF IsRequest
<1>4. AskedRight(p)
  BY <1>1, <1>3 DEF AskedRight
<1>5. ServedRight(p)
  BY <1>1, <1>2, <1>3 DEF ServedRight, AskedRight
<1> QED
  BY <1>1, <1>3, <1>4, <1>5 DEF RequestRight, VersionsRight, ReviewRight, SnapshotsRight, ContentRight

LEMMA RouteStatement ==
    ASSUME StoredFirst, NEW q, q = reader, RequestRight(q), snapshot_routes,
           NEW p, p = reader'
    PROVE  RequestRight(p)
<1>1. IsRequest(q) /\ AskedRight(q) /\ q.kind = "content" /\ EverPublished \subseteq uploaded
  BY DEF snapshot_routes, RequestRight, StoredFirst
<1>2. CASE _snapshot_or_404(q.role, q.snapshot)
  <2>1. PICK shown : p = [q EXCEPT !.page = shown, !.pc = "done"]
    BY <1>2 DEF snapshot_routes
  <2>2. /\ IsRequest(p) /\ p.pc = "done"
        /\ p.kind = q.kind /\ p.role = q.role /\ p.snapshot = q.snapshot
        /\ p.quiet = q.quiet /\ p.served = q.served /\ p.due = q.due
    BY <1>1, <2>1 DEF IsRequest
  <2>3. AskedRight(p)
    BY <1>1, <2>2 DEF AskedRight
  <2>4. ContentRight(p)
    BY <1>2, <2>2 DEF ContentRight, _snapshot_or_404, _visible_to
  <2> QED
    BY <1>1, <2>2, <2>3, <2>4 DEF RequestRight, VersionsRight, ReviewRight, SnapshotsRight, ServedRight
<1>3. CASE ~_snapshot_or_404(q.role, q.snapshot)
  <2>1. p = [q EXCEPT !.pc = "404"]
    BY <1>3 DEF snapshot_routes
  <2>2. /\ IsRequest(p) /\ p.pc = "404"
        /\ p.kind = q.kind /\ p.role = q.role /\ p.snapshot = q.snapshot
        /\ p.quiet = q.quiet /\ p.served = q.served /\ p.due = q.due
    BY <1>1, <2>1 DEF IsRequest
  <2>3. AskedRight(p)
    BY <1>1, <2>2 DEF AskedRight
  <2>4. q.snapshot \notin q.due
    BY <1>1, <1>3 DEF AskedRight, Roles, _snapshot_or_404, _visible_to
  <2>5. ContentRight(p)
    BY <2>2, <2>4 DEF ContentRight
  <2> QED
    BY <1>1, <2>2, <2>3, <2>5 DEF RequestRight, VersionsRight, ReviewRight, SnapshotsRight, ServedRight
<1> QED
  BY <1>2, <1>3

(* What was right stays right while the tables do not change, and while they grow beside a
   request that is not over, or beside a review page. *)
LEMMA RightKept ==
    ASSUME UNCHANGED pubVars, NEW CONSTANT p, RequestRight(p)
    PROVE  RequestRight(p)'
<1>1. /\ uploaded' = uploaded /\ published' = published /\ trail' = trail /\ EverPublished' = EverPublished
  BY DEF pubVars, EverPublished
<1>2. IsRequest(p)' /\ AskedRight(p)'
  BY <1>1 DEF RequestRight, IsRequest, AskedRight
<1>3. IdRight(p) => IdRight(p)'
  BY <1>1 DEF IdRight
<1>4. EverRight(p) => EverRight(p)'
  BY <1>1 DEF EverRight
<1>5. ListRight(p) => ListRight(p)'
  BY <1>1 DEF ListRight, RowsRight
<1>6. AllListed(p) => AllListed(p)'
  BY <1>1 DEF AllListed, RowsComplete
<1>7. IdBesideRight(p) => IdBesideRight(p)'
  BY <1>1 DEF IdBesideRight
<1>8. EventsRight(p) => EventsRight(p)'
  BY <1>1 DEF EventsRight
<1>9. PageRight(p) => PageRight(p)'
  BY <1>1 DEF PageRight
<1>10. VersionsRight(p)'
  BY <1>3, <1>4, <1>5, <1>6, <1>7, <1>8 DEF RequestRight, VersionsRight
<1>11. ReviewRight(p)'
  BY <1>3, <1>4, <1>5, <1>9 DEF RequestRight, ReviewRight
<1>12. SnapshotsRight(p)' /\ ServedRight(p)' /\ ContentRight(p)'
  BY <1>1 DEF RequestRight, SnapshotsRight, ServedRight, ContentRight
<1> QED
  BY <1>2, <1>10, <1>11, <1>12 DEF RequestRight

LEMMA RightBeside ==
    ASSUME uploaded \subseteq uploaded', EverPublished \subseteq EverPublished',
           trail' = trail => published' = published /\ EverPublished' = EverPublished,
           NEW CONSTANT q, RequestRight(q), q.pc \in {"done", "404", "503"} => q.kind = "review",
           NEW CONSTANT p,
           p = IF trail' = trail THEN q
               ELSE [q EXCEPT !.quiet = FALSE, !.served = @ \cup {published'}]
    PROVE  RequestRight(p)'
<1>1. IsRequest(q) /\ AskedRight(q)
  BY DEF RequestRight
<1>2. /\ IsRequest(p) /\ p.kind = q.kind /\ p.role = q.role /\ p.snapshot = q.snapshot /\ p.pc = q.pc
      /\ p.published = q.published /\ p.ever = q.ever /\ p.versions = q.versions /\ p.page = q.page
      /\ p.due = q.due
      /\ p.quiet \in BOOLEAN
      /\ p.quiet => q.quiet /\ trail' = trail
      /\ p.served = IF trail' = trail THEN q.served ELSE q.served \cup {published'}
  <2>1. CASE trail' = trail
    BY <1>1, <2>1 DEF AskedRight
  <2>2. CASE trail' # trail
    BY <1>1, <2>2 DEF IsRequest
  <2> QED
    BY <2>1, <2>2
<1>3. /\ p.quiet \in BOOLEAN
      /\ p.quiet => q.quiet /\ published' = published /\ EverPublished' = EverPublished
      /\ q.served \subseteq p.served /\ published' \in p.served
  <2>1. published \in q.served
    BY <1>1 DEF AskedRight
  <2>2. published' \in p.served
    BY <1>2, <2>1
  <2>3. q.served \subseteq p.served
    BY <1>2
  <2> QED
    BY <1>2, <2>2, <2>3
<1>4. IsRequest(p)' /\ AskedRight(p)'
  BY <1>1, <1>2, <1>3 DEF IsRequest, AskedRight
<1>5. IdRight(q) => IdRight(p)'
  BY <1>2, <1>3 DEF IdRight
<1>6. EverRight(q) => EverRight(p)'
  BY <1>2, <1>3 DEF EverRight
<1>7. ListRight(q) => ListRight(p)'
  BY <1>2, <1>3 DEF ListRight, RowsRight
<1>8. AllListed(q) => AllListed(p)'
  BY <1>2, <1>3 DEF AllListed, RowsComplete
<1>9. IdBesideRight(q) => IdBesideRight(p)'
  BY <1>2, <1>3 DEF IdBesideRight
<1>10. PageRight(q) => PageRight(p)'
  BY <1>2, <1>3 DEF PageRight
<1>11. VersionsRight(p)'
  BY <1>2, <1>5, <1>6, <1>7, <1>8, <1>9 DEF RequestRight, VersionsRight
<1>12. ReviewRight(p)'
  BY <1>2, <1>5, <1>6, <1>7, <1>10 DEF RequestRight, ReviewRight
<1>13. SnapshotsRight(p)' /\ ServedRight(p)' /\ ContentRight(p)'
  BY <1>2, <1>3 DEF RequestRight, SnapshotsRight, ServedRight, ContentRight
<1> QED
  BY <1>4, <1>11, <1>12, <1>13 DEF RequestRight

LEMMA AskRight ==
    ASSUME StoredFirst, Ask, NEW p, p = reader'
    PROVE  RequestRight(p)
<1>0. PICK role \in Roles : \E s \in Snapshots :
         \/ p = Asked("versions", role, NoSnapshot, "published")
         \/ role = "operator" /\ p = Asked("review", role, s, "published")
         \/ p = Asked("snapshots", role, NoSnapshot, "rows")
         \/ p = Asked("served", role, NoSnapshot, "published")
         \/ p = Asked("content", role, s, "record")
  BY DEF Ask
<1>1. PICK kind, s, pc :
        /\ p = Asked(kind, role, s, pc)
        /\ \/ kind = "versions" /\ pc = "published"
           \/ kind = "review" /\ pc = "published" /\ role = "operator" /\ s \in Snapshots
           \/ kind = "snapshots" /\ pc = "rows"
           \/ kind = "served" /\ pc = "published"
           \/ kind = "content" /\ pc = "record" /\ s \in Snapshots
  BY <1>0
<1>2. /\ IsRequest(p) /\ p.kind = kind /\ p.role = role /\ p.snapshot = s /\ p.pc = pc
      /\ p.quiet = TRUE /\ p.served = {published}
      /\ p.due = IF role = "operator" THEN uploaded ELSE EverPublished
  BY <1>1 DEF Asked, IsRequest
<1>3. AskedRight(p)
  BY <1>1, <1>2 DEF AskedRight
<1>4. VersionsRight(p) /\ ReviewRight(p)
  BY <1>1, <1>2 DEF VersionsRight, ReviewRight
<1>5. SnapshotsRight(p) /\ ServedRight(p) /\ ContentRight(p)
  BY <1>1, <1>2 DEF SnapshotsRight, ServedRight, ContentRight
<1> QED
  BY <1>2, <1>3, <1>4, <1>5 DEF RequestRight

(* Every statement of a request leaves it right, or lost with the database. *)
LEMMA StatementRight ==
    ASSUME PubInv, StoredFirst, NEW q, q = reader, RequestRight(q), NEW p, p = reader',
           \/ get_versions \/ get_review \/ list_snapshots \/ get_published_snapshot \/ snapshot_routes
    PROVE  RequestRight(p)
<1>1. CASE get_versions
  <2>0. q.kind = "versions"
    BY <1>1 DEF get_versions
  <2>1. CASE Statement("published") /\ ReadPublishedId("ever")
    BY <2>0, <2>1, IdStatement DEF Statement, ReadPublishedId
  <2>2. CASE Statement("ever") /\ ReadEverPublished("rows")
    BY <2>0, <2>2, EverStatement DEF Statement, ReadEverPublished
  <2>3. CASE Statement("rows") /\ reader' = [reader EXCEPT
               !.versions = list_versions(reader.role = "operator", Snapshots), !.ever = {}, !.pc = "id"]
    <3>1. AskedRight(q) /\ IdRight(q) /\ EverRight(q) /\ q.pc = "rows"
      BY <2>0, <2>3 DEF Statement, RequestRight, VersionsRight
    <3>2. PICK list : list = list_versions(q.role = "operator", Snapshots)
      OBVIOUS
    <3>3. RowsRight(q, list) /\ RowsComplete(q, list)
      BY <3>1, <3>2, VersionRows
    <3>4. p = [q EXCEPT !.versions = list, !.ever = {}, !.pc = "id"]
      BY <2>3, <3>2
    <3> QED
      BY <2>0, <3>1, <3>3, <3>4, RowsOfVersions
  <2>4. CASE Statement("id") /\ reader' = [reader EXCEPT
               !.page = [published_snapshot_id |-> published, events |-> << >>], !.pc = "events"]
    BY <2>0, <2>4, IdOfVersions DEF Statement
  <2>5. CASE Statement("events") /\ reader' = [reader EXCEPT
               !.page.events = list_publication_events(DOMAIN reader.versions), !.pc = "done"]
    <3>1. PICK events : events = list_publication_events(DOMAIN q.versions)
      OBVIOUS
    <3>2. p = [q EXCEPT !.page.events = events, !.pc = "done"] /\ q.pc = "events"
      BY <2>5, <3>1 DEF Statement
    <3> QED
      BY <2>0, <3>1, <3>2, EventsOfVersions
  <2> QED
    BY <1>1, <2>1, <2>2, <2>3, <2>4, <2>5 DEF get_versions
<1>2. CASE get_review
  <2>0. q.kind = "review" /\ q.role = "operator"
    BY <1>2 DEF get_review, RequestRight, ReviewRight
  <2>1. CASE Statement("published") /\ ReadPublishedId("ever")
    BY <2>0, <2>1, IdStatement DEF Statement, ReadPublishedId
  <2>2. CASE Statement("ever") /\ ReadEverPublished("rows")
    BY <2>0, <2>2, EverStatement DEF Statement, ReadEverPublished
  <2>3. CASE /\ Statement("rows")
             /\ LET found == list_versions(TRUE, {reader.snapshot})
                IN  reader' = [reader EXCEPT !.versions = found, !.ever = {},
                                             !.pc = IF DOMAIN found = {} THEN "404" ELSE "compare"]
    <3>1. IdRight(q) /\ EverRight(q) /\ q.pc = "rows"
      BY <2>0, <2>3 DEF Statement, RequestRight, ReviewRight
    <3>2. PICK list : list = list_versions(TRUE, {q.snapshot})
      OBVIOUS
    <3>3. RowsRight(q, list) /\ DOMAIN list \subseteq {q.snapshot}
      BY <2>0, <3>1, <3>2, ReviewRow
    <3>4. PICK next : next = IF DOMAIN list = {} THEN "404" ELSE "compare"
      OBVIOUS
    <3>5. p = [q EXCEPT !.versions = list, !.ever = {}, !.pc = next]
      BY <2>3, <3>2, <3>4
    <3>6. next \in {"404", "compare"} /\ (next = "compare" => DOMAIN list # {})
      BY <3>4
    <3>7. p.versions = list /\ p.pc = next
      <4>1. IsRequest(q)
        BY DEF RequestRight
      <4> QED
        BY <3>5, <4>1 DEF IsRequest
    <3>8. p = [q EXCEPT !.versions = p.versions, !.ever = {}, !.pc = p.pc]
      BY <3>5, <3>7
    <3>9. /\ RowsRight(q, p.versions) /\ DOMAIN p.versions \subseteq {q.snapshot}
          /\ p.pc \in {"404", "compare"} /\ (p.pc = "compare" => DOMAIN p.versions # {})
      BY <3>3, <3>6, <3>7
    <3> QED
      BY <2>0, <3>1, <3>8, <3>9, RowOfReview
  <2>4. CASE Statement("compare") /\ reader' = [reader EXCEPT
               !.page = ReviewPage(_compare_with_published(reader.snapshot, reader.published, published)),
               !.pc = "done"]
    <3>1. PICK shown : shown = ReviewPage(_compare_with_published(q.snapshot, q.published, published))
      OBVIOUS
    <3>2. p = [q EXCEPT !.page = shown, !.pc = "done"] /\ q.pc = "compare"
      BY <2>4, <3>1 DEF Statement
    <3> QED
      BY <2>0, <3>1, <3>2, ComparisonOfReview
  <2> QED
    BY <1>2, <2>1, <2>2, <2>3, <2>4 DEF get_review
<1>3. CASE list_snapshots
  BY <1>3, SnapshotsStatement
<1>4. CASE get_published_snapshot
  BY <1>4, ServedStatement
<1>5. CASE snapshot_routes
  BY <1>5, RouteStatement
<1> QED
  BY <1>1, <1>2, <1>3, <1>4, <1>5

LEMMA ViewInitInv == ViewInit => ViewInv
<1>1. ViewInit => PubInv
  BY PubInitInv DEF ViewInit
<1>2. ViewInit => StoredFirst
  BY PublicationAssumption DEF ViewInit, PubInit, StoredFirst, EverPublished, NoReview, PublicationAssumption
<1> QED
  BY <1>1, <1>2 DEF ViewInit, ViewInv, Unasked

LEMMA ViewNextInv ==
    ASSUME ViewInv, [ViewNext]_viewVars
    PROVE  ViewInv'
<1> DEFINE Reads == get_versions \/ get_review \/ list_snapshots \/ get_published_snapshot \/ snapshot_routes
<1>1. PubInv /\ StoredFirst /\ (reader \in Unasked \/ RequestRight(reader))
  BY DEF ViewInv
<1>2. CASE Meanwhile
  <2>1. /\ PubInv' /\ StoredFirst'
        /\ uploaded \subseteq uploaded' /\ EverPublished \subseteq EverPublished'
        /\ trail' = trail => published' = published /\ EverPublished' = EverPublished
    BY <1>1, <1>2, HistoryGrows DEF Meanwhile
  <2>2. PICK q : q = reader
    OBVIOUS
  <2>3. PICK p : p = reader'
    OBVIOUS
  <2>4. CASE reader \in Unasked
    <3>1. reader = NoRead
      BY <1>2, <2>4 DEF Meanwhile, Over, Unasked, NoRead
    <3>2. reader' \in Unasked
      BY <1>2, <3>1 DEF Meanwhile, Unasked
    <3> QED
      BY <2>1, <3>2 DEF ViewInv, Unasked, NoRead
  <2>5. CASE RequestRight(reader)
    <3>1. q # NoRead
      BY <2>2, <2>5 DEF RequestRight, AskedRight, NoRead
    <3>2. /\ q.pc \in {"done", "404", "503"} => q.kind = "review"
          /\ p = IF trail' = trail THEN q ELSE [q EXCEPT !.quiet = FALSE, !.served = @ \cup {published'}]
      BY <1>2, <2>2, <2>3, <3>1 DEF Meanwhile, Over
    <3>3. RequestRight(p)'
      BY <2>1, <2>2, <2>5, <3>2, RightBeside
    <3>4. RequestRight(reader)'
      BY <2>3, <3>3
    <3> QED
      BY <2>1, <3>4 DEF ViewInv
  <2> QED
    BY <1>1, <2>4, <2>5
<1>3. ASSUME UNCHANGED pubVars
      PROVE  PubInv' /\ StoredFirst'
  BY <1>1, <1>3, HistoryGrows
<1>4. CASE Ask
  <2>1. UNCHANGED pubVars
    BY <1>4 DEF Ask
  <2>2. PICK p : p = reader'
    OBVIOUS
  <2>3. RequestRight(p)'
    BY <1>1, <1>4, <2>1, <2>2, AskRight, RightKept
  <2> QED
    BY <1>3, <2>1, <2>2, <2>3 DEF ViewInv
<1>5. CASE Reads
  <2>1. UNCHANGED pubVars
    BY <1>5 DEF get_versions, get_review, list_snapshots, get_published_snapshot, snapshot_routes, Statement
  <2>2. RequestRight(reader)
    <3>1. reader.kind \in {"versions", "review", "snapshots", "served", "content"}
      BY <1>5 DEF get_versions, get_review, list_snapshots, get_published_snapshot, snapshot_routes
    <3>2. reader \notin Unasked
      BY <3>1 DEF Unasked, NoRead
    <3> QED
      BY <1>1, <3>2
  <2>3. PICK q : q = reader
    OBVIOUS
  <2>4. PICK p : p = reader'
    OBVIOUS
  <2>5. RequestRight(p)
    BY <1>1, <1>5, <2>2, <2>3, <2>4, StatementRight
  <2>6. RequestRight(p)'
    BY <2>1, <2>5, RightKept
  <2> QED
    BY <1>3, <2>1, <2>4, <2>6 DEF ViewInv
<1>6. CASE get_forestry_read_connection
  BY <1>3, <1>6 DEF get_forestry_read_connection, ViewInv, Unasked
<1>7. CASE UNCHANGED viewVars
  <2>1. UNCHANGED pubVars /\ reader' = reader
    BY <1>7 DEF viewVars, pubVars
  <2>2. PICK p : p = reader
    OBVIOUS
  <2>3. RequestRight(p) => RequestRight(p)'
    BY <2>1, RightKept
  <2>4. reader' \in Unasked \/ RequestRight(reader)'
    BY <1>1, <2>1, <2>2, <2>3
  <2> QED
    BY <1>3, <2>1, <2>4 DEF ViewInv, Unasked, NoRead
<1> QED
  BY <1>2, <1>4, <1>5, <1>6, <1>7 DEF ViewNext

(* The status that a row of a quiet answer carries. *)
LEMMA QuietStatus ==
    ASSUME NEW q, ListRight(q), q.quiet, NEW s \in DOMAIN q.versions
    PROVE  /\ q.versions[s] = "published" <=> s = published
           /\ q.versions[s] = "previously_published" <=> s \in EverPublished \ {published}
           /\ q.versions[s] = "pending" <=> s # published /\ s \notin EverPublished
BY DEF ListRight, RowsRight, VersionStatus

(* What a request that is over has told. *)
LEMMA VersionsTold ==
    ASSUME PubInv, NEW q, q = reader, RequestRight(q), Done("versions")
    PROVE  ViewersSeePublishedOnly /\ MarkedWasServed /\ QuietHistoryIsExact
<1>1. /\ q.kind = "versions" /\ q.pc = "done"
      /\ IdRight(q) /\ ListRight(q) /\ AllListed(q) /\ IdBesideRight(q) /\ EventsRight(q)
  BY DEF Done, RequestRight, VersionsRight
<1>2. /\ published \in EverPublished \cup {NoSnapshot}
      /\ \A k \in DOMAIN trail : /\ trail[k].snapshot \in EverPublished
                                 /\ trail[k].previous \in EverPublished \cup {NoSnapshot}
  BY ServedWasPublished
<1>3. ViewersSeePublishedOnly
  <2>1. Named = DOMAIN q.versions \cup {q.page.published_snapshot_id}
                  \cup UNION {{e.snapshot, e.previous} : e \in Range(q.page.events)}
    BY DEF Named
  <2>2. \A e \in Range(q.page.events) : e.snapshot \in EverPublished /\ e.previous \in EverPublished \cup {NoSnapshot}
    BY <1>1, <1>2 DEF Range, EventsRight
  <2>3. q.page.published_snapshot_id \in EverPublished \cup {NoSnapshot}
    BY <1>1 DEF IdBesideRight
  <2>4. q.role = "viewer" => DOMAIN q.versions \subseteq EverPublished
    BY <1>1 DEF ListRight, RowsRight
  <2>5. UNION {{e.snapshot, e.previous} : e \in Range(q.page.events)} \subseteq EverPublished \cup {NoSnapshot}
    BY <2>2
  <2> QED
    BY <2>1, <2>3, <2>4, <2>5 DEF ViewersSeePublishedOnly
<1>4. MarkedWasServed
  <2> DEFINE marked == {s \in DOMAIN q.versions : q.versions[s] = "published"}
  <2>1. marked \subseteq {q.published}
    BY <1>1 DEF ListRight, RowsRight
  <2>2. marked \subseteq q.served
    BY <1>1, <2>1 DEF IdRight
  <2>3. Cardinality(marked) <= 1
    <3>1. marked = {} \/ marked = {q.published}
      BY <2>1
    <3> HIDE DEF marked
    <3>2. Cardinality({}) = 0 /\ Cardinality({q.published}) = 1
      BY FS_EmptySet, FS_Singleton
    <3> QED
      BY <3>1, <3>2
  <2>4. q.page.published_snapshot_id \in q.served
    BY <1>1 DEF IdBesideRight
  <2>5. ~Done("served")
    BY DEF Done
  <2> QED
    BY <2>2, <2>3, <2>4, <2>5 DEF MarkedWasServed
<1>5. QuietHistoryIsExact
  <2>1. q.quiet => \A s \in DOMAIN q.versions :
                      /\ q.versions[s] = "published" <=> s = published
                      /\ q.versions[s] = "previously_published" <=> s \in EverPublished \ {published}
    BY <1>1, QuietStatus
  <2>2. q.quiet => published \in DOMAIN q.versions \cup {NoSnapshot}
    BY <1>1, <1>2 DEF AllListed, RowsComplete
  <2>3. q.quiet => q.page.published_snapshot_id = published /\ q.page.events = trail
    BY <1>1 DEF IdBesideRight, EventsRight
  <2> QED
    BY <2>1, <2>2, <2>3 DEF QuietHistoryIsExact
<1> QED
  BY <1>3, <1>4, <1>5

LEMMA ReviewTold ==
    ASSUME PubInv, NEW q, q = reader, RequestRight(q), Done("review")
    PROVE  OffersAreRight /\ PublishedAsCompared
<1>1. /\ q.kind = "review" /\ q.pc = "done" /\ q.snapshot \in Snapshots
      /\ q.snapshot \in DOMAIN q.versions /\ ListRight(q) /\ PageRight(q)
  BY DEF Done, RequestRight, ReviewRight, AskedRight
<1>2. /\ published \in EverPublished \cup {NoSnapshot} /\ NoSnapshot \notin Snapshots
  BY ServedWasPublished, PublicationAssumption DEF PublicationAssumption
<1> DEFINE s == q.snapshot
           shown == q.page
<1>3. OffersAreRight
  <2>1. ASSUME q.quiet
        PROVE  /\ shown.can_publish => MayActivate(s, "publish", shown.expected)
               /\ shown.can_restore => MayActivate(s, "restore", shown.expected)
               /\ ~shown.can_publish /\ ~shown.can_restore => s = published
    <3>1. /\ q.versions[s] = "published" <=> s = published
          /\ q.versions[s] = "previously_published" <=> s \in EverPublished \ {published}
          /\ q.versions[s] = "pending" <=> s # published /\ s \notin EverPublished
      BY <1>1, <2>1, QuietStatus
    <3>2. /\ shown.compared = published
          /\ shown.can_publish = (q.versions[s] = "pending")
          /\ shown.can_restore = (q.versions[s] = "previously_published")
          /\ shown.expected = IF published = s THEN NoSnapshot ELSE published
      BY <1>1, <2>1 DEF PageRight
    <3> QED
      BY <1>1, <1>2, <3>1, <3>2 DEF MayActivate
  <2> QED
    BY <2>1 DEF OffersAreRight
<1>4. PublishedAsCompared
  <2>1. ASSUME shown.can_publish, MayActivate(s, "publish", shown.expected)
        PROVE  shown.compared = published /\ (shown.review_required <=> <<s, published>> \in ReviewRequired)
    <3>1. /\ shown.compared \in EverPublished \cup {NoSnapshot}
          /\ shown.review_required = (<<s, shown.compared>> \in ReviewRequired)
          /\ shown.expected = IF shown.compared = s THEN NoSnapshot ELSE shown.compared
      BY <1>1 DEF PageRight
    <3>2. s \notin EverPublished /\ shown.expected = published
      BY <2>1 DEF MayActivate
    <3>3. shown.compared # s
      BY <1>1, <1>2, <3>1, <3>2
    <3>4. shown.compared = published
      BY <3>1, <3>2, <3>3
    <3> QED
      BY <3>1, <3>4
  <2> QED
    BY <2>1 DEF PublishedAsCompared
<1> QED
  BY <1>3, <1>4

LEMMA ViewInvImpliesTold == ViewInv => ReadersTold
<1> SUFFICES ASSUME ViewInv PROVE ReadersTold
  OBVIOUS
<1>1. PubInv
  BY DEF ViewInv
<1>2. CASE reader \in Unasked
  <2>1. reader.kind = "none"
    BY <1>2 DEF Unasked, NoRead
  <2>2. \A kind \in {"versions", "review", "snapshots", "served", "content"} : ~Done(kind)
    BY <2>1 DEF Done
  <2>3. Named = {}
    BY <2>2 DEF Named
  <2> QED
    BY <2>1, <2>2, <2>3 DEF ReadersTold, ViewersSeePublishedOnly, NothingMissing, MarkedWasServed,
                            QuietHistoryIsExact, OffersAreRight, PublishedAsCompared
<1>3. CASE RequestRight(reader)
  <2>1. PICK q : q = reader
    OBVIOUS
  <2>2. /\ RequestRight(q) /\ VersionsRight(q) /\ SnapshotsRight(q) /\ ServedRight(q) /\ ContentRight(q)
    BY <1>3, <2>1 DEF RequestRight
  <2>3. NothingMissing
    BY <2>1, <2>2 DEF NothingMissing, Done, VersionsRight, SnapshotsRight, ServedRight, ContentRight,
                      AllListed, RowsComplete
  <2>4. OffersAreRight /\ PublishedAsCompared
    <3>1. CASE Done("review")
      BY <1>1, <2>1, <2>2, <3>1, ReviewTold
    <3> QED
      BY <3>1 DEF OffersAreRight, PublishedAsCompared
  <2>5. ViewersSeePublishedOnly /\ MarkedWasServed /\ QuietHistoryIsExact
    <3>1. CASE Done("versions")
      BY <1>1, <2>1, <2>2, <3>1, VersionsTold
    <3>2. CASE ~Done("versions")
      <4>1. Named = IF Done("snapshots") \/ Done("served") THEN q.page
                    ELSE IF Done("content") THEN {q.snapshot} ELSE {}
        BY <2>1, <3>2 DEF Named
      <4>2. ViewersSeePublishedOnly
        BY <2>1, <2>2, <4>1 DEF ViewersSeePublishedOnly, Done, SnapshotsRight, ServedRight, ContentRight
      <4>3. Done("served") => q.page \subseteq q.served
        BY <2>1, <2>2 DEF Done, ServedRight
      <4> QED
        BY <2>1, <3>2, <4>2, <4>3 DEF MarkedWasServed, QuietHistoryIsExact
    <3> QED
      BY <3>1, <3>2
  <2> QED
    BY <2>3, <2>4, <2>5 DEF ReadersTold
<1> QED
  BY <1>2, <1>3 DEF ViewInv

(* However the statements of a request are torn by publications and uploads, its answer
   names no pending version to a viewer, leaves nothing out, marks at most one version that
   was served, and offers and compares what the server will accept (forestry_versions.py,
   routers/forestry.py, the reads of routers/forestry_workflow.py). *)
THEOREM ReadersCorrect == ViewSpec => []ReadersTold
<1>1. ViewInit => ViewInv
  BY ViewInitInv
<1>2. ViewInv /\ [ViewNext]_viewVars => ViewInv'
  BY ViewNextInv
<1> QED
  BY <1>1, <1>2, ViewInvImpliesTold, PTL DEF ViewSpec

-----------------------------------------------------------------------------
(* The management reports.                                                 *)

(* What requests in progress and pages hold on to: a page's report was       *)
(* created, and while a rename is under way its report stays editable, at    *)
(* the revision of the page, and in no other rename.                         *)
InProgress ==
    \A u \in Users :
        /\ page[u].state # "none" =>
             page[u].report \in Reports /\ report[page[u].report].status # "absent"
        /\ tx[u].pc # "idle" => tx[u].name \in Names
        /\ tx[u].pc \in {"copying", "copied"} => tx[u].report \in Reports
        /\ tx[u].pc = "renaming" =>
             /\ tx[u].report \in Reports
             /\ Editable(tx[u].report)
             /\ page[u].state = "loaded"
             /\ page[u].report = tx[u].report
             /\ page[u].revision = report[tx[u].report].revision
             /\ \A v \in Users \ {u} :
                  tx[v].pc = "renaming" => tx[v].report # tx[u].report

(* A row that is not there, or not any more, was never submitted. *)
NeverSubmitted ==
    \A r \in Reports :
        /\ report[r].status = "absent" => report[r] = Absent
        /\ report[r].status = "deleted" => ~report[r].submitted

(* No page is ahead of its report; one that is not behind is true, as far as *)
(* it has been read.                                                         *)
PagesLag ==
    \A u \in Users :
        LET r == page[u].report
        IN  page[u].state # "none" =>
              /\ page[u].revision <= report[r].revision
              /\ page[u].revision = report[r].revision /\ Exists(r) =>
                   /\ page[u].name = report[r].name
                   /\ page[u].state = "loaded" => page[u].content = report[r].content

(* No active report among these rows has the name. *)
FreeIn(rows, n) ==
    \A q \in Reports :
        rows[q].status \notin {"absent", "deleted", "archivado"} => rows[q].name # n

(* A name that a copy has inserted is free for it, and held by no other copy. *)
NamesHeld ==
    \A u \in Users :
        tx[u].pc = "copied" =>
            /\ FreeIn(report, tx[u].name)
            /\ \A v \in Users \ {u} : tx[v].pc = "copied" => tx[v].name # tx[u].name

ReportsInv ==
    /\ TypeOK
    /\ InProgress
    /\ NeverSubmitted
    /\ PagesLag
    /\ NamesHeld
    /\ UniqueNames
    /\ ReviewHasSubject

----------------------------------------------------------------------------
(* Effects of the actions *)

(* A change of one existing row, by the user whose page is current: the      *)
(* revision goes up, and the answer reaches the page or does not.            *)
Wrote(u, r) ==
    /\ r \in Reports
    /\ Exists(r)
    /\ page[u].state = "loaded"
    /\ page[u].report = r
    /\ page[u].revision = report[r].revision
    /\ \A q \in Reports \ {r} : report'[q] = report[q]
    /\ report'[r].revision = report[r].revision + 1
    /\ report'[r].status \notin {"absent", "deleted"}
    /\ \A v \in Users \ {u} : page'[v] = page[v]
    /\ \/ page'[u] = page[u]
       \/ /\ page'[u].state = "loaded"
          /\ page'[u].report = r
          /\ page'[u].revision = report'[r].revision
          /\ page'[u].name = report'[r].name
          /\ page'[u].content = report'[r].content

(* A new row, with the name its transaction found free. *)
Inserted(u, r) ==
    /\ r \in Reports
    /\ report[r].status = "absent"
    /\ \A q \in Reports \ {r} : report'[q] = report[q]
    /\ report'[r].status = "borrador"
    /\ report'[r].name = tx[u].name
    /\ report'[r].revision = 1
    /\ report'[r].submitted = FALSE
    /\ report'[r].notes = 0
    /\ page' = page

(* An absent row is well formed. *)
LEMMA AbsentRow == Absent \in Row
PROOF
  BY ReportsAssumption DEF Absent, Row, Status

(* The fields of a row or a page with its revision counted up. *)
LEMMA BumpedRow ==
    ASSUME NEW row \in Row
    PROVE  /\ [row EXCEPT !.revision = @ + 1] \in Row
           /\ [row EXCEPT !.revision = @ + 1]
                = [status |-> row.status, name |-> row.name, content |-> row.content,
                   revision |-> row.revision + 1, submitted |-> row.submitted,
                   notes |-> row.notes]
PROOF
  BY DEF Row

LEMMA BumpedPage ==
    ASSUME NEW shown \in Page
    PROVE  /\ [shown EXCEPT !.revision = @ + 1] \in Page
           /\ [shown EXCEPT !.revision = @ + 1]
                = [state |-> shown.state, report |-> shown.report, name |-> shown.name,
                   content |-> shown.content, revision |-> shown.revision + 1]
PROOF
  BY DEF Page

(* The fields of a row or a page with another content or name. *)
LEMMA RowWithContent ==
    ASSUME NEW row \in Row, NEW x \in Contents
    PROVE  /\ [row EXCEPT !.content = x] \in Row
           /\ [row EXCEPT !.content = x]
                = [status |-> row.status, name |-> row.name, content |-> x,
                   revision |-> row.revision, submitted |-> row.submitted,
                   notes |-> row.notes]
PROOF
  BY DEF Row

LEMMA RowWithName ==
    ASSUME NEW row \in Row, NEW x \in Names
    PROVE  /\ [row EXCEPT !.name = x] \in Row
           /\ [row EXCEPT !.name = x]
                = [status |-> row.status, name |-> x, content |-> row.content,
                   revision |-> row.revision, submitted |-> row.submitted,
                   notes |-> row.notes]
PROOF
  BY DEF Row

LEMMA PageWithContent ==
    ASSUME NEW shown \in Page, NEW x \in Contents
    PROVE  /\ [shown EXCEPT !.content = x] \in Page
           /\ [shown EXCEPT !.content = x]
                = [state |-> shown.state, report |-> shown.report, name |-> shown.name, content |-> x,
                   revision |-> shown.revision]
PROOF
  BY DEF Page

LEMMA PageWithName ==
    ASSUME NEW shown \in Page, NEW x \in Names
    PROVE  /\ [shown EXCEPT !.name = x] \in Page
           /\ [shown EXCEPT !.name = x]
                = [state |-> shown.state, report |-> shown.report, name |-> x,
                   content |-> shown.content, revision |-> shown.revision]
PROOF
  BY DEF Page

(* A new CONAF number changes nothing but the revision. *)
LEMMA SetConafEffect ==
    ASSUME TypeOK, PagesLag, NEW u \in Users, NEW r \in Reports, SetConaf(u, r)
    PROVE  /\ Wrote(u, r)
           /\ report' \in [Reports -> Row]
           /\ page' \in [Users -> Page]
           /\ tx' = tx
           /\ report'[r] = [report[r] EXCEPT !.revision = @ + 1]
PROOF
<1>1. report[r] \in Row /\ page[u] \in Page
  BY DEF TypeOK
<1>2. /\ report' = [report EXCEPT ![r] = [report[r] EXCEPT !.revision = @ + 1]]
      /\ tx' = tx
  BY DEF SetConaf, Change
<1>3. [report[r] EXCEPT !.revision = @ + 1] \in Row
  BY <1>1 DEF Row
<1>4. [page[u] EXCEPT !.revision = @ + 1] \in Page
  BY <1>1 DEF Page
<1>5. report' \in [Reports -> Row] /\ report'[r] = [report[r] EXCEPT !.revision = @ + 1]
  BY <1>2, <1>3 DEF TypeOK
<1>6. \/ page' = [page EXCEPT ![u] = [page[u] EXCEPT !.revision = @ + 1]]
      \/ page' = page
  BY DEF SetConaf, Answer
<1>7. page' \in [Users -> Page]
  BY <1>4, <1>6 DEF TypeOK
<1>8. /\ Exists(r) /\ page[u].state = "loaded" /\ page[u].report = r
      /\ page[u].revision = report[r].revision
  BY DEF SetConaf, Current
<1>9. page[u].name = report[r].name /\ page[u].content = report[r].content
  BY <1>8 DEF PagesLag
<1>10. Wrote(u, r)
  BY <1>1, <1>2, <1>5, <1>6, <1>8, <1>9 DEF Wrote, TypeOK, Row, Page, Exists
<1> QED
  BY <1>2, <1>5, <1>7, <1>10

(* Saving features changes them and the revision, of an editable report. *)
LEMMA SaveEffect ==
    ASSUME TypeOK, PagesLag, NEW u \in Users, NEW r \in Reports, NEW c \in Contents,
           SaveFeatures(u, r, c)
    PROVE  /\ Wrote(u, r)
           /\ report' \in [Reports -> Row]
           /\ page' \in [Users -> Page]
           /\ tx' = tx
           /\ Editable(r)
           /\ report'[r].status = report[r].status
           /\ report'[r].name = report[r].name
           /\ report'[r].submitted = report[r].submitted
           /\ report'[r].notes = report[r].notes
PROOF
<1>1. report[r] \in Row /\ page[u] \in Page
  BY DEF TypeOK
<1>2. /\ report' = [report EXCEPT ![r] = [[report[r] EXCEPT !.content = c] EXCEPT !.revision = @ + 1]]
      /\ tx' = tx /\ Editable(r)
  BY DEF SaveFeatures, Change
<1>3. PICK row \in Row : /\ row = [report[r] EXCEPT !.content = c]
                         /\ row = [status |-> report[r].status, name |-> report[r].name,
                                   content |-> c, revision |-> report[r].revision,
                                   submitted |-> report[r].submitted,
                                   notes |-> report[r].notes]
  BY <1>1, RowWithContent
<1>4. PICK shown \in Page : /\ shown = [page[u] EXCEPT !.content = c]
                            /\ shown = [state |-> page[u].state, report |-> page[u].report,
                                        name |-> page[u].name, content |-> c,
                                        revision |-> page[u].revision]
  BY <1>1, PageWithContent
<1>5. /\ report' \in [Reports -> Row]
      /\ report'[r] = [status |-> report[r].status, name |-> report[r].name,
                       content |-> c, revision |-> report[r].revision + 1,
                       submitted |-> report[r].submitted, notes |-> report[r].notes]
  BY <1>2, <1>3, BumpedRow DEF TypeOK
<1>6. /\ page' \in [Users -> Page]
      /\ \/ page' = [page EXCEPT ![u] = [shown EXCEPT !.revision = @ + 1]]
         \/ page' = page
  <2>1. \/ page' = [page EXCEPT ![u] = [shown EXCEPT !.revision = @ + 1]]
        \/ page' = page
    BY <1>4 DEF SaveFeatures, Answer
  <2> QED
    BY <2>1, BumpedPage DEF TypeOK
<1>7. /\ \A v \in Users \ {u} : page'[v] = page[v]
      /\ \/ page'[u] = [state |-> page[u].state, report |-> page[u].report,
                         name |-> page[u].name, content |-> c,
                         revision |-> page[u].revision + 1]
         \/ page'[u] = page[u]
  BY <1>4, <1>6, BumpedPage DEF TypeOK
<1>8. /\ Exists(r) /\ page[u].state = "loaded" /\ page[u].report = r
      /\ page[u].revision = report[r].revision
  BY DEF SaveFeatures, Current
<1>9. page[u].name = report[r].name
  BY <1>8 DEF PagesLag
<1>10. Wrote(u, r)
  BY <1>1, <1>2, <1>5, <1>7, <1>8, <1>9 DEF Wrote, TypeOK, Exists
<1> QED
  BY <1>2, <1>5, <1>6, <1>10

(* A transition moves the status along the table and keeps name and features. *)
LEMMA TransitionEffect ==
    ASSUME TypeOK, PagesLag, NEW u \in Users, NEW r \in Reports, NEW action \in Actions,
           Transition(u, r, action)
    PROVE  /\ Wrote(u, r)
           /\ report' \in [Reports -> Row]
           /\ page' \in [Users -> Page]
           /\ tx' = tx
           /\ report[r].status \in AllowedFrom[action]
           /\ action = "submit" => report[r].content \in Marked
           /\ report'[r].status = Target[action]
           /\ report'[r].name = report[r].name
           /\ report'[r].content = report[r].content
           /\ report'[r].submitted = (report[r].submitted \/ action = "submit")
           /\ report'[r].notes = IF action = "request_changes" THEN report[r].notes + 1
                                                              ELSE report[r].notes
           /\ RowFree(r)
PROOF
<1> DEFINE row == [status |-> Target[action], name |-> report[r].name,
                   content |-> report[r].content, revision |-> report[r].revision + 1,
                   submitted |-> (report[r].submitted \/ action = "submit"),
                   notes |-> IF action = "request_changes" THEN report[r].notes + 1
                                                          ELSE report[r].notes]
<1>1. report[r] \in Row /\ page[u] \in Page
  BY DEF TypeOK
<1>2. Target[action] \in Status \ {"absent", "deleted"}
  BY DEF Target, Actions, Status
<1>3. report' = [report EXCEPT ![r] = row]
  <2>1. Moved(report[r], action) \in Row
    <3>1. (report[r].submitted \/ action = "submit") \in BOOLEAN
      BY <1>1 DEF Row
    <3> QED
      BY <1>1, <1>2, <3>1 DEF Row, Moved
  <2>2. [Moved(report[r], action) EXCEPT !.revision = @ + 1] = row
    BY <2>1, BumpedRow DEF Moved
  <2> QED
    BY <2>2 DEF Transition, Change
<1>4. row \in Row
  <2>1. (report[r].submitted \/ action = "submit") \in BOOLEAN
    BY <1>1 DEF Row
  <2> QED
    BY <1>1, <1>2, <2>1 DEF Row
<1>5. report' \in [Reports -> Row] /\ report'[r] = row
      /\ \A q \in Reports \ {r} : report'[q] = report[q]
  <2> HIDE DEF row
  <2> QED
    BY <1>3, <1>4 DEF TypeOK
<1>6. \/ page' = [page EXCEPT ![u] = [page[u] EXCEPT !.revision = @ + 1]]
      \/ page' = page
  BY DEF Transition, Answer
<1>7. [page[u] EXCEPT !.revision = @ + 1] \in Page
  BY <1>1 DEF Page
<1>8. page' \in [Users -> Page]
  BY <1>6, <1>7 DEF TypeOK
<1>9. /\ Exists(r) /\ page[u].state = "loaded" /\ page[u].report = r
      /\ page[u].revision = report[r].revision /\ RowFree(r)
      /\ tx' = tx
      /\ report[r].status \in AllowedFrom[action]
      /\ action = "submit" => report[r].content \in Marked
  BY DEF Transition, Current
<1>10. page[u].name = report[r].name /\ page[u].content = report[r].content
  BY <1>9 DEF PagesLag
<1>11. Wrote(u, r)
  BY <1>1, <1>2, <1>5, <1>6, <1>9, <1>10 DEF Wrote, TypeOK, Page
<1> QED
  BY <1>5, <1>8, <1>9, <1>11

(* A rename commits its change, or the index refuses it. *)
LEMMA RenameEffect ==
    ASSUME TypeOK, InProgress, PagesLag, NEW u \in Users, RenameWrite(u)
    PROVE  /\ tx[u].pc = "renaming"
           /\ tx' = [tx EXCEPT ![u] = NoWrite]
           /\ Editable(tx[u].report)
           /\ ~NameHeld(tx[u].name)
           /\ \/ report' = report /\ page' = page
              \/ /\ Wrote(u, tx[u].report)
                 /\ report' \in [Reports -> Row]
                 /\ page' \in [Users -> Page]
                 /\ IndexAdmits(tx[u].name, tx[u].report)
                 /\ report'[tx[u].report].name = tx[u].name
                 /\ report'[tx[u].report].status = report[tx[u].report].status
                 /\ report'[tx[u].report].content = report[tx[u].report].content
                 /\ report'[tx[u].report].submitted = report[tx[u].report].submitted
                 /\ report'[tx[u].report].notes = report[tx[u].report].notes
PROOF
<1>1. PICK r \in Reports, n \in Names : r = tx[u].report /\ n = tx[u].name
  BY DEF RenameWrite, InProgress
<1>2. /\ tx[u].pc = "renaming" /\ tx' = [tx EXCEPT ![u] = NoWrite] /\ ~NameHeld(tx[u].name)
      /\ Editable(r) /\ page[u].state = "loaded" /\ page[u].report = r
      /\ page[u].revision = report[r].revision
  BY <1>1 DEF RenameWrite, InProgress
<1>3. CASE ~IndexAdmits(tx[u].name, tx[u].report)
  BY <1>1, <1>2, <1>3 DEF RenameWrite
<1>4. CASE IndexAdmits(tx[u].name, tx[u].report)
  <2>1. report[r] \in Row /\ page[u] \in Page
    BY DEF TypeOK
  <2>2. report' = [report EXCEPT ![r] = [[report[r] EXCEPT !.name = n] EXCEPT !.revision = @ + 1]]
    BY <1>1, <1>4 DEF RenameWrite, Change
  <2>3. PICK row \in Row : /\ row = [report[r] EXCEPT !.name = n]
                           /\ row = [status |-> report[r].status, name |-> n,
                                     content |-> report[r].content,
                                     revision |-> report[r].revision,
                                     submitted |-> report[r].submitted,
                                     notes |-> report[r].notes]
    BY <2>1, RowWithName
  <2>4. /\ report' \in [Reports -> Row]
        /\ report'[r] = [status |-> report[r].status, name |-> n,
                         content |-> report[r].content, revision |-> report[r].revision + 1,
                         submitted |-> report[r].submitted, notes |-> report[r].notes]
    BY <2>2, <2>3, BumpedRow DEF TypeOK
  <2>5. PICK shown \in Page : /\ shown = [page[u] EXCEPT !.name = n]
                              /\ shown = [state |-> page[u].state, report |-> page[u].report,
                                          name |-> n, content |-> page[u].content,
                                          revision |-> page[u].revision]
    BY <2>1, PageWithName
  <2>6. /\ page' \in [Users -> Page]
        /\ \/ page' = [page EXCEPT ![u] = [shown EXCEPT !.revision = @ + 1]]
           \/ page' = page
    <3>1. \/ page' = [page EXCEPT ![u] = [shown EXCEPT !.revision = @ + 1]]
          \/ page' = page
      BY <1>1, <1>4, <2>5 DEF RenameWrite, Answer
    <3> QED
      BY <3>1, BumpedPage DEF TypeOK
  <2>7. /\ \A v \in Users \ {u} : page'[v] = page[v]
        /\ \/ page'[u] = [state |-> page[u].state, report |-> page[u].report,
                           name |-> n, content |-> page[u].content,
                           revision |-> page[u].revision + 1]
           \/ page'[u] = page[u]
    BY <2>5, <2>6, BumpedPage DEF TypeOK
  <2>8. Exists(r)
    BY <1>2 DEF Editable, Exists
  <2>9. page[u].content = report[r].content
    BY <1>2, <2>8 DEF PagesLag
  <2>10. Wrote(u, r)
    BY <1>2, <2>1, <2>2, <2>4, <2>7, <2>8, <2>9 DEF Wrote, TypeOK, Exists
  <2> QED
    BY <1>1, <1>2, <1>4, <2>4, <2>6, <2>10
<1> QED
  BY <1>3, <1>4

(* A creation inserts its row, or the index refuses it. *)
LEMMA CreateEffect ==
    ASSUME TypeOK, InProgress, NEW u \in Users, NEW r \in Reports, CreateInsert(u, r)
    PROVE  /\ tx[u].pc = "creating"
           /\ tx' = [tx EXCEPT ![u] = NoWrite]
           /\ page' = page
           /\ ~NameHeld(tx[u].name)
           /\ \/ report' = report
              \/ /\ Inserted(u, r)
                 /\ report' \in [Reports -> Row]
                 /\ NameFree(tx[u].name, NoReport)
PROOF
<1>1. PICK n \in Names : n = tx[u].name
  BY DEF CreateInsert, InProgress
<1>2. [Absent EXCEPT !.status = "borrador", !.name = n, !.revision = 1] \in Row
  BY AbsentRow DEF Row, Absent, Status
<1>3. CASE IndexAdmits(tx[u].name, NoReport)
  <2>1. report' = [report EXCEPT ![r] =
                     [Absent EXCEPT !.status = "borrador", !.name = n, !.revision = 1]]
    BY <1>1, <1>3 DEF CreateInsert
  <2>2. report' \in [Reports -> Row]
    BY <1>2, <2>1 DEF TypeOK
  <2>3. Inserted(u, r)
    BY <1>1, <2>1 DEF TypeOK, Inserted, CreateInsert, Absent
  <2> QED
    BY <1>3, <2>2, <2>3 DEF CreateInsert, IndexAdmits
<1>4. CASE ~IndexAdmits(tx[u].name, NoReport)
  BY <1>4 DEF CreateInsert
<1> QED
  BY <1>3, <1>4

(* A copy inserts its row under the name it holds. *)
LEMMA CopyEffect ==
    ASSUME TypeOK, InProgress, NEW u \in Users, NEW r \in Reports, CopyFeatures(u, r)
    PROVE  /\ tx[u].pc = "copied"
           /\ tx' = [tx EXCEPT ![u] = NoWrite]
           /\ Inserted(u, r)
           /\ report' \in [Reports -> Row]
PROOF
<1>1. PICK n \in Names, source \in Reports : n = tx[u].name /\ source = tx[u].report
  BY DEF CopyFeatures, InProgress
<1>2. PICK c \in Contents :
        report' = [report EXCEPT ![r] = [Absent EXCEPT !.status = "borrador", !.name = n,
                                                       !.content = c, !.revision = 1]]
  <2>1. report[source].content \in Contents /\ EmptyContent \in Contents
    BY ReportsAssumption DEF TypeOK, Row
  <2> QED
    BY <1>1, <2>1 DEF CopyFeatures
<1>3. [Absent EXCEPT !.status = "borrador", !.name = n, !.content = c, !.revision = 1] \in Row
  BY AbsentRow DEF Row, Absent, Status
<1>4. report' \in [Reports -> Row]
  BY <1>2, <1>3 DEF TypeOK
<1>5. Inserted(u, r)
  BY <1>1, <1>2 DEF TypeOK, Inserted, CopyFeatures, Absent
<1> QED
  BY <1>4, <1>5 DEF CopyFeatures

----------------------------------------------------------------------------
(* What these effects preserve *)

(* No report becomes active, and those that stay active keep their names. *)
NamesShrink ==
    \A q \in Reports :
        report'[q].status \notin {"absent", "deleted", "archivado"} =>
            /\ report[q].status \notin {"absent", "deleted", "archivado"}
            /\ report'[q].name = report[q].name

(* What _name_in_use checks, of the rows it reads. *)
LEMMA NameFreeMeans ==
    ASSUME NEW n, NameFree(n, NoReport)
    PROVE  FreeIn(report, n)
PROOF
  BY ReportsAssumption DEF NameFree, FreeIn, Exists

(* Active names stay unique when no report becomes active. *)
LEMMA ShrinkKeepsNames ==
    ASSUME UniqueNames, NamesShrink
    PROVE  UniqueNames'
PROOF
  BY DEF UniqueNames, NamesShrink, Exists

(* A free name stays free when no report becomes active. *)
LEMMA ShrinkKeepsFree ==
    ASSUME NEW n, FreeIn(report, n), NamesShrink
    PROVE  FreeIn(report', n)
PROOF
  BY DEF NamesShrink, FreeIn

(* Names stay held when no other copy starts and no report becomes active. *)
LEMMA ShrinkKeepsHeld ==
    ASSUME NamesHeld, NamesShrink,
           \A u \in Users : tx'[u].pc = "copied" => tx'[u] = tx[u]
    PROVE  NamesHeld'
PROOF
<1> SUFFICES ASSUME NEW u \in Users, tx'[u].pc = "copied"
             PROVE  /\ FreeIn(report', tx'[u].name)
                    /\ \A v \in Users \ {u} : tx'[v].pc = "copied" => tx'[v].name # tx'[u].name
  BY DEF NamesHeld, FreeIn
<1>1. tx'[u] = tx[u] /\ FreeIn(report, tx[u].name)
  BY DEF NamesHeld
<1>2. FreeIn(report', tx[u].name)
  BY <1>1, ShrinkKeepsFree
<1>3. \A v \in Users \ {u} : tx'[v].pc = "copied" => tx'[v].name # tx'[u].name
  BY <1>1 DEF NamesHeld
<1> QED
  BY <1>1, <1>2, <1>3

(* What PagesLag says of one page, and InProgress of its report. *)
Lags(rows, p) ==
    /\ p.report \in Reports
    /\ rows[p.report].status # "absent"
    /\ p.revision <= rows[p.report].revision
    /\ p.revision = rows[p.report].revision
          /\ rows[p.report].status \notin {"absent", "deleted"} =>
         /\ p.name = rows[p.report].name
         /\ p.state = "loaded" => p.content = rows[p.report].content

(* The invariant gives Lags of every page that was read. *)
LEMMA LagsMeans ==
    ASSUME InProgress, PagesLag, NEW v \in Users, page[v].state # "none"
    PROVE  Lags(report, page[v])
PROOF
  BY DEF InProgress, PagesLag, Lags, Exists

(* Lags of every page gives PagesLag. *)
LEMMA LagsSuffices ==
    ASSUME \A v \in Users : page'[v].state # "none" => Lags(report', page'[v])
    PROVE  PagesLag'
PROOF
  BY DEF PagesLag, Lags, Exists

(* A change leaves every other page behind, or true of another report. *)
LEMMA WroteKeepsPages ==
    ASSUME TypeOK, InProgress, PagesLag, NEW u \in Users, NEW r \in Reports, Wrote(u, r),
           NEW v \in Users, page'[v].state # "none"
    PROVE  Lags(report', page'[v])
PROOF
<1>1. \A q \in Reports : report[q].revision \in Nat
  BY DEF TypeOK, Row
<1>2. \A w \in Users : page[w].revision \in Nat
  BY DEF TypeOK, Page
<1>3. CASE page'[v] = page[v]
  <2>1. Lags(report, page[v])
    BY <1>3, LagsMeans
  <2>2. CASE page[v].report = r
    <3>1. page[v].revision <= report[r].revision
      BY <2>1, <2>2 DEF Lags
    <3>2. page[v].revision < report'[r].revision
      BY <1>1, <1>2, <3>1 DEF Wrote
    <3>3. report'[r].status # "absent" /\ report'[r].revision \in Nat
      BY <1>1 DEF Wrote
    <3> QED
      BY <1>2, <1>3, <2>2, <3>2, <3>3 DEF Lags
  <2>3. CASE page[v].report # r
    <3>1. report'[page[v].report] = report[page[v].report]
      BY <2>1, <2>3 DEF Wrote, Lags
    <3> QED
      BY <1>3, <2>1, <3>1 DEF Lags
  <2> QED
    BY <2>2, <2>3
<1>4. CASE page'[v] # page[v]
  <2>1. v = u
    BY <1>4 DEF Wrote
  <2>2. report'[r].revision \in Nat
    BY <1>1 DEF Wrote
  <2> QED
    BY <1>4, <2>1, <2>2 DEF Wrote, Lags
<1> QED
  BY <1>3, <1>4

(* A new row is in no page. *)
LEMMA InsertKeepsPages ==
    ASSUME TypeOK, InProgress, PagesLag, NEW u \in Users, NEW r \in Reports, Inserted(u, r),
           NEW v \in Users, page'[v].state # "none"
    PROVE  Lags(report', page'[v])
PROOF
<1>1. page'[v] = page[v]
  BY DEF Inserted
<1>2. Lags(report, page[v])
  BY <1>1, LagsMeans
<1>3. report'[page[v].report] = report[page[v].report]
  BY <1>2 DEF Inserted, Lags
<1> QED
  BY <1>1, <1>2, <1>3 DEF Lags

(* A new row takes a name no active report has and no copy holds. *)
LEMMA InsertKeepsNames ==
    ASSUME TypeOK, NamesHeld, UniqueNames,
           NEW u \in Users, NEW r \in Reports, Inserted(u, r),
           FreeIn(report, tx[u].name),
           \A v \in Users \ {u} : tx[v].pc = "copied" => tx[v].name # tx[u].name,
           tx' = [tx EXCEPT ![u] = NoWrite]
    PROVE  UniqueNames' /\ NamesHeld'
PROOF
<1>1. UniqueNames'
  BY DEF UniqueNames, FreeIn, Inserted, Exists
<1>2. \A v \in Users : tx'[v].pc = "copied" => v # u /\ tx'[v] = tx[v]
  BY DEF TypeOK, NoWrite
<1>3. ASSUME NEW v \in Users, tx'[v].pc = "copied"
      PROVE  /\ FreeIn(report', tx'[v].name)
             /\ \A w \in Users \ {v} : tx'[w].pc = "copied" => tx'[w].name # tx'[v].name
  <2>1. v # u /\ tx'[v] = tx[v]
    BY <1>2, <1>3
  <2>2. FreeIn(report, tx[v].name) /\ tx[v].name # tx[u].name
    BY <1>3, <2>1 DEF NamesHeld
  <2>3. FreeIn(report', tx'[v].name)
    BY <2>1, <2>2 DEF FreeIn, Inserted
  <2>4. \A w \in Users \ {v} : tx'[w].pc = "copied" => tx'[w].name # tx'[v].name
    BY <1>2, <1>3, <2>1 DEF NamesHeld
  <2> QED
    BY <2>3, <2>4
<1>4. NamesHeld'
  BY <1>3 DEF NamesHeld, FreeIn
<1> QED
  BY <1>1, <1>4

(* Requests in progress keep what they hold on to when none is added and the *)
(* rows and pages of renames are left alone.                                 *)
LEMMA ProgressKept ==
    ASSUME InProgress,
           \A v \in Users : page'[v].state # "none" => Lags(report', page'[v]),
           \A v \in Users : tx'[v].pc # "idle" => tx'[v] = tx[v],
           \A v \in Users : tx'[v].pc = "renaming" =>
               page'[v] = page[v] /\ report'[tx[v].report] = report[tx[v].report]
    PROVE  InProgress'
PROOF
<1>1. \A v \in Users : page'[v].state # "none" =>
          page'[v].report \in Reports /\ report'[page'[v].report].status # "absent"
  BY DEF Lags
<1>2. ASSUME NEW v \in Users, tx'[v].pc # "idle"
      PROVE  /\ tx'[v].name \in Names
             /\ tx'[v].pc \in {"copying", "copied"} => tx'[v].report \in Reports
  BY <1>2 DEF InProgress
<1>3. ASSUME NEW v \in Users, tx'[v].pc = "renaming"
      PROVE  /\ tx'[v].report \in Reports
             /\ report'[tx'[v].report].status \in {"borrador", "cambios_solicitados"}
             /\ page'[v].state = "loaded"
             /\ page'[v].report = tx'[v].report
             /\ page'[v].revision = report'[tx'[v].report].revision
             /\ \A w \in Users \ {v} : tx'[w].pc = "renaming" => tx'[w].report # tx'[v].report
  <2>1. tx'[v] = tx[v] /\ page'[v] = page[v] /\ report'[tx[v].report] = report[tx[v].report]
    BY <1>3
  <2>2. \A w \in Users \ {v} : tx'[w].pc = "renaming" => tx'[w] = tx[w]
    OBVIOUS
  <2> QED
    BY <1>3, <2>1, <2>2 DEF InProgress, Editable
<1> QED
  BY <1>1, <1>2, <1>3 DEF InProgress, Editable

(* A request that starts, with reports and pages as they were. *)
LEMMA ProgressAdded ==
    ASSUME InProgress, report' = report, page' = page, NEW u \in Users,
           \A v \in Users \ {u} : tx'[v] = tx[v],
           tx'[u].name \in Names,
           tx'[u].pc \in {"copying", "copied"} => tx'[u].report \in Reports,
           tx'[u].pc = "renaming" =>
             /\ tx'[u].report \in Reports
             /\ Editable(tx'[u].report)
             /\ page[u].state = "loaded"
             /\ page[u].report = tx'[u].report
             /\ page[u].revision = report[tx'[u].report].revision
             /\ \A v \in Users \ {u} : tx[v].pc = "renaming" => tx[v].report # tx'[u].report
    PROVE  InProgress'
PROOF
<1>1. ASSUME NEW v \in Users, tx'[v].pc = "renaming"
      PROVE  /\ tx'[v].report \in Reports
             /\ report[tx'[v].report].status \in {"borrador", "cambios_solicitados"}
             /\ page[v].state = "loaded"
             /\ page[v].report = tx'[v].report
             /\ page[v].revision = report[tx'[v].report].revision
             /\ \A w \in Users \ {v} : tx'[w].pc = "renaming" => tx'[w].report # tx'[v].report
  BY <1>1 DEF InProgress, Editable
<1>2. ASSUME NEW v \in Users, tx'[v].pc # "idle"
      PROVE  /\ tx'[v].name \in Names
             /\ tx'[v].pc \in {"copying", "copied"} => tx'[v].report \in Reports
  BY <1>2 DEF InProgress
<1>3. \A v \in Users : page[v].state # "none" =>
          page[v].report \in Reports /\ report[page[v].report].status # "absent"
  BY DEF InProgress
<1> QED
  BY <1>1, <1>2, <1>3 DEF InProgress, Editable

----------------------------------------------------------------------------
(* The invariant *)

(* The store starts empty. *)
LEMMA ReportsInit == Init => ReportsInv
PROOF
<1> SUFFICES ASSUME Init PROVE ReportsInv
  OBVIOUS
<1>1. \A r \in Reports : report[r] = Absent
  BY DEF Init
<1>2. \A u \in Users : page[u] = NoPage /\ tx[u] = NoWrite
  BY DEF Init
<1>3. NoPage \in Page /\ NoWrite \in Write
  BY ReportsAssumption DEF NoPage, NoWrite, Page, Write
<1>4. TypeOK
  BY <1>3, AbsentRow DEF Init, TypeOK
<1>5. InProgress /\ PagesLag /\ NamesHeld
  BY <1>2 DEF InProgress, PagesLag, NamesHeld, NoPage, NoWrite
<1>6. \A r \in Reports : report[r].status = "absent"
  <2>1. Absent.status = "absent"
    BY DEF Absent
  <2> QED
    BY <1>1, <2>1
<1>7. NeverSubmitted
  BY <1>1, <1>6 DEF NeverSubmitted
<1>8. UniqueNames /\ ReviewHasSubject
  BY <1>6 DEF UniqueNames, ReviewHasSubject, Exists
<1> QED
  BY <1>4, <1>5, <1>7, <1>8 DEF ReportsInv

(* A change under the lock of an idle user's current page. *)
LEMMA LockedWrite ==
    ASSUME ReportsInv, NEW u \in Users, NEW r \in Reports, Wrote(u, r), RowFree(r),
           tx' = tx, tx[u].pc = "idle",
           report'[r].name = report[r].name,
           report'[r].status # "archivado" => report[r].status # "archivado",
           report' \in [Reports -> Row], page' \in [Users -> Page]
    PROVE  TypeOK' /\ InProgress' /\ NeverSubmitted' /\ PagesLag' /\ NamesHeld' /\ UniqueNames'
PROOF
<1> USE DEF ReportsInv
<1>1. TypeOK'
  BY DEF TypeOK
<1>2. \A v \in Users : page'[v].state # "none" => Lags(report', page'[v])
  BY WroteKeepsPages
<1>3. PagesLag'
  BY <1>2, LagsSuffices
<1>4. InProgress'
  <2>1. \A v \in Users : tx'[v].pc = "renaming" =>
            page'[v] = page[v] /\ report'[tx[v].report] = report[tx[v].report]
    BY DEF Wrote, RowFree, InProgress
  <2> QED
    BY <1>2, <2>1, ProgressKept
<1>5. NeverSubmitted'
  <2>1. /\ \A q \in Reports \ {r} : report'[q] = report[q]
        /\ report'[r].status # "absent" /\ report'[r].status # "deleted"
    BY DEF Wrote
  <2> QED
    BY <2>1 DEF NeverSubmitted, Absent
<1>6. NamesShrink
  BY DEF NamesShrink, Wrote, Exists
<1>7. UniqueNames' /\ NamesHeld'
  BY <1>6, ShrinkKeepsNames, ShrinkKeepsHeld
<1> QED
  BY <1>1, <1>3, <1>4, <1>5, <1>7

(* A step that leaves the reports alone and adds no page content. *)
LEMMA RowsKept ==
    ASSUME ReportsInv, report' = report
    PROVE  NeverSubmitted' /\ UniqueNames' /\ ReviewHasSubject' /\ NamesShrink
PROOF
  BY DEF ReportsInv, NeverSubmitted, UniqueNames, ReviewHasSubject, NamesShrink, Exists, Absent

(* A step that leaves the reports and the pages alone. *)
LEMMA PagesKept ==
    ASSUME ReportsInv, report' = report, page' = page
    PROVE  /\ PagesLag'
           /\ \A v \in Users : page'[v].state # "none" => Lags(report', page'[v])
PROOF
<1>1. \A v \in Users : page'[v].state # "none" => Lags(report', page'[v])
  BY LagsMeans DEF ReportsInv
<1> QED
  BY <1>1, LagsSuffices

(* Every action preserves the invariant. *)
LEMMA ReportsStep == ReportsInv /\ [Next]_vars => ReportsInv'
PROOF
<1> SUFFICES ASSUME ReportsInv, [Next]_vars PROVE ReportsInv'
  OBVIOUS
<1> USE DEF ReportsInv
<1>1. CASE UNCHANGED vars
  <2>1. report' = report /\ page' = page /\ tx' = tx
    BY <1>1 DEF vars
  <2>2. TypeOK'
    BY <2>1 DEF TypeOK
  <2>3. InProgress'
    BY <2>1, PagesKept, ProgressKept
  <2>4. NamesHeld'
    BY <2>1, RowsKept, ShrinkKeepsHeld
  <2> QED
    BY <2>1, <2>2, <2>3, <2>4, RowsKept, PagesKept
<1>2. ASSUME NEW u \in Users, LoadFeatures(u) PROVE ReportsInv'
  <2>1. report' = report /\ tx' = tx /\ page[u].state = "header"
    BY <1>2 DEF LoadFeatures
  <2>2. page[u] \in Page /\ Lags(report, page[u])
    BY <2>1, LagsMeans DEF TypeOK
  <2>3. PICK c \in Contents :
          /\ page' = [page EXCEPT ![u].state = "loaded", ![u].content = c]
          /\ Exists(page[u].report) => c = report[page[u].report].content
    <3>1. EmptyContent \in Contents /\ \A q \in Reports : report[q].content \in Contents
      BY ReportsAssumption DEF TypeOK, Row
    <3> QED
      BY <1>2, <2>2, <3>1 DEF LoadFeatures, Lags
  <2>4. /\ \A v \in Users \ {u} : page'[v] = page[v]
        /\ page'[u] = [state |-> "loaded", report |-> page[u].report, name |-> page[u].name,
                       content |-> c, revision |-> page[u].revision]
        /\ page' \in [Users -> Page]
    BY <2>2, <2>3 DEF TypeOK, Page
  <2>5. TypeOK'
    BY <2>1, <2>4 DEF TypeOK
  <2>6. \A v \in Users : page'[v].state # "none" => Lags(report', page'[v])
    <3>1. Lags(report', page'[u])
      BY <2>1, <2>2, <2>3, <2>4 DEF Lags, Exists
    <3> QED
      BY <2>1, <2>4, <3>1, LagsMeans
  <2>7. InProgress'
    <3>1. \A v \in Users : tx'[v].pc = "renaming" => page'[v] = page[v]
      BY <2>1, <2>4 DEF InProgress
    <3> QED
      BY <2>1, <2>6, <3>1, ProgressKept
  <2>8. NamesHeld'
    BY <2>1, RowsKept, ShrinkKeepsHeld
  <2> QED
    BY <2>1, <2>5, <2>6, <2>7, <2>8, RowsKept, LagsSuffices
<1>3. ASSUME NEW u \in Users, NEW r \in Reports, LoadHeader(u, r) PROVE ReportsInv'
  <2>1. report' = report /\ tx' = tx /\ tx[u].pc = "idle" /\ Exists(r)
    BY <1>3 DEF LoadHeader
  <2>2. /\ \A v \in Users \ {u} : page'[v] = page[v]
        /\ page'[u] = [state |-> "header", report |-> r, name |-> report[r].name,
                       content |-> EmptyContent, revision |-> report[r].revision]
    BY <1>3 DEF LoadHeader, TypeOK
  <2>3. page' \in [Users -> Page]
    <3>1. report[r] \in Row /\ EmptyContent \in Contents
      BY ReportsAssumption DEF TypeOK
    <3>2. page'[u] \in Page
      BY <2>2, <3>1 DEF Page, Row
    <3> QED
      BY <1>3, <2>2, <3>2 DEF TypeOK, LoadHeader
  <2>4. TypeOK'
    BY <2>1, <2>3 DEF TypeOK
  <2>5. \A v \in Users : page'[v].state # "none" => Lags(report', page'[v])
    <3>1. Lags(report', page'[u])
      BY <2>1, <2>2 DEF Lags, Exists, TypeOK, Row
    <3> QED
      BY <2>1, <2>2, <3>1, LagsMeans
  <2>6. InProgress'
    <3>1. \A v \in Users : tx'[v].pc = "renaming" => page'[v] = page[v]
      BY <2>1, <2>2
    <3> QED
      BY <2>1, <2>5, <3>1, ProgressKept
  <2>7. NamesHeld'
    BY <2>1, RowsKept, ShrinkKeepsHeld
  <2> QED
    BY <2>1, <2>4, <2>5, <2>6, <2>7, RowsKept, LagsSuffices
<1>4. ASSUME NEW u \in Users, Rollback(u) PROVE ReportsInv'
  <2>1. report' = report /\ page' = page /\ tx' = [tx EXCEPT ![u] = NoWrite]
    BY <1>4 DEF Rollback
  <2>2. TypeOK'
    BY <2>1 DEF TypeOK, NoWrite, Write
  <2>3. \A v \in Users : tx'[v].pc # "idle" => tx'[v] = tx[v]
    BY <2>1 DEF TypeOK, NoWrite
  <2>4. InProgress'
    BY <2>1, <2>3, PagesKept, ProgressKept
  <2>5. NamesHeld'
    BY <2>1, <2>3, RowsKept, ShrinkKeepsHeld
  <2> QED
    BY <2>1, <2>2, <2>4, <2>5, RowsKept, PagesKept
<1>5. ASSUME NEW u \in Users, NEW n \in Names, CreateCheck(u, n) PROVE ReportsInv'
  <2>1. report' = report /\ page' = page
    BY <1>5 DEF CreateCheck
  <2>2. /\ \A v \in Users \ {u} : tx'[v] = tx[v]
        /\ tx'[u] = [pc |-> "creating", report |-> NoReport, name |-> n]
        /\ tx' \in [Users -> Write]
    BY <1>5 DEF CreateCheck, TypeOK, Write
  <2>3. TypeOK'
    BY <2>1, <2>2 DEF TypeOK
  <2>4. InProgress'
    BY <2>1, <2>2, ProgressAdded
  <2>5. NamesHeld'
    BY <2>1, <2>2, RowsKept, ShrinkKeepsHeld
  <2> QED
    BY <2>1, <2>3, <2>4, <2>5, RowsKept, PagesKept
<1>6. ASSUME NEW u \in Users, NEW r \in Reports, NEW n \in Names, RenameCheck(u, r, n)
      PROVE  ReportsInv'
  <2>1. /\ report' = report /\ page' = page /\ Editable(r) /\ RowFree(r)
        /\ page[u].state = "loaded" /\ page[u].report = r
        /\ page[u].revision = report[r].revision
    BY <1>6 DEF RenameCheck, Current
  <2>2. /\ \A v \in Users \ {u} : tx'[v] = tx[v]
        /\ tx'[u] = [pc |-> "renaming", report |-> r, name |-> n]
        /\ tx' \in [Users -> Write]
    BY <1>6 DEF RenameCheck, TypeOK, Write
  <2>3. TypeOK'
    BY <2>1, <2>2 DEF TypeOK
  <2>4. InProgress'
    BY <2>1, <2>2, ProgressAdded DEF RowFree
  <2>5. NamesHeld'
    BY <2>1, <2>2, RowsKept, ShrinkKeepsHeld
  <2> QED
    BY <2>1, <2>3, <2>4, <2>5, RowsKept, PagesKept
<1>7. ASSUME NEW u \in Users, NEW r \in Reports, NEW n \in Names, CopyCheck(u, r, n)
      PROVE  ReportsInv'
  <2>1. report' = report /\ page' = page
    BY <1>7 DEF CopyCheck
  <2>2. /\ \A v \in Users \ {u} : tx'[v] = tx[v]
        /\ tx'[u] = [pc |-> "copying", report |-> r, name |-> n]
        /\ tx' \in [Users -> Write]
    BY <1>7 DEF CopyCheck, TypeOK, Write
  <2>3. TypeOK'
    BY <2>1, <2>2 DEF TypeOK
  <2>4. InProgress'
    BY <2>1, <2>2, ProgressAdded
  <2>5. NamesHeld'
    BY <2>1, <2>2, RowsKept, ShrinkKeepsHeld
  <2> QED
    BY <2>1, <2>3, <2>4, <2>5, RowsKept, PagesKept
<1>8. ASSUME NEW u \in Users, CopyInsert(u) PROVE ReportsInv'
  <2>1. report' = report /\ page' = page /\ tx[u].pc = "copying" /\ ~NameHeld(tx[u].name)
    BY <1>8 DEF CopyInsert
  <2>2. CASE tx' = [tx EXCEPT ![u] = NoWrite]
    <3>1. TypeOK'
      BY <2>1, <2>2 DEF TypeOK, NoWrite, Write
    <3>2. \A v \in Users : tx'[v].pc # "idle" => tx'[v] = tx[v]
      BY <2>2 DEF TypeOK, NoWrite
    <3>3. InProgress'
      BY <2>1, <3>2, PagesKept, ProgressKept
    <3>4. NamesHeld'
      BY <2>1, <3>2, RowsKept, ShrinkKeepsHeld
    <3> QED
      BY <2>1, <3>1, <3>3, <3>4, RowsKept, PagesKept
  <2>3. CASE tx' = [tx EXCEPT ![u] = [@ EXCEPT !.pc = "copied"]]
             /\ NameFree(tx[u].name, NoReport)
    <3>1. tx[u] \in Write /\ tx[u].name \in Names /\ tx[u].report \in Reports
      BY <2>1 DEF TypeOK, InProgress
    <3>2. /\ \A v \in Users \ {u} : tx'[v] = tx[v]
          /\ tx'[u] = [pc |-> "copied", report |-> tx[u].report, name |-> tx[u].name]
          /\ tx' \in [Users -> Write]
      BY <2>3, <3>1 DEF TypeOK, Write
    <3>3. TypeOK'
      BY <2>1, <3>2 DEF TypeOK
    <3>4. InProgress'
      BY <2>1, <3>1, <3>2, ProgressAdded
    <3>5. FreeIn(report, tx[u].name)
      BY <2>3, NameFreeMeans
    <3>6. \A v \in Users \ {u} : tx[v].pc = "copied" => tx[v].name # tx[u].name
      BY <2>1 DEF NameHeld
    <3>7. NamesHeld'
      <4>1. ASSUME NEW v \in Users, tx'[v].pc = "copied"
            PROVE  /\ FreeIn(report, tx'[v].name)
                   /\ \A w \in Users \ {v} : tx'[w].pc = "copied" => tx'[w].name # tx'[v].name
        <5>1. CASE v = u
          BY <3>2, <3>5, <3>6, <5>1
        <5>2. CASE v # u
          BY <3>2, <3>6, <4>1, <5>2 DEF NamesHeld
        <5> QED
          BY <5>1, <5>2
      <4> QED
        BY <2>1, <4>1 DEF NamesHeld, FreeIn
    <3> QED
      BY <2>1, <3>3, <3>4, <3>7, RowsKept, PagesKept
  <2> QED
    BY <1>8, <2>2, <2>3 DEF CopyInsert, IndexAdmits
<1>9. ASSUME NEW u \in Users, NEW r \in Reports, SetConaf(u, r) PROVE ReportsInv'
  <2>1. tx[u].pc = "idle" /\ RowFree(r)
    BY <1>9 DEF SetConaf, Current
  <2>2. /\ Wrote(u, r) /\ tx' = tx
        /\ report' \in [Reports -> Row] /\ page' \in [Users -> Page]
        /\ report'[r] = [report[r] EXCEPT !.revision = @ + 1]
    BY <1>9, SetConafEffect
  <2>3. /\ report'[r].status = report[r].status /\ report'[r].name = report[r].name
        /\ report'[r].content = report[r].content /\ report'[r].notes = report[r].notes
        /\ report'[r].submitted = report[r].submitted
    BY <2>2, BumpedRow DEF TypeOK
  <2>4. ReviewHasSubject'
    <3>1. \A q \in Reports \ {r} : report'[q] = report[q]
      BY <2>2 DEF Wrote
    <3> QED
      BY <2>3, <3>1 DEF ReviewHasSubject
  <2> QED
    BY <2>1, <2>2, <2>3, <2>4, LockedWrite
<1>10. ASSUME NEW u \in Users, NEW r \in Reports, NEW c \in Contents, SaveFeatures(u, r, c)
       PROVE  ReportsInv'
  <2>1. tx[u].pc = "idle" /\ RowFree(r)
    BY <1>10 DEF SaveFeatures, Current
  <2>2. /\ Wrote(u, r) /\ tx' = tx /\ Editable(r)
        /\ report' \in [Reports -> Row] /\ page' \in [Users -> Page]
        /\ report'[r].status = report[r].status /\ report'[r].name = report[r].name
        /\ report'[r].notes = report[r].notes
    BY <1>10, SaveEffect
  <2>3. ReviewHasSubject'
    <3>1. \A q \in Reports \ {r} : report'[q] = report[q]
      BY <2>2 DEF Wrote
    <3>2. /\ report'[r].status \in {"borrador", "cambios_solicitados"}
          /\ report'[r].status = report[r].status /\ report'[r].notes = report[r].notes
      BY <2>2 DEF Editable
    <3> QED
      BY <3>1, <3>2 DEF ReviewHasSubject
  <2> QED
    BY <2>1, <2>2, <2>3, LockedWrite
<1>11. ASSUME NEW u \in Users, NEW r \in Reports, NEW action \in Actions,
              Transition(u, r, action)
       PROVE  ReportsInv'
  <2>1. tx[u].pc = "idle" /\ RowFree(r)
    BY <1>11 DEF Transition, Current
  <2>2. /\ Wrote(u, r) /\ tx' = tx
        /\ report' \in [Reports -> Row] /\ page' \in [Users -> Page]
        /\ report[r].status \in AllowedFrom[action]
        /\ action = "submit" => report[r].content \in Marked
        /\ report'[r].status = Target[action]
        /\ report'[r].name = report[r].name
        /\ report'[r].content = report[r].content
        /\ report'[r].submitted = (report[r].submitted \/ action = "submit")
        /\ report'[r].notes = IF action = "request_changes" THEN report[r].notes + 1
                                                            ELSE report[r].notes
    BY <1>11, TransitionEffect
  <2>3. report[r].status # "archivado"
    BY <2>2 DEF AllowedFrom, Actions
  <2>4. ReviewHasSubject'
    <3>1. /\ report'[r].status = "enviado" => action = "submit"
          /\ report'[r].status = "aprobado" => action = "approve" /\ report[r].status = "enviado"
          /\ report'[r].status = "cambios_solicitados" => action = "request_changes"
      BY <2>2 DEF AllowedFrom, Target, Actions
    <3>2. report'[r].status \in {"enviado", "aprobado"} =>
             report'[r].content \in Marked /\ report'[r].submitted
      BY <2>2, <3>1 DEF ReviewHasSubject
    <3>3. report'[r].status = "cambios_solicitados" => report'[r].notes > 0
      <4>1. report[r].notes \in Nat
        BY DEF TypeOK, Row
      <4> QED
        BY <2>2, <3>1, <4>1
    <3>4. \A q \in Reports \ {r} : report'[q] = report[q]
      BY <2>2 DEF Wrote
    <3> QED
      BY <3>2, <3>3, <3>4 DEF ReviewHasSubject
  <2> QED
    BY <2>1, <2>2, <2>3, <2>4, LockedWrite
<1>12. ASSUME NEW u \in Users, RenameWrite(u) PROVE ReportsInv'
  <2>1. /\ tx[u].pc = "renaming" /\ tx' = [tx EXCEPT ![u] = NoWrite]
        /\ Editable(tx[u].report) /\ ~NameHeld(tx[u].name)
    BY <1>12, RenameEffect
  <2>2. tx' \in [Users -> Write]
    BY <2>1 DEF TypeOK, NoWrite, Write
  <2>3. \A v \in Users : tx'[v].pc # "idle" => v # u /\ tx'[v] = tx[v]
    BY <2>1 DEF TypeOK, NoWrite
  <2>4. CASE report' = report /\ page' = page
    <3>1. TypeOK'
      BY <2>2, <2>4 DEF TypeOK
    <3>2. InProgress'
      BY <2>3, <2>4, PagesKept, ProgressKept
    <3>3. NamesHeld'
      BY <2>3, <2>4, RowsKept, ShrinkKeepsHeld
    <3> QED
      BY <2>4, <3>1, <3>2, <3>3, RowsKept, PagesKept
  <2>5. CASE ~(report' = report /\ page' = page)
    <3>1. PICK r \in Reports : r = tx[u].report
      BY <2>1 DEF InProgress
    <3>2. /\ Wrote(u, r)
          /\ report' \in [Reports -> Row] /\ page' \in [Users -> Page]
          /\ NameFree(tx[u].name, r)
          /\ report'[r].name = tx[u].name
          /\ report'[r].status = report[r].status
          /\ report'[r].content = report[r].content
          /\ report'[r].submitted = report[r].submitted
          /\ report'[r].notes = report[r].notes
      BY <1>12, <2>5, <3>1, RenameEffect DEF IndexAdmits
    <3>3. \A q \in Reports \ {r} : report'[q] = report[q]
      BY <3>2 DEF Wrote
    <3>4. TypeOK'
      BY <2>2, <3>2 DEF TypeOK
    <3>5. \A v \in Users : page'[v].state # "none" => Lags(report', page'[v])
      BY <3>2, WroteKeepsPages
    <3>6. InProgress'
      <4>1. \A v \in Users : tx'[v].pc = "renaming" =>
                page'[v] = page[v] /\ report'[tx[v].report] = report[tx[v].report]
        BY <2>1, <2>3, <3>1, <3>2, <3>3 DEF InProgress, Wrote
      <4> QED
        BY <2>3, <3>5, <4>1, ProgressKept
    <3>7. NeverSubmitted'
      <4>1. report'[r].status # "absent" /\ report'[r].status # "deleted"
        BY <3>2 DEF Wrote
      <4> QED
        BY <3>3, <4>1 DEF NeverSubmitted, Absent
    <3>8. UniqueNames'
      BY <3>2, <3>3 DEF UniqueNames, NameFree, Exists
    <3>9. NamesHeld'
      <4>1. ASSUME NEW v \in Users, tx'[v].pc = "copied"
            PROVE  /\ FreeIn(report', tx'[v].name)
                   /\ \A w \in Users \ {v} : tx'[w].pc = "copied" => tx'[w].name # tx'[v].name
        <5>1. v # u /\ tx'[v] = tx[v] /\ tx[v].name # tx[u].name
          BY <2>1, <2>3, <4>1 DEF NameHeld
        <5>2. FreeIn(report, tx[v].name)
          BY <4>1, <5>1 DEF NamesHeld
        <5>3. FreeIn(report', tx'[v].name)
          BY <3>2, <3>3, <5>1, <5>2 DEF FreeIn
        <5>4. \A w \in Users \ {v} : tx'[w].pc = "copied" => tx'[w].name # tx'[v].name
          BY <2>3, <4>1, <5>1 DEF NamesHeld
        <5> QED
          BY <5>3, <5>4
      <4> QED
        BY <4>1 DEF NamesHeld, FreeIn
    <3>10. ReviewHasSubject'
      BY <3>2, <3>3 DEF ReviewHasSubject
    <3> QED
      BY <3>4, <3>5, <3>6, <3>7, <3>8, <3>9, <3>10, LagsSuffices
  <2> QED
    BY <2>4, <2>5
<1>13. ASSUME NEW u \in Users, NEW r \in Reports, Inserted(u, r),
              report' \in [Reports -> Row], tx' = [tx EXCEPT ![u] = NoWrite],
              FreeIn(report, tx[u].name),
              \A v \in Users \ {u} : tx[v].pc = "copied" => tx[v].name # tx[u].name
       PROVE  ReportsInv'
  <2>1. /\ page' = page /\ \A q \in Reports \ {r} : report'[q] = report[q]
        /\ report[r].status = "absent" /\ report'[r].status = "borrador"
    BY <1>13 DEF Inserted
  <2>2. TypeOK'
    BY <1>13, <2>1 DEF TypeOK, NoWrite, Write
  <2>3. \A v \in Users : tx'[v].pc # "idle" => tx'[v] = tx[v]
    BY <1>13 DEF TypeOK, NoWrite
  <2>4. \A v \in Users : page'[v].state # "none" => Lags(report', page'[v])
    BY <1>13, InsertKeepsPages
  <2>5. InProgress'
    <3>1. \A v \in Users : tx'[v].pc = "renaming" =>
              page'[v] = page[v] /\ report'[tx[v].report] = report[tx[v].report]
      BY <2>1, <2>3 DEF InProgress, Editable
    <3> QED
      BY <2>3, <2>4, <3>1, ProgressKept
  <2>6. NeverSubmitted'
    BY <2>1 DEF NeverSubmitted, Absent
  <2>7. ReviewHasSubject'
    BY <2>1 DEF ReviewHasSubject
  <2>8. UniqueNames' /\ NamesHeld'
    BY <1>13, InsertKeepsNames
  <2> QED
    BY <2>2, <2>4, <2>5, <2>6, <2>7, <2>8, LagsSuffices
<1>14. ASSUME NEW u \in Users, NEW r \in Reports, CreateInsert(u, r) PROVE ReportsInv'
  <2>1. /\ page' = page /\ tx' = [tx EXCEPT ![u] = NoWrite] /\ ~NameHeld(tx[u].name)
        /\ \/ report' = report
           \/ /\ Inserted(u, r) /\ report' \in [Reports -> Row]
              /\ NameFree(tx[u].name, NoReport)
    BY <1>14, CreateEffect
  <2>2. CASE report' = report
    <3>1. TypeOK'
      BY <2>1, <2>2 DEF TypeOK, NoWrite, Write
    <3>2. \A v \in Users : tx'[v].pc # "idle" => tx'[v] = tx[v]
      BY <2>1 DEF TypeOK, NoWrite
    <3>3. InProgress'
      BY <2>1, <2>2, <3>2, PagesKept, ProgressKept
    <3>4. NamesHeld'
      BY <2>2, <3>2, RowsKept, ShrinkKeepsHeld
    <3> QED
      BY <2>1, <2>2, <3>1, <3>3, <3>4, RowsKept, PagesKept
  <2>3. CASE Inserted(u, r) /\ report' \in [Reports -> Row] /\ NameFree(tx[u].name, NoReport)
    <3>1. FreeIn(report, tx[u].name)
      BY <2>3, NameFreeMeans
    <3>2. \A v \in Users \ {u} : tx[v].pc = "copied" => tx[v].name # tx[u].name
      BY <2>1 DEF NameHeld
    <3> QED
      BY <1>13, <2>1, <2>3, <3>1, <3>2
  <2> QED
    BY <2>1, <2>2, <2>3
<1>15. ASSUME NEW u \in Users, NEW r \in Reports, CopyFeatures(u, r) PROVE ReportsInv'
  <2>1. /\ tx[u].pc = "copied" /\ tx' = [tx EXCEPT ![u] = NoWrite]
        /\ Inserted(u, r) /\ report' \in [Reports -> Row]
    BY <1>15, CopyEffect
  <2>2. /\ FreeIn(report, tx[u].name)
        /\ \A v \in Users \ {u} : tx[v].pc = "copied" => tx[v].name # tx[u].name
    BY <2>1 DEF NamesHeld
  <2> QED
    BY <1>13, <2>1, <2>2
<1>16. ASSUME NEW u \in Users, NEW r \in Reports, Delete(u, r) PROVE ReportsInv'
  <2>1. /\ page' = page /\ tx' = tx /\ RowFree(r)
        /\ report' = [report EXCEPT ![r] = [report[r] EXCEPT !.status = "deleted"]]
        /\ report[r].status = "borrador" /\ ~report[r].submitted /\ report[r] \in Row
    BY <1>16 DEF Delete, TypeOK
  <2>2. [report[r] EXCEPT !.status = "deleted"] \in Row
    BY <2>1 DEF Row, Status
  <2>3. /\ report' \in [Reports -> Row] /\ \A q \in Reports \ {r} : report'[q] = report[q]
        /\ report'[r] = [report[r] EXCEPT !.status = "deleted"]
    BY <2>1, <2>2 DEF TypeOK
  <2>4. /\ report'[r].status = "deleted" /\ report'[r].submitted = report[r].submitted
        /\ report'[r].revision = report[r].revision
    BY <2>1, <2>3 DEF Row
  <2>5. TypeOK'
    BY <2>1, <2>3 DEF TypeOK
  <2>6. ASSUME NEW v \in Users, page'[v].state # "none"
        PROVE  Lags(report', page'[v])
    <3>1. Lags(report, page[v])
      BY <2>1, <2>6, LagsMeans
    <3>2. CASE page[v].report = r
      BY <2>1, <2>4, <3>1, <3>2 DEF Lags
    <3>3. CASE page[v].report # r
      BY <2>1, <2>3, <3>1, <3>3 DEF Lags
    <3> QED
      BY <3>2, <3>3
  <2>7. InProgress'
    <3>1. \A v \in Users : tx'[v].pc = "renaming" =>
              page'[v] = page[v] /\ report'[tx[v].report] = report[tx[v].report]
      BY <2>1, <2>3 DEF RowFree, InProgress
    <3> QED
      BY <2>1, <2>6, <3>1, ProgressKept
  <2>8. NeverSubmitted'
    <3>1. ~report'[r].submitted
      BY <2>1, <2>4
    <3> QED
      BY <2>3, <2>4, <3>1 DEF NeverSubmitted, Absent
  <2>9. NamesShrink
    BY <2>3, <2>4 DEF NamesShrink
  <2>10. UniqueNames' /\ NamesHeld'
    BY <2>1, <2>9, ShrinkKeepsNames, ShrinkKeepsHeld
  <2>11. ReviewHasSubject'
    BY <2>3, <2>4 DEF ReviewHasSubject
  <2> QED
    BY <2>5, <2>6, <2>7, <2>8, <2>10, <2>11, LagsSuffices
<1> QED
  BY <1>1, <1>2, <1>3, <1>4, <1>5, <1>6, <1>7, <1>8, <1>9, <1>10, <1>11, <1>12,
     <1>14, <1>15, <1>16 DEF Next

----------------------------------------------------------------------------
(* Theorems *)

(* The invariant holds of every behaviour of the report store. *)
THEOREM ReportsInvariant == Spec => []ReportsInv
PROOF
  BY ReportsInit, ReportsStep, PTL DEF Spec

(* Rows, pages and writes in progress stay well formed, whatever is created, *)
(* edited, copied, reviewed or deleted.                                      *)
THEOREM ReportsTypeCorrect == Spec => []TypeOK
PROOF
<1>1. ReportsInv => TypeOK
  BY DEF ReportsInv
<1> QED
  BY <1>1, ReportsInvariant, PTL

(* Optimistic locking by revision: a page that passes the revision check     *)
(* holds the stored name and features, for any number of users and reports.  *)
THEOREM PageCorrect == Spec => []CurrentPageIsTrue
PROOF
<1>1. ReportsInv => CurrentPageIsTrue
  BY DEF ReportsInv, PagesLag, CurrentPageIsTrue, Exists
<1> QED
  BY <1>1, ReportsInvariant, PTL

(* Whoever creates, renames, copies, archives or decides: what is under      *)
(* review has a subject (set_features, transition) and no two live reports   *)
(* share a name (the partial unique index and the checks before it).         *)
THEOREM OrderCorrect == Spec => []ReportsInOrder
PROOF
<1>1. ReportsInv => ReportsInOrder
  BY DEF ReportsInv, ReportsInOrder
<1> QED
  BY <1>1, ReportsInvariant, PTL

(* What a step does to one row that it leaves existing or deletes: it only   *)
(* rewrites editable rows, and deletes only rows never submitted.            *)
LEMMA RowStep ==
    ASSUME ReportsInv, [Next]_vars, NEW q \in Reports
    PROVE  /\ report[q].status = "aprobado" =>
                /\ report'[q].content = report[q].content
                /\ report'[q].name = report[q].name
                /\ report'[q].status \in {"aprobado", "archivado"}
           /\ report[q].submitted =>
                report'[q].status # "deleted" /\ report'[q].notes >= report[q].notes
PROOF
<1> DEFINE Goal == /\ report[q].status = "aprobado" =>
                        /\ report'[q].content = report[q].content
                        /\ report'[q].name = report[q].name
                        /\ report'[q].status \in {"aprobado", "archivado"}
                   /\ report[q].submitted =>
                        report'[q].status # "deleted" /\ report'[q].notes >= report[q].notes
<1> SUFFICES Goal
  OBVIOUS
<1> USE DEF ReportsInv
<1>1. report[q].notes \in Nat
  BY DEF TypeOK, Row
<1>2. report[q].submitted => report[q].status # "deleted"
  BY DEF NeverSubmitted
<1>3. report[q].submitted => report[q].status # "absent"
  <2>1. Absent.submitted = FALSE
    BY DEF Absent
  <2> QED
    BY <2>1 DEF NeverSubmitted
<1>4. CASE report'[q] = report[q]
  BY <1>1, <1>2, <1>4
<1>5. ASSUME NEW u \in Users, NEW r \in Reports, Wrote(u, r),
             report'[r].content = report[r].content \/ Editable(r),
             report'[r].name = report[r].name \/ Editable(r),
             report[r].status = "aprobado" => report'[r].status \in {"aprobado", "archivado"},
             report'[r].notes >= report[r].notes
      PROVE  Goal
  <2>1. CASE q = r
    BY <1>5, <2>1 DEF Wrote, Editable
  <2>2. CASE q # r
    BY <1>4, <1>5, <2>2 DEF Wrote
  <2> QED
    BY <2>1, <2>2
<1>6. ASSUME NEW u \in Users, NEW r \in Reports, Inserted(u, r) PROVE Goal
  <2>1. CASE q = r
    BY <1>3, <1>6, <2>1 DEF Inserted
  <2>2. CASE q # r
    BY <1>4, <1>6, <2>2 DEF Inserted
  <2> QED
    BY <2>1, <2>2
<1>7. ASSUME NEW u \in Users, NEW r \in Reports, SetConaf(u, r) PROVE Goal
  <2>1. Wrote(u, r) /\ report'[r] = [report[r] EXCEPT !.revision = @ + 1]
    BY <1>7, SetConafEffect
  <2>2. /\ report'[r].status = report[r].status /\ report'[r].name = report[r].name
        /\ report'[r].content = report[r].content /\ report'[r].notes = report[r].notes
        /\ report[r].notes \in Nat
    BY <2>1, BumpedRow DEF TypeOK, Row
  <2>3. Wrote(u, r) /\ report'[r].notes >= report[r].notes
    BY <2>1, <2>2
  <2> HIDE DEF Goal
  <2> QED
    BY <1>5, <2>2, <2>3
<1>8. ASSUME NEW u \in Users, NEW r \in Reports, NEW c \in Contents, SaveFeatures(u, r, c)
      PROVE  Goal
  <2>1. /\ Wrote(u, r) /\ Editable(r) /\ report'[r].status = report[r].status
        /\ report'[r].notes = report[r].notes
    BY <1>8, SaveEffect
  <2>2. report[r].notes \in Nat
    BY DEF TypeOK, Row
  <2> QED
    BY <1>5, <2>1, <2>2
<1>9. ASSUME NEW u \in Users, NEW r \in Reports, NEW action \in Actions,
             Transition(u, r, action)
      PROVE  Goal
  <2>1. /\ Wrote(u, r) /\ report[r].status \in AllowedFrom[action]
        /\ report'[r].status = Target[action] /\ report'[r].name = report[r].name
        /\ report'[r].content = report[r].content
        /\ report'[r].notes = IF action = "request_changes" THEN report[r].notes + 1
                                                            ELSE report[r].notes
    BY <1>9, TransitionEffect
  <2>2. report[r].status = "aprobado" => report'[r].status = "archivado"
    BY <2>1 DEF AllowedFrom, Target, Actions
  <2>3. report'[r].notes >= report[r].notes
    BY <2>1 DEF TypeOK, Row
  <2> QED
    BY <1>5, <2>1, <2>2, <2>3
<1>10. ASSUME NEW u \in Users, RenameWrite(u) PROVE Goal
  <2>1. CASE report' = report
    BY <1>4, <2>1
  <2>2. CASE report' # report
    <3>1. PICK r \in Reports : r = tx[u].report
      BY <1>10 DEF RenameWrite, InProgress
    <3>2. /\ Wrote(u, r) /\ Editable(r) /\ report'[r].status = report[r].status
          /\ report'[r].content = report[r].content /\ report'[r].notes = report[r].notes
      BY <1>10, <2>2, <3>1, RenameEffect
    <3>3. report[r].notes \in Nat
      BY DEF TypeOK, Row
    <3> QED
      BY <1>5, <3>2, <3>3
  <2> QED
    BY <2>1, <2>2
<1>11. ASSUME NEW u \in Users, NEW r \in Reports, CreateInsert(u, r) PROVE Goal
  BY <1>4, <1>6, <1>11, CreateEffect
<1>12. ASSUME NEW u \in Users, NEW r \in Reports, CopyFeatures(u, r) PROVE Goal
  BY <1>6, <1>12, CopyEffect
<1>13. ASSUME NEW u \in Users, NEW r \in Reports, Delete(u, r) PROVE Goal
  <2>1. CASE q = r
    <3>1. report[q].status = "borrador" /\ ~report[q].submitted
      BY <1>13, <2>1 DEF Delete
    <3> QED
      BY <3>1
  <2>2. CASE q # r
    BY <1>4, <1>13, <2>2 DEF Delete, TypeOK
  <2> QED
    BY <2>1, <2>2
<1>14. ASSUME report' = report PROVE Goal
  BY <1>4, <1>14
<1> HIDE DEF Goal
<1> QED
  BY <1>7, <1>8, <1>9, <1>10, <1>11, <1>12, <1>13, <1>14
     DEF Next, vars, LoadFeatures, LoadHeader, CopyInsert, Rollback, CreateCheck,
         RenameCheck, CopyCheck

(* An approved report keeps its polygons and its name and can only be        *)
(* archived, since every write of them requires an editable report under the *)
(* lock; a report that was submitted is never deleted and loses no note.     *)
THEOREM ReviewedCorrect == Spec => ReviewedIsKept
PROOF
<1>1. ReportsInv /\ [Next]_vars => [ApprovedIsFrozen /\ SubmittedIsKept]_vars
  BY RowStep DEF ApprovedIsFrozen, SubmittedIsKept
<1> QED
  BY <1>1, ReportsInvariant, PTL DEF Spec, ReviewedIsKept

=============================================================================
