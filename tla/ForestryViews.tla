---------------------------- MODULE ForestryViews ----------------------------
(***************************************************************************)
(* What the Rodales dashboard is told while versions are published           *)
(* (forestry_versions.py, routers/forestry.py, the reads of                 *)
(* routers/forestry_workflow.py).  A request is several SELECTs, and each    *)
(* sees what is committed when it runs, so publications and uploads come     *)
(* between them.  One request runs beside the reviewers of                  *)
(* ForestryPublication; the features of a stored snapshot never change, so   *)
(* the SELECTs over them need no step of their own.                          *)
(***************************************************************************)
EXTENDS ForestryPublication, ForestryComparison, ForestryReads

CONSTANTS
    Content,            \* the features of each snapshot
    ReviewersBeside,    \* bound: reviewers with a page while a request runs
    EventsBeside        \* bound: events in the trail while a request runs

VARIABLE
    reader          \* a request and then its answer; requests change nothing, so one
                    \* at a time is enough

viewVars == <<uploaded, published, trail, review, request, reader>>

Roles == {"viewer", "operator"}

\* A request, what its statements have read so far, and what has been true since it
\* began (quiet, served and due, which it has to show, are not the program's).
Asked(kind, role, s, pc) ==
    [kind |-> kind, role |-> role, snapshot |-> s, pc |-> pc,
     published |-> NoSnapshot, ever |-> {}, versions |-> << >>, page |-> << >>,
     quiet |-> TRUE, served |-> {published},
     due |-> IF role = "operator" THEN uploaded ELSE EverPublished]

NoRead == [kind |-> "none", pc |-> "idle", role |-> "viewer"]

-----------------------------------------------------------------------------
\* Whether a comparison with the published version has to be acknowledged; pairs
\* that cannot be compared have no place among the contents.
_review_required(s, base) ==
    \/ list_invalid_geometries(Content[s]) # << >>
    \/ base \in Snapshots \ {s}
         /\ review_required_count(compare_snapshots(Content[base], Content[s])) > 0

RequiredPairs ==
    {pair \in Snapshots \X (Snapshots \cup {NoSnapshot}) : _review_required(pair[1], pair[2])}

VersionStatus(s, served, ever) ==
    IF s = served THEN "published" ELSE IF s \in ever THEN "previously_published" ELSE "pending"

\* list_versions and its three reads: the published id, the trail, the rows.
ReadPublishedId(next) ==
    reader' = [reader EXCEPT !.published = published, !.pc = next]

ReadEverPublished(next) ==
    reader' = [reader EXCEPT !.ever = EverPublished, !.pc = next]

list_versions(include_pending, asked) ==
    LET status(s) == VersionStatus(s, reader.published, reader.ever)
    IN  [s \in {t \in uploaded \cap asked : include_pending \/ status(t) # "pending"} |-> status(s)]

\* The events of visible versions, each at its place in the trail; the page shows the
\* latest first.
list_publication_events(visible) ==
    [k \in {n \in DOMAIN trail : trail[n].snapshot \in visible} |-> trail[k]]

Statement(pc) == reader.pc = pc /\ UNCHANGED pubVars

\* GET /versions.
get_versions ==
    /\ reader.kind = "versions"
    /\ \/ Statement("published") /\ ReadPublishedId("ever")
       \/ Statement("ever") /\ ReadEverPublished("rows")
       \/ Statement("rows") /\ reader' = [reader EXCEPT
            !.versions = list_versions(reader.role = "operator", Snapshots), !.ever = {}, !.pc = "id"]
       \/ Statement("id") /\ reader' = [reader EXCEPT
            !.page = [published_snapshot_id |-> published, events |-> << >>], !.pc = "events"]
       \/ Statement("events") /\ reader' = [reader EXCEPT
            !.page.events = list_publication_events(DOMAIN reader.versions), !.pc = "done"]

\* Mutant: the comparison is with the version that was published when the request began.
ComparedWithFirstRead(s, first, base) ==
    [published |-> base, required |-> <<s, first>> \in ReviewRequired]

\* _compare_with_published reads the published id once more; first is the earlier read.
_compare_with_published(s, first, base) ==
    [published |-> base, required |-> <<s, base>> \in ReviewRequired]

can_publish(status) == status = "pending"

\* get_review's answer, with the expected id RevisionPage sends back: the published
\* version on the page, or none where it is the version itself.
ReviewPage(compared) ==
    LET s == reader.snapshot
        status == reader.versions[s]
    IN  [status |-> status, compared |-> compared.published, review_required |-> compared.required,
         can_publish |-> can_publish(status), can_restore |-> status = "previously_published",
         expected |-> IF compared.published = s THEN NoSnapshot ELSE compared.published]

\* GET /snapshots/{id}/review: _single_version, then the comparison.  The published
\* version's own row is read the same way and only shown.
get_review ==
    /\ reader.kind = "review"
    /\ \/ Statement("published") /\ ReadPublishedId("ever")
       \/ Statement("ever") /\ ReadEverPublished("rows")
       \/ /\ Statement("rows")
          /\ LET found == list_versions(TRUE, {reader.snapshot})
             IN  reader' = [reader EXCEPT !.versions = found, !.ever = {},
                                          !.pc = IF DOMAIN found = {} THEN "404" ELSE "compare"]
       \/ Statement("compare") /\ reader' = [reader EXCEPT
            !.page = ReviewPage(_compare_with_published(reader.snapshot, reader.published, published)),
            !.pc = "done"]

_visible_to(role, s) == role = "operator" \/ s \in EverPublished

\* GET /snapshots: the rows, then for each of them whether it is visible.
list_snapshots ==
    /\ reader.kind = "snapshots"
    /\ \/ Statement("rows") /\ reader' = [reader EXCEPT !.ever = uploaded, !.page = {}, !.pc = "each"]
       \/ /\ Statement("each")
          /\ \E s \in reader.ever : reader' = [reader EXCEPT
                !.ever = @ \ {s}, !.page = IF _visible_to(reader.role, s) THEN @ \cup {s} ELSE @]
       \/ Statement("each") /\ reader.ever = {} /\ reader' = [reader EXCEPT !.pc = "done"]

\* GET /snapshots/published: the id, then the row it names.
get_published_snapshot ==
    /\ reader.kind = "served"
    /\ Statement("published")
    /\ reader' = [reader EXCEPT !.page = {published} \ {NoSnapshot},
                                !.pc = IF published = NoSnapshot THEN "404" ELSE "done"]

\* The routes below one snapshot.  The row and the trail only grow and are read in this
\* order, so the answer is the one of the second read.
_snapshot_or_404(role, s) == s \in uploaded /\ _visible_to(role, s)

get_snapshot_summary(s) == snapshot_summary(Content[s])
get_predio_distribution(s) == predio_distribution(Content[s])
get_use_distribution(s, field) == use_distribution(Content[s], field)
get_source_field_comparison(s) == use_field_comparison(Content[s])
list_features(s, filters, limit, offset) == list_source_features(Content[s], filters, limit, offset)
get_feature_detail(s, ordinal) == get_source_feature(Content[s], ordinal)
get_feature_collection(s, filters) == list_feature_geometries(Content[s], filters)

\* Parameters that are no filters are ignored.
feature_filter_query(query) == [f \in DOMAIN query \cap SourceFeatureFilters |-> query[f]]

\* What a page of the dashboard puts together from them: the summary, the
\* distributions, the list a filter leaves, its map and one feature of it.
Dashboard(s, filters) ==
    [summary |-> get_snapshot_summary(s), predios |-> get_predio_distribution(s),
     uses |-> get_use_distribution(s, "uso_2026"), fields |-> get_source_field_comparison(s),
     list |-> list_features(s, filters, 2, 0), map |-> get_feature_collection(s, filters),
     detail |-> get_feature_detail(s, 1)]

\* The queries of this model.
Queries ==
    {<< >>, [quality_flag |-> "invalid_geometry"], [uso_2026 |-> "pino"], [page |-> 1],
     [uso_2024_vs_uso_2026 |-> "changed"]}

Dashboards == [s \in Snapshots, q \in Queries |-> Dashboard(s, feature_filter_query(q))]

snapshot_routes ==
    /\ reader.kind = "content"
    /\ Statement("record")
    /\ \E q \in Queries :
         reader' = IF _snapshot_or_404(reader.role, reader.snapshot)
                   THEN [reader EXCEPT !.page = Dashboards[reader.snapshot, q], !.pc = "done"]
                   ELSE [reader EXCEPT !.pc = "404"]

-----------------------------------------------------------------------------
Over == reader.pc \in {"done", "404", "503"}

\* The database is lost in the middle of a request.
get_forestry_read_connection ==
    /\ reader # NoRead /\ ~Over /\ UNCHANGED pubVars
    /\ reader' = [NoRead EXCEPT !.pc = "503"]

Beside ==
    /\ Cardinality({r \in Reviewers : review[r] # NoReview}) <= ReviewersBeside
    /\ Len(trail) <= EventsBeside

Ask ==
    /\ reader = NoRead /\ Beside /\ UNCHANGED pubVars
    /\ \E role \in Roles, s \in Snapshots :
         \/ reader' = Asked("versions", role, NoSnapshot, "published")
         \/ role = "operator" /\ reader' = Asked("review", role, s, "published")
         \/ reader' = Asked("snapshots", role, NoSnapshot, "rows")
         \/ reader' = Asked("served", role, NoSnapshot, "published")
         \/ reader' = Asked("content", role, s, "record")

\* The reviewers go on beside the request, and beside a review page that is open.
Meanwhile ==
    /\ Over => reader.kind = "review"
    /\ PubNext
    /\ reader # NoRead => Beside'
    /\ reader' = IF reader = NoRead \/ trail' = trail THEN reader
                 ELSE [reader EXCEPT !.quiet = FALSE, !.served = @ \cup {published'}]

ViewInit == PubInit /\ reader = NoRead

ViewNext ==
    \/ Ask \/ get_versions \/ get_review \/ list_snapshots \/ get_published_snapshot \/ snapshot_routes
    \/ get_forestry_read_connection \/ Meanwhile

ViewSpec == ViewInit /\ [][ViewNext]_viewVars

-----------------------------------------------------------------------------
Done(kind) == reader.kind = kind /\ reader.pc = "done"

\* The snapshots an answer names, events included.
Named ==
    IF Done("versions")
    THEN DOMAIN reader.versions \cup {reader.page.published_snapshot_id}
           \cup UNION {{e.snapshot, e.previous} : e \in Range(reader.page.events)}
    ELSE IF Done("snapshots") \/ Done("served") THEN reader.page
    ELSE IF Done("content") THEN {reader.snapshot} ELSE {}

\* "Pending (never-published) snapshots are for the roles that review them": no answer
\* to a viewer names a version that never was published, in no list, event or route,
\* whatever is uploaded and published while it is put together.
ViewersSeePublishedOnly ==
    reader.role = "viewer" => Named \subseteq EverPublished \cup {NoSnapshot}

\* A list misses nothing that was there when it was asked for, and the routes of a
\* version that was published are never 404.
NothingMissing ==
    /\ Done("versions") => reader.due \subseteq DOMAIN reader.versions
    /\ Done("snapshots") => reader.due \subseteq reader.page
    /\ reader.kind = "content" /\ reader.pc = "404" => reader.snapshot \notin reader.due
    /\ reader.kind = "served" /\ reader.pc = "404" => NoSnapshot \in reader.served

\* However the reads are torn, at most one version is marked as published, and it was
\* the served one at some moment of the request; so was the id beside the list.
MarkedWasServed ==
    /\ Done("versions") =>
         LET marked == {s \in DOMAIN reader.versions : reader.versions[s] = "published"}
         IN  Cardinality(marked) <= 1 /\ marked \subseteq reader.served
             /\ reader.page.published_snapshot_id \in reader.served
    /\ Done("served") => reader.page \subseteq reader.served

\* When nothing is activated meanwhile the history is exact: one published version, the
\* one whose id is beside the list, every other status right, and the whole trail.
QuietHistoryIsExact ==
    Done("versions") /\ reader.quiet =>
        /\ \A s \in DOMAIN reader.versions :
             /\ reader.versions[s] = "published" <=> s = published
             /\ reader.versions[s] = "previously_published" <=> s \in EverPublished \ {published}
        /\ published \in DOMAIN reader.versions \cup {NoSnapshot}
        /\ reader.page.published_snapshot_id = published
        /\ reader.page.events = trail

\* What a review page offers is what the server will do: as long as nothing was
\* activated, the button it shows is accepted and a page without one is the published
\* version's own.
OffersAreRight ==
    Done("review") /\ reader.quiet =>
        LET page == reader.page
            s == reader.snapshot
        IN  /\ page.can_publish => MayActivate(s, "publish", page.expected)
            /\ page.can_restore => MayActivate(s, "restore", page.expected)
            /\ ~page.can_publish /\ ~page.can_restore => s = published

\* Whatever happened since, a page whose publication would be accepted shows the
\* comparison with the version it would replace: the expected id protects the review.
PublishedAsCompared ==
    Done("review") =>
        LET page == reader.page
            s == reader.snapshot
        IN  page.can_publish /\ MayActivate(s, "publish", page.expected) =>
              page.compared = published /\ (page.review_required <=> <<s, published>> \in ReviewRequired)

\* The list, the map beside it and the totals above them are of the same features,
\* and what the list links to is there.
ListAndMapAgree(page) ==
    /\ Len(page.map) = page.list.total_count
    /\ page.list.features = SubSeq(page.map, 1, Len(page.list.features))
    /\ page.list.total_count <= page.summary.totals.feature_count
    /\ Len(page.detail) = 1

\* Of every dashboard: a snapshot never changes, so no state is involved.
DashboardsAgree == \A s \in Snapshots, q \in Queries : ListAndMapAgree(Dashboards[s, q])

\* Every answer about versions can be relied on however its statements are torn by
\* publications and uploads: what it names, marks, offers and compares.
ReadersTold ==
    /\ ViewersSeePublishedOnly /\ NothingMissing
    /\ MarkedWasServed /\ QuietHistoryIsExact
    /\ OffersAreRight /\ PublishedAsCompared
=============================================================================
