------------------------- MODULE ForestryComparison -------------------------
(***************************************************************************)
(* The comparison of a pending snapshot with the published one              *)
(* (forestry_comparison): geometric matching only, then groups of features  *)
(* that overlap.  A snapshot is the sequence of its features.               *)
(***************************************************************************)
EXTENDS ShapefileLayer

CONSTANT
    LinkPercent     \* LINK_OVERLAP_RATIO, in percent of the smaller feature

ASSUME ComparisonAssumption == LinkPercent \in 0..100

\* What ST_MakeValid leaves of an invalid geometry: the cells inside an odd number
\* of its rings; a valid one is taken as it is.
Ground(feature) ==
    LET parts == Range(feature.geometry.wkb)
        rings == FlattenSeq([i \in DOMAIN feature.geometry.wkb |->
                    << feature.geometry.wkb[i].shell >> \o feature.geometry.wkb[i].holes])
        inside(c) == Cardinality({i \in DOMAIN rings : c \in rings[i]})
    IN  IF feature.geometry.is_valid THEN UNION {Covered(p) : p \in parts}
        ELSE {c \in UNION Range(rings) : inside(c) % 2 = 1}

_digest(feature) == feature.geometry.wkb

_changed_fields(before, after) ==
    {f \in DOMAIN before.values : before.values[f] # after.values[f]}

\* The overlap of two features and the area of the smaller.
Ratio(before, after) ==
    LET a == Cardinality(Ground(before))
        b == Cardinality(Ground(after))
    IN  [overlap |-> Cardinality(Ground(before) \cap Ground(after)), smaller |-> IF a < b THEN a ELSE b]

\* The pairs that overlap at all; a feature without area overlaps nothing.
_overlaps(published, pending, P, Q) ==
    {pair \in P \X Q :
        LET r == Ratio(published[pair[1]], pending[pair[2]]) IN r.smaller > 0 /\ r.overlap > 0}

Linked(published, pending, pair) ==
    LET r == Ratio(published[pair[1]], pending[pair[2]]) IN 100 * r.overlap >= LinkPercent * r.smaller

\* The certain pairs: a geometry that occurs once on each side.
Matched(published, pending) ==
    {m \in (DOMAIN published) \X (DOMAIN pending) :
        /\ _digest(published[m[1]]) = _digest(pending[m[2]])
        /\ \A i \in DOMAIN published \ {m[1]} : _digest(published[i]) # _digest(published[m[1]])
        /\ \A j \in DOMAIN pending \ {m[2]} : _digest(pending[j]) # _digest(pending[m[2]])}

Node(side, o) == [side |-> side, ordinal |-> o]

\* The root a node's parents lead to.
find(parent, node) ==
    LET root[n \in DOMAIN parent] == IF parent[n] = n THEN n ELSE root[parent[n]]
    IN  root[node]

\* Mutant: the nodes themselves are joined, not the roots of their groups.
JoinNodes(parent, link) ==
    [parent EXCEPT ![Node("published", link[1])] = Node("pending", link[2])]

\* One link joins two groups.
Join(parent, link) ==
    LET a == find(parent, Node("published", link[1]))
        b == find(parent, Node("pending", link[2]))
    IN  IF a = b THEN parent ELSE [parent EXCEPT ![a] = b]

\* The links, in the order the query happens to return them; the groups do not
\* depend on it.
Groups(nodes, links) ==
    LET parent == FoldSet(LAMBDA link, p : Join(p, link), [n \in nodes |-> n], links)
    IN  {{n \in nodes : find(parent, n) = r} : r \in {find(parent, n) : n \in nodes}}

Kind(before, after) ==
    IF before # {} /\ after # {}
    THEN IF Cardinality(before) = 1 /\ Cardinality(after) = 1 THEN "geometry_changed" ELSE "uncertain"
    ELSE IF after # {} THEN "added" ELSE "removed"

\* One group and what can be said about it.
ChangeItem(kind, before, after, changed, overlaps, same_objectid) ==
    [kind |-> kind, published |-> before, pending |-> after, changed_fields |-> changed,
     overlaps |-> overlaps, same_objectid |-> same_objectid]

GroupItem(published, pending, group, overlaps) ==
    LET before == {n.ordinal : n \in {m \in group : m.side = "published"}}
        after == {n.ordinal : n \in {m \in group : m.side = "pending"}}
        kind == Kind(before, after)
        one(S) == CHOOSE o \in S : TRUE
    IN  IF kind = "geometry_changed"
        THEN ChangeItem(kind, before, after,
                        _changed_fields(published[one(before)], pending[one(after)]),
                        overlaps \cap (before \X after),
                        {published[one(before)].values.objectid = pending[one(after)].values.objectid})
        ELSE ChangeItem(kind, before, after, {}, overlaps \cap (before \X after), {})

KindOrder == [uncertain |-> 0, geometry_changed |-> 1, removed |-> 2, added |-> 3, same_geometry |-> 4]

\* The order the reviewer sees: by kind, then by first pending and published ordinal.
Before(a, b) ==
    LET least(S) == IF S = {} THEN 0 ELSE Min(S)
        key(i) == <<KindOrder[i.kind], least(i.pending), least(i.published)>>
        ka == key(a)
        kb == key(b)
    IN  \/ ka[1] < kb[1]
        \/ ka[1] = kb[1] /\ ka[2] < kb[2]
        \/ ka[1] = kb[1] /\ ka[2] = kb[2] /\ ka[3] < kb[3]

Sorted(items) ==
    [k \in 1..Cardinality(items) |->
        CHOOSE i \in items : Cardinality({j \in items : Before(j, i)}) = k - 1]

\* A certain pair whose attributes changed.
SameGeometry(published, pending, m) ==
    ChangeItem("same_geometry", {m[1]}, {m[2]}, _changed_fields(published[m[1]], pending[m[2]]), {},
               {published[m[1]].values.objectid = pending[m[2]].values.objectid})

Edited(published, pending, matched) ==
    {m \in matched : _changed_fields(published[m[1]], pending[m[2]]) # {}}

\* The features that are in no certain pair, in the groups their overlaps link.
GroupItems(published, pending, P, Q, overlaps) ==
    {GroupItem(published, pending, g, overlaps) :
        g \in Groups({Node("published", p) : p \in P} \cup {Node("pending", q) : q \in Q},
                     {o \in overlaps : Linked(published, pending, o)})}

Unpaired(published, pending, P, Q) ==
    GroupItems(published, pending, P, Q, _overlaps(published, pending, P, Q))

SnapshotComparison(items, unchanged) ==
    [items |-> Sorted(items), unchanged |-> unchanged,
     counts |-> [k \in DOMAIN KindOrder |-> Cardinality({i \in items : i.kind = k})]]

ComparedBy(published, pending, matched, edited) ==
    SnapshotComparison(
        {SameGeometry(published, pending, m) : m \in edited}
            \cup Unpaired(published, pending, DOMAIN published \ {m[1] : m \in matched},
                                              DOMAIN pending \ {m[2] : m \in matched}),
        Cardinality(matched \ edited))

ComparedAfter(published, pending, matched) ==
    ComparedBy(published, pending, matched, Edited(published, pending, matched))

compare_snapshots(published, pending) == ComparedAfter(published, pending, Matched(published, pending))

\* What a reviewer has to acknowledge.
review_required_count(comparison) == comparison.counts.geometry_changed + comparison.counts.uncertain

-----------------------------------------------------------------------------
\* Every feature of both snapshots is answered for exactly once, as part of one item
\* or of an unchanged pair: none disappears between the certain pairs and the groups.
AnsweredOnce(published, pending, c) ==
    LET once(field, n) ==
            FoldSeq(LAMBDA i, sum : Cardinality(i[field]) + sum, 0, c.items) + c.unchanged = n
        disjoint(field) ==
            \A i, j \in DOMAIN c.items : i # j => c.items[i][field] \cap c.items[j][field] = {}
    IN  once("published", Len(published)) /\ once("pending", Len(pending))
        /\ disjoint("published") /\ disjoint("pending")

\* The groups are the connected components of the links: linked features are together,
\* and no part of a group is without a link to the rest (the module's docstring).
GroupsAreConnected(published, pending, c) ==
    LET links(P, Q) == {o \in _overlaps(published, pending, P, Q) : Linked(published, pending, o)}
        P == UNION {i.published : i \in {j \in Range(c.items) : j.kind # "same_geometry"}}
        Q == UNION {i.pending : i \in {j \in Range(c.items) : j.kind # "same_geometry"}}
    IN  /\ \A o \in links(P, Q) : \E i \in Range(c.items) : o[1] \in i.published /\ o[2] \in i.pending
        /\ \A i \in Range(c.items) : i.kind # "same_geometry" =>
             \A A \in SUBSET i.published, B \in SUBSET i.pending :
                (A \cup B # {} /\ <<A, B>> # <<i.published, i.pending>>) =>
                    \E o \in links(i.published, i.pending) : (o[1] \in A) # (o[2] \in B)

\* Compared the other way round, the same groups are found: what was added is removed,
\* and nothing else changes.
Mirrored(there, back) ==
    LET swap == [uncertain |-> "uncertain", geometry_changed |-> "geometry_changed",
                 same_geometry |-> "same_geometry", added |-> "removed", removed |-> "added"]
        groups(c) == {<<i.kind, i.published, i.pending>> : i \in Range(c.items)}
    IN  /\ there.unchanged = back.unchanged
        /\ groups(there) = {<<swap[g[1]], g[3], g[2]>> : g \in groups(back)}

\* "Matching never uses them": whatever the labels of the pending features are, the same
\* features are grouped; only the listed differences change.
LabelsDoNotMatch(published, pending, c) ==
    LET relabelled == [i \in DOMAIN pending |-> [pending[i] EXCEPT !.values = pending[1].values]]
        groups(d) == {<<i.kind, i.published, i.pending>> :
                        i \in {j \in Range(d.items) : j.kind # "same_geometry"}}
    IN  groups(c) = groups(compare_snapshots(published, relabelled))

\* All of the above.
RightlyCompared(published, pending, c) ==
    /\ AnsweredOnce(published, pending, c) /\ GroupsAreConnected(published, pending, c)
    /\ Mirrored(c, compare_snapshots(pending, published)) /\ LabelsDoNotMatch(published, pending, c)
=============================================================================
