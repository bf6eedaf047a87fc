-------------------------- MODULE TranselecViewsProofs --------------------------
(***************************************************************************)
(* Proofs about TranselecViews, for any sheets, edits, filters, labels,    *)
(* holidays and page size.                                                 *)
(*                                                                         *)
(* ReadersAnswered: what a request has read, it read of a version that had *)
(* its event then, and the trail only grows (RequestRight); the pages of a *)
(* walk follow each other and the cursor is behind all of them             *)
(* (WalkRight); and the rows that have matched all along are listed up to  *)
(* the cursor (SteadyRight).                                               *)
(*                                                                         *)
(* TermsOnlyAge and the deadlines: what the walk over the calendar finds   *)
(* is shown for every day from the last one backwards, by the smallest     *)
(* counterexample; beside it, edited dates are dates and a row keeps its   *)
(* PMF (TermsInv).                                                         *)
(***************************************************************************)
EXTENDS TranselecViews, FiniteSetTheorems, WellFoundedInduction, TLAPS

-----------------------------------------------------------------------------
(* Sets of numbers.                                                        *)

(* Well-ordering, with a set for a parameter. *)
LEMMA LeastNatural ==
    ASSUME NEW T \in SUBSET Nat, T # {}
    PROVE  \E m \in T : \A n \in T : m <= n
<1> DEFINE R == OpToRel(<, Nat)
<1>1. \A m, n \in Nat : m < n => <<m, n>> \in R
  BY DEF OpToRel
<1>2. IsWellFoundedOn(R, Nat)
  BY NatLessThanWellFounded
<1> HIDE DEF R
<1>3. \E m \in T : \A n \in T : ~ (<<n, m>> \in R)
  BY <1>2, WFMin
<1>4. PICK m \in T : \A n \in T : ~ (<<n, m>> \in R)
  BY <1>3
<1>5. \A n \in T : ~ (n < m)
  BY <1>1, <1>4
<1> QED
  BY <1>5

(* A finite set of numbers has a largest one, and it is what Max chooses. *)
LEMMA LargestNatural ==
    ASSUME NEW S \in SUBSET Nat, IsFiniteSet(S), S # {}
    PROVE  Max(S) \in S /\ \A n \in S : n <= Max(S)
<1> DEFINE Above(n) == {k \in S : n < k}
           Sizes == {Cardinality(Above(n)) : n \in S}
<1>0. \A n \in S : n \in Nat
  OBVIOUS
<1>1. \A n \in S : IsFiniteSet(Above(n)) /\ Cardinality(Above(n)) \in Nat
  BY FS_Subset, FS_CardinalityType
<1>2. Sizes \in SUBSET Nat /\ Sizes # {}
  BY <1>1
<1>3. PICK c \in Sizes : \A d \in Sizes : c <= d
  <2> HIDE DEF Sizes
  <2> QED
    BY <1>2, LeastNatural
<1>4. PICK m \in S : c = Cardinality(Above(m))
  BY <1>3
<1>5. ASSUME NEW n \in S, m < n
      PROVE  FALSE
  <2>1. Above(n) \subseteq Above(m) /\ n \in Above(m) /\ n \notin Above(n)
    <3>1. ASSUME NEW k \in Above(n)
          PROVE  k \in Above(m)
      BY <1>0, <1>5
    <3>2. n \in Above(m)
      BY <1>5
    <3>3. n \notin Above(n)
      BY <1>0
    <3> QED
      BY <3>1, <3>2, <3>3
  <2>2. Cardinality(Above(n)) <= Cardinality(Above(m)) /\ Cardinality(Above(n)) # Cardinality(Above(m))
    <3> DEFINE A == Above(m)
               B == Above(n)
    <3>1. IsFiniteSet(A) /\ B \in SUBSET A /\ A # B
      BY <1>1, <2>1
    <3> HIDE DEF A, B
    <3>2. Cardinality(B) <= Cardinality(A) /\ (Cardinality(A) = Cardinality(B) => A = B)
      BY <3>1, FS_Subset
    <3> QED
      BY <3>1, <3>2 DEF A, B
  <2>3. c <= Cardinality(Above(n))
    BY <1>3, <1>5
  <2> QED
    BY <1>1, <1>4, <1>5, <2>2, <2>3
<1>6. \A n \in S : m >= n
  BY <1>5
<1>7. \A x, y \in S : (\A n \in S : x >= n) /\ (\A n \in S : y >= n) => x = y
  OBVIOUS
<1>8. \E x \in S : \A y \in S : x >= y
  BY <1>6
<1>9. Max(S) \in S /\ \A y \in S : Max(S) >= y
  BY <1>8 DEF Max
<1> QED
  BY <1>9

(* The first rows are those before any later row; where rows are left the cursor is the last
   of the page. *)
LEMMA PageIsFirst ==
    ASSUME NEW rest \in SUBSET Nat, IsFiniteSet(rest)
    PROVE  /\ FirstRows(rest) \subseteq rest
           /\ \A n \in FirstRows(rest), m \in rest : m < n => m \in FirstRows(rest)
           /\ FirstRows(rest) # rest =>
                /\ next_cursor(rest, FirstRows(rest)) \in FirstRows(rest)
                /\ \A n \in FirstRows(rest) : n <= next_cursor(rest, FirstRows(rest))
<1> DEFINE Before(n) == {k \in rest : k < n}
<1>0. \A n \in rest : n \in Nat
  OBVIOUS
<1>1. \A n \in rest : IsFiniteSet(Before(n)) /\ Cardinality(Before(n)) \in Nat
  BY FS_Subset, FS_CardinalityType
<1>2. FirstRows(rest) = {n \in rest : Cardinality(Before(n)) < PageSize}
  BY DEF FirstRows
<1>3. PageSize \in Nat /\ PageSize > 0
  BY ViewsAssumption DEF ViewsAssumption
<1>4. ASSUME NEW n \in FirstRows(rest), NEW m \in rest, m < n
      PROVE  m \in FirstRows(rest)
  <2>1. n \in rest /\ Cardinality(Before(n)) < PageSize
    BY <1>2, <1>4
  <2>2. Before(m) \in SUBSET Before(n)
    <3>1. ASSUME NEW k \in Before(m)
          PROVE  k \in Before(n)
      BY <1>0, <1>4, <2>1
    <3> QED
      BY <3>1
  <2>3. Cardinality(Before(m)) <= Cardinality(Before(n))
    BY <1>1, <2>1, <2>2, FS_Subset
  <2>4. Cardinality(Before(m)) \in Nat /\ Cardinality(Before(n)) \in Nat
    BY <1>1, <2>1
  <2>5. Cardinality(Before(m)) < PageSize
    BY <1>3, <2>1, <2>3, <2>4
  <2> QED
    BY <1>2, <2>5
<1>5. ASSUME FirstRows(rest) # rest
      PROVE  /\ next_cursor(rest, FirstRows(rest)) \in FirstRows(rest)
             /\ \A n \in FirstRows(rest) : n <= next_cursor(rest, FirstRows(rest))
  <2>1. rest # {}
    BY <1>2, <1>5
  <2>2. PICK m \in rest : \A n \in rest : m <= n
    BY <2>1, LeastNatural
  <2>3. Before(m) = {}
    <3>1. ASSUME NEW k \in Before(m)
          PROVE  FALSE
      BY <1>0, <2>2
    <3> QED
      BY <3>1
  <2>4. m \in FirstRows(rest)
    BY <1>2, <1>3, <2>3, FS_EmptySet
  <2>5. FirstRows(rest) \in SUBSET rest /\ IsFiniteSet(FirstRows(rest))
    BY <1>2, FS_Subset
  <2>6. Max(FirstRows(rest)) \in FirstRows(rest) /\ \A n \in FirstRows(rest) : n <= Max(FirstRows(rest))
    BY <2>4, <2>5, LargestNatural
  <2> QED
    BY <1>5, <2>6 DEF next_cursor
<1> QED
  BY <1>2, <1>4, <1>5

-----------------------------------------------------------------------------
(* Requests beside edits and publications. *)

RequestFields == {"stage", "route", "filter", "listed", "cursor"}

PublishEvent == [import : Imports, occurred_at : Nat]

HasEvent(i) == \E k \in DOMAIN events : events[k].import = i

(* What a request has read: the version it answers for had its event then, so it has it now. *)
RequestRight(q) ==
    /\ RequestFields \subseteq DOMAIN q /\ q.route \in Routes
    /\ q.stage \in {"active", "rows", "pmf_rows", "event", "list", "count", "page", "answered", "refused"}
    /\ q.stage \in {"rows", "pmf_rows", "event", "count", "page"} =>
         "import" \in DOMAIN q /\ q.import \in Imports /\ HasEvent(q.import)
    /\ q.stage = "list" => "import" \in DOMAIN q /\ (q.import # None => HasEvent(q.import))
    /\ q.stage = "rows" => q.route \in {"plazos", "aef", "report"}
    /\ q.stage = "pmf_rows" => q.route \in {"plazos", "aef"}
    /\ q.stage = "event" => q.route \in {"report", "active"}
    /\ q.stage = "list" => q.route \in {"history", "recent"}
    /\ q.stage \in {"count", "page"} => q.route = "pages"
    /\ q.stage = "answered" /\ q.route \in {"report", "active"} =>
         q.answer.event \in DOMAIN events /\ events[q.answer.event].import = q.answer.import
    /\ q.stage = "answered" /\ q.route = "history" =>
         /\ \A x \in q.answer : x.is_active <=> x.import = q.import
         /\ q.import # None => \E x \in q.answer : x.is_active

(* A walk so far: its pages follow each other, and the cursor is behind all of them. *)
WalkRight(q) ==
    q.route = "pages" =>
        /\ q.listed \in Seq(SUBSET Nat)
        /\ \A k, l \in DOMAIN q.listed : k < l => \A n \in q.listed[k], m \in q.listed[l] : n < m
        /\ q.cursor # None => q.cursor \in Nat /\ \A k \in DOMAIN q.listed : \A n \in q.listed[k] : n <= q.cursor
        /\ q.cursor = None /\ q.stage # "answered" => q.listed = << >>

IsListed(q, n) == \E k \in DOMAIN q.listed : n \in q.listed[k]

(* The rows that have matched all along are listed up to the cursor; the version a page is
   read from is then the active one. *)
SteadyRight(q, rows) ==
    /\ rows # {} => /\ q.route = "pages" /\ active \in Imports
                    /\ rows \subseteq RowNumbers(active, q.filter)
                    /\ q.stage \in {"count", "page"} => q.import = active
    /\ q.cursor # None => \A n \in rows : n <= q.cursor => IsListed(q, n)
    /\ q.stage = "answered" => \A n \in rows : IsListed(q, n)

ReadersInv ==
    /\ active \in Imports \cup {None} /\ events \in Seq(PublishEvent)
    /\ active # None => HasEvent(active)
    /\ \/ reader = NoReader /\ steady = {}
       \/ RequestRight(reader) /\ WalkRight(reader) /\ SteadyRight(reader, steady)

(* The rows of a version are numbered and finitely many, whatever was edited. *)
LEMMA NumbersOfRows ==
    ASSUME NEW i \in Imports, NEW filter
    PROVE  RowNumbers(i, filter) \in SUBSET Nat /\ IsFiniteSet(RowNumbers(i, filter))
<1> DEFINE N == {r.n : r \in Sheets[i]}
           number == [r \in Sheets[i] |-> r.n]
<1>1. Sheets[i] \subseteq ResumenRow /\ IsFiniteSet(Sheets[i])
  BY ViewsAssumption DEF ViewsAssumption
<1>2. \A r \in Sheets[i] : r.n \in Nat /\ "n" \in DOMAIN r
  BY <1>1 DEF ResumenRow
<1>3. \A r \in Sheets[i] : "n" \notin web_fields(r)
  BY DEF web_fields, EditableTexts, EditableDates
<1>4. \A r \in Sheets[i] : transelec_effective_row(r).n = r.n
  BY <1>2, <1>3 DEF transelec_effective_row
<1>5. RowNumbers(i, filter) \subseteq N
  BY <1>4 DEF RowNumbers, _fetch_filtered_rows, EffectiveRows
<1>6. number \in Surjection(Sheets[i], N)
  BY DEF Surjection
<1>7. IsFiniteSet(N)
  BY <1>1, <1>6, FS_Surjection
<1>8. N \subseteq Nat
  BY <1>2
<1> HIDE DEF N
<1> QED
  BY <1>5, <1>7, <1>8, FS_Subset

(* The trail grows at its end, and its newest event of a version is one of it. *)
LEMMA EventsGrow ==
    ASSUME events \in Seq(PublishEvent), NEW i \in Imports, NEW at \in Nat,
           events' = Append(events, [import |-> i, occurred_at |-> at])
    PROVE  /\ events' \in Seq(PublishEvent)
           /\ \A k \in DOMAIN events : k \in DOMAIN events' /\ events'[k] = events[k]
           /\ HasEvent(i)'
<1>0. [import |-> i, occurred_at |-> at] \in PublishEvent
  BY DEF PublishEvent
<1>1. events' \in Seq(PublishEvent)
  BY <1>0
<1>2. /\ DOMAIN events = 1 .. Len(events) /\ DOMAIN events' = 1 .. (Len(events) + 1) /\ Len(events) \in Nat
      /\ \A k \in 1 .. Len(events) : events'[k] = events[k]
      /\ events'[Len(events) + 1] = [import |-> i, occurred_at |-> at]
  BY <1>0
<1>3. Len(events) + 1 \in DOMAIN events' /\ events'[Len(events) + 1].import = i
  BY <1>2
<1>4. HasEvent(i)'
  BY <1>3 DEF HasEvent
<1> QED
  BY <1>1, <1>2, <1>4

LEMMA LatestEvent ==
    ASSUME events \in Seq(PublishEvent), NEW i, HasEvent(i)
    PROVE  /\ _read_latest_publish_event(i) \in DOMAIN events
           /\ events[_read_latest_publish_event(i)].import = i
<1> DEFINE Of == {k \in DOMAIN events : events[k].import = i}
<1>1. DOMAIN events = 1 .. Len(events) /\ Len(events) \in Nat
  OBVIOUS
<1>2. Of \in SUBSET Nat /\ \A k \in Of : k <= Len(events)
  BY <1>1
<1>3. Of # {}
  BY DEF HasEvent
<1> DEFINE Times == {events[k].occurred_at : k \in Of}
           time == [k \in Of |-> events[k].occurred_at]
           Newest == {k \in Of : events[k].occurred_at = Max(Times)}
<1>4. Times \in SUBSET Nat /\ Times # {}
  <2>1. \A k \in DOMAIN events : events[k] \in PublishEvent
    OBVIOUS
  <2>2. \A k \in Of : events[k].occurred_at \in Nat
    BY <2>1 DEF PublishEvent
  <2> QED
    BY <1>3, <2>2
<1>5. time \in Surjection(Of, Times)
  BY DEF Surjection
<1>6. Newest \in SUBSET Of
  OBVIOUS
<1>7. ASSUME Max(Times) \in Times
      PROVE  Newest # {}
  <2>1. PICK k \in Of : Max(Times) = events[k].occurred_at
    BY <1>7
  <2>2. k \in Newest
    BY <2>1
  <2> QED
    BY <2>2
<1>8. _read_latest_publish_event(i) = Max(Newest)
  BY DEF _read_latest_publish_event
<1>9. \A k \in Of : k \in DOMAIN events /\ events[k].import = i
  OBVIOUS
<1> HIDE DEF Of, Times, time, Newest
<1>10. IsFiniteSet(Of)
  BY <1>1, <1>2, FS_BoundedSetOfNaturals
<1>11. Max(Times) \in Times
  BY <1>4, <1>5, <1>10, FS_Surjection, LargestNatural
<1>12. Newest \in SUBSET Nat /\ IsFiniteSet(Newest) /\ Newest # {}
  BY <1>2, <1>6, <1>7, <1>10, <1>11, FS_Subset
<1>13. Max(Newest) \in Newest
  BY <1>12, LargestNatural
<1> QED
  BY <1>6, <1>8, <1>9, <1>13

LEMMA AskIsRight ==
    ASSUME NEW route \in Routes, NEW filter, Ask(route, filter), NEW p, p = reader'
    PROVE  RequestRight(p) /\ WalkRight(p) /\ SteadyRight(p, {})
<1>1. /\ RequestFields \subseteq DOMAIN p /\ p.stage = "active" /\ p.route = route
      /\ p.listed = << >> /\ p.cursor = None
  BY DEF Ask, RequestFields
<1>2. RequestRight(p)
  BY <1>1 DEF RequestRight
<1>3. WalkRight(p)
  BY <1>1 DEF WalkRight
<1>4. SteadyRight(p, {})
  BY <1>1 DEF SteadyRight
<1> QED
  BY <1>2, <1>3, <1>4

LEMMA ActiveIsRight ==
    ASSUME ReadersInv, NEW q, q = reader, RequestRight(q), WalkRight(q), SteadyRight(q, steady),
           _require_active_import_id, NEW p, p = reader', NEW rows, rows = steady'
    PROVE  RequestRight(p) /\ WalkRight(p) /\ SteadyRight(p, rows)
<1>1. RequestFields \subseteq DOMAIN q /\ q.route \in Routes /\ q.stage = "active"
  BY DEF RequestRight, _require_active_import_id
<1>2. active \in Imports \cup {None} /\ (active # None => HasEvent(active))
  BY DEF ReadersInv
<1>3. CASE active = None /\ q.route \notin {"history", "recent"}
  <2>1. p = [q EXCEPT !.stage = "refused"] /\ rows = steady
    BY <1>3 DEF _require_active_import_id
  <2>2. /\ RequestFields \subseteq DOMAIN p /\ p.stage = "refused"
        /\ p.route = q.route /\ p.filter = q.filter /\ p.listed = q.listed /\ p.cursor = q.cursor
    BY <1>1, <2>1 DEF RequestFields
  <2>3. RequestRight(p)
    BY <1>1, <2>2 DEF RequestRight
  <2>4. WalkRight(p)
    BY <1>1, <2>2 DEF WalkRight
  <2>5. SteadyRight(p, rows)
    BY <1>1, <2>1, <2>2 DEF SteadyRight, IsListed
  <2> QED
    BY <2>3, <2>4, <2>5
<1>4. CASE ~(active = None /\ q.route \notin {"history", "recent"})
  <2>1. p = [f \in DOMAIN q \cup {"import"} |->
               IF f = "import" THEN active ELSE IF f = "stage" THEN After(q.route) ELSE q[f]]
    BY <1>4 DEF _require_active_import_id
  <2>2. /\ RequestFields \subseteq DOMAIN p /\ p.stage = After(q.route) /\ p.import = active
        /\ p.route = q.route /\ p.filter = q.filter /\ p.listed = q.listed /\ p.cursor = q.cursor
        /\ "import" \in DOMAIN p
    BY <1>1, <2>1 DEF RequestFields
  <2>3. rows = IF q.route = "pages" /\ q.cursor = None /\ active # None
               THEN RowNumbers(active, q.filter) ELSE steady
    BY DEF _require_active_import_id
  <2>4. /\ q.route \in {"plazos", "aef", "report"} => After(q.route) = "rows"
        /\ q.route = "active" => After(q.route) = "event"
        /\ q.route \in {"history", "recent"} => After(q.route) = "list"
        /\ q.route = "pages" => After(q.route) = "count"
    BY DEF After
  <2>5. RequestRight(p)
    BY <1>1, <1>2, <1>4, <2>2, <2>4 DEF RequestRight, Routes
  <2>6. WalkRight(p)
    BY <1>1, <2>2, <2>4 DEF WalkRight
  <2>7. p.stage # "answered"
    BY <1>1, <2>2, <2>4 DEF Routes
  <2>8. rows # {} => p.route = "pages" /\ active \in Imports /\ rows \subseteq RowNumbers(active, p.filter)
    BY <1>2, <2>2, <2>3 DEF SteadyRight
  <2>9. p.cursor # None => \A n \in rows : n <= p.cursor => IsListed(p, n)
    BY <2>2, <2>3 DEF SteadyRight, IsListed
  <2>10. SteadyRight(p, rows)
    BY <2>2, <2>7, <2>8, <2>9 DEF SteadyRight
  <2> QED
    BY <2>5, <2>6, <2>10
<1> QED
  BY <1>3, <1>4

(* The statements that read rows, an event or a list. *)
LEMMA ReadIsRight ==
    ASSUME ReadersInv, NEW q, q = reader, RequestRight(q), SteadyRight(q, steady),
           ReadRows \/ ReadPmfRows \/ ReadEvent \/ ReadList, NEW p, p = reader'
    PROVE  RequestRight(p) /\ WalkRight(p) /\ SteadyRight(p, steady)
<1>1. RequestFields \subseteq DOMAIN q /\ q.route \in Routes /\ events \in Seq(PublishEvent)
  BY DEF RequestRight, ReadersInv
<1>3. ASSUME NEW value, p = [f \in DOMAIN q \cup {"answer"} |->
                               IF f = "answer" THEN value ELSE IF f = "stage" THEN "answered" ELSE q[f]]
      PROVE  /\ RequestFields \subseteq DOMAIN p /\ p.stage = "answered" /\ p.answer = value
             /\ p.route = q.route /\ p.filter = q.filter /\ p.listed = q.listed /\ p.cursor = q.cursor
             /\ "import" \in DOMAIN q => "import" \in DOMAIN p /\ p.import = q.import
  BY <1>1, <1>3 DEF RequestFields
<1>4. CASE ReadRows
  <2>1. PICK value, stage :
           /\ p = [f \in DOMAIN q \cup {"rows"} |->
                     IF f = "rows" THEN value ELSE IF f = "stage" THEN stage ELSE q[f]]
           /\ stage = IF q.route = "report" THEN "event" ELSE "pmf_rows"
    BY <1>4 DEF ReadRows, With
  <2>2. q.stage = "rows"
    BY <1>4 DEF ReadRows
  <2>9. /\ RequestFields \subseteq DOMAIN p /\ p.stage = stage
        /\ p.route = q.route /\ p.filter = q.filter /\ p.listed = q.listed /\ p.cursor = q.cursor
        /\ "import" \in DOMAIN q => "import" \in DOMAIN p /\ p.import = q.import
    BY <1>1, <2>1 DEF RequestFields
  <2>3. RequestRight(p)
    BY <1>1, <2>1, <2>2, <2>9 DEF RequestRight
  <2>4. p.route # "pages" /\ steady = {} /\ p.stage # "answered"
    BY <2>1, <2>2, <2>9 DEF RequestRight, SteadyRight
  <2> QED
    BY <2>3, <2>4 DEF WalkRight, SteadyRight
<1>5. CASE ReadPmfRows
  <2>1. PICK value : p = [f \in DOMAIN q \cup {"answer"} |->
                            IF f = "answer" THEN value ELSE IF f = "stage" THEN "answered" ELSE q[f]]
    <3>1. (\E v : Answer(v)) /\ q.stage = "pmf_rows"
      BY <1>5 DEF ReadPmfRows
    <3> QED
      BY <3>1 DEF Answer, With
  <2>2. q.stage = "pmf_rows" /\ q.route \in {"plazos", "aef"}
    BY <1>5 DEF ReadPmfRows, RequestRight
  <2>9. /\ RequestFields \subseteq DOMAIN p /\ p.stage = "answered" /\ p.answer = value
        /\ p.route = q.route /\ p.filter = q.filter /\ p.listed = q.listed /\ p.cursor = q.cursor
        /\ "import" \in DOMAIN q => "import" \in DOMAIN p /\ p.import = q.import
    BY <1>3, <2>1
  <2>3. RequestRight(p)
    BY <1>1, <2>2, <2>9 DEF RequestRight
  <2>4. p.route # "pages" /\ steady = {}
    BY <2>2, <2>9 DEF SteadyRight
  <2> QED
    BY <2>3, <2>4 DEF WalkRight, SteadyRight
<1>6. CASE ReadEvent
  <2>1. q.stage = "event" /\ q.route \in {"report", "active"} /\ HasEvent(q.import)
    BY <1>6 DEF ReadEvent, RequestRight
  <2>2. PICK value : /\ p = [f \in DOMAIN q \cup {"answer"} |->
                               IF f = "answer" THEN value ELSE IF f = "stage" THEN "answered" ELSE q[f]]
                     /\ value.event = _read_latest_publish_event(q.import) /\ value.import = q.import
    BY <1>6, <2>1 DEF ReadEvent, HasEvent, Answer, With
  <2>3. /\ _read_latest_publish_event(q.import) \in DOMAIN events
        /\ events[_read_latest_publish_event(q.import)].import = q.import
    BY <1>1, <2>1, LatestEvent
  <2>9. /\ RequestFields \subseteq DOMAIN p /\ p.stage = "answered" /\ p.answer = value
        /\ p.route = q.route /\ p.filter = q.filter /\ p.listed = q.listed /\ p.cursor = q.cursor
        /\ "import" \in DOMAIN q => "import" \in DOMAIN p /\ p.import = q.import
    BY <1>3, <2>2
  <2>4. RequestRight(p)
    BY <1>1, <2>1, <2>2, <2>3, <2>9 DEF RequestRight
  <2>5. p.route # "pages" /\ steady = {}
    BY <2>1, <2>9 DEF SteadyRight
  <2> QED
    BY <2>4, <2>5 DEF WalkRight, SteadyRight
<1>7. CASE ReadList
  <2>1. q.stage = "list" /\ q.route \in {"history", "recent"} /\ (q.import # None => HasEvent(q.import))
    BY <1>7 DEF ReadList, RequestRight
  <2>2. PICK value : /\ p = [f \in DOMAIN q \cup {"answer"} |->
                               IF f = "answer" THEN value ELSE IF f = "stage" THEN "answered" ELSE q[f]]
                     /\ q.route = "history" => value = list_import_history(q.import)
    BY <1>7, <2>1 DEF ReadList, Answer, With
  <2>3. /\ \A x \in list_import_history(q.import) : x.is_active <=> x.import = q.import
        /\ q.import # None => \E x \in list_import_history(q.import) : x.is_active
    <3>1. \A k \in DOMAIN events :
            /\ TranselecImportHistoryRow(k, q.import).import = events[k].import
            /\ TranselecImportHistoryRow(k, q.import).is_active = (events[k].import = q.import)
      BY DEF TranselecImportHistoryRow
    <3>2. ASSUME NEW x \in list_import_history(q.import)
          PROVE  x.is_active <=> x.import = q.import
      <4>1. PICK k \in DOMAIN events : x = TranselecImportHistoryRow(k, q.import)
        BY DEF list_import_history
      <4>2. x.is_active = (x.import = q.import)
        BY <3>1, <4>1
      <4> QED
        BY <4>2
    <3>3. ASSUME q.import # None
          PROVE  \E x \in list_import_history(q.import) : x.is_active
      <4>1. PICK k \in DOMAIN events : events[k].import = q.import
        BY <2>1, <3>3 DEF HasEvent
      <4>2. TranselecImportHistoryRow(k, q.import) \in list_import_history(q.import)
        BY DEF list_import_history
      <4>3. TranselecImportHistoryRow(k, q.import).is_active
        BY <3>1, <4>1
      <4> QED
        BY <4>2, <4>3
    <3> QED
      BY <3>2, <3>3
  <2>9. /\ RequestFields \subseteq DOMAIN p /\ p.stage = "answered" /\ p.answer = value
        /\ p.route = q.route /\ p.filter = q.filter /\ p.listed = q.listed /\ p.cursor = q.cursor
        /\ "import" \in DOMAIN q => "import" \in DOMAIN p /\ p.import = q.import
    BY <1>3, <2>2
  <2>4. RequestRight(p)
    BY <1>1, <2>1, <2>2, <2>3, <2>9 DEF RequestRight
  <2>5. p.route # "pages" /\ steady = {}
    BY <2>1, <2>9 DEF SteadyRight
  <2> QED
    BY <2>4, <2>5 DEF WalkRight, SteadyRight
<1> QED
  BY <1>4, <1>5, <1>6, <1>7

LEMMA CountIsRight ==
    ASSUME NEW q, q = reader, RequestRight(q), WalkRight(q), SteadyRight(q, steady),
           CountRows, NEW p, p = reader'
    PROVE  RequestRight(p) /\ WalkRight(p) /\ SteadyRight(p, steady)
<1>1. RequestFields \subseteq DOMAIN q /\ q.stage = "count" /\ q.route = "pages"
      /\ "import" \in DOMAIN q /\ q.import \in Imports /\ HasEvent(q.import)
  BY DEF RequestRight, CountRows
<1>2. PICK value : p = [f \in DOMAIN q \cup {"total"} |->
                          IF f = "total" THEN value ELSE IF f = "stage" THEN "page" ELSE q[f]]
  BY DEF CountRows, With
<1>3. /\ RequestFields \subseteq DOMAIN p /\ p.stage = "page"
      /\ p.route = q.route /\ p.filter = q.filter /\ p.listed = q.listed /\ p.cursor = q.cursor
      /\ "import" \in DOMAIN p /\ p.import = q.import
  BY <1>1, <1>2 DEF RequestFields
<1>4. RequestRight(p)
  BY <1>1, <1>3 DEF RequestRight, Routes
<1>5. WalkRight(p)
  BY <1>1, <1>3 DEF WalkRight
<1>6. SteadyRight(p, steady)
  BY <1>1, <1>3 DEF SteadyRight, IsListed
<1> QED
  BY <1>4, <1>5, <1>6

(* A page is of the rows behind the cursor: nothing is listed twice, and no row of them that
   comes before one of the page is left out. *)
LEMMA PageIsRight ==
    ASSUME NEW q, q = reader, RequestRight(q), WalkRight(q), SteadyRight(q, steady),
           list_pmf_rows, NEW p, p = reader'
    PROVE  RequestRight(p) /\ WalkRight(p) /\ SteadyRight(p, steady)
<1>1. RequestFields \subseteq DOMAIN q /\ q.stage = "page" /\ q.route = "pages"
      /\ "import" \in DOMAIN q /\ q.import \in Imports /\ HasEvent(q.import)
  BY DEF RequestRight, list_pmf_rows
<1> DEFINE all == RowNumbers(q.import, q.filter)
           rest == {n \in all : q.cursor = None \/ n > q.cursor}
           page == FirstRows(rest)
           next == next_cursor(rest, page)
<1>2. all \in SUBSET Nat /\ IsFiniteSet(all)
  BY <1>1, NumbersOfRows
<1>3. rest \in SUBSET Nat /\ IsFiniteSet(rest) /\ rest \subseteq all
  BY <1>2, FS_Subset
<1>4. /\ page \subseteq rest
      /\ \A n \in page, m \in rest : m < n => m \in page
      /\ page # rest => next \in page /\ \A n \in page : n <= next
  BY <1>3, PageIsFirst
<1>5. p = [q EXCEPT !.listed = Append(q.listed, page), !.cursor = next,
                    !.stage = IF next = None THEN "answered" ELSE "active"]
  BY DEF list_pmf_rows
<1>6. page = rest => next = None
  BY DEF next_cursor
<1>7. \A n \in rest : n \in all /\ n \in Nat /\ (q.cursor = None \/ n > q.cursor)
  BY <1>3
<1>8. \A n \in all : n \in Nat /\ (q.cursor = None \/ n > q.cursor => n \in rest)
  BY <1>2
<1> HIDE DEF all, rest, page, next
<1>9. next # None => next \in page
  BY <1>4, <1>6
<1>10. next = None => page = rest
  <2>1. SUFFICES ASSUME page # rest
                 PROVE  next # None
    OBVIOUS
  <2>2. next \in Nat
    BY <1>4, <1>7, <2>1
  <2> QED
    BY <2>2, ViewsAssumption DEF ViewsAssumption
<1>11. /\ RequestFields \subseteq DOMAIN p /\ p.listed = Append(q.listed, page) /\ p.cursor = next
       /\ p.stage = (IF next = None THEN "answered" ELSE "active")
       /\ p.route = "pages" /\ p.filter = q.filter
  BY <1>1, <1>5 DEF RequestFields
<1>12. (p.stage = "answered" /\ next = None) \/ (p.stage = "active" /\ next # None)
  BY <1>11
<1>13. RequestRight(p)
  BY <1>1, <1>11, <1>12 DEF RequestRight, Routes
<1>14. /\ q.listed \in Seq(SUBSET Nat)
       /\ \A k, l \in DOMAIN q.listed : k < l => \A n \in q.listed[k], m \in q.listed[l] : n < m
       /\ q.cursor # None => q.cursor \in Nat /\ \A k \in DOMAIN q.listed : \A n \in q.listed[k] : n <= q.cursor
       /\ q.cursor = None => q.listed = << >>
  BY <1>1 DEF WalkRight
<1>15. page \in SUBSET Nat
  BY <1>4, <1>7
<1>16. /\ p.listed \in Seq(SUBSET Nat) /\ DOMAIN q.listed = 1 .. Len(q.listed) /\ Len(q.listed) \in Nat
       /\ DOMAIN p.listed = 1 .. (Len(q.listed) + 1)
       /\ \A k \in 1 .. Len(q.listed) : p.listed[k] = q.listed[k]
       /\ p.listed[Len(q.listed) + 1] = page
  BY <1>11, <1>14, <1>15
<1>17. ASSUME NEW k \in DOMAIN q.listed, NEW n \in q.listed[k], NEW m \in page
       PROVE  n < m
  <2>1. q.cursor # None
    BY <1>14, <1>17
  <2>2. m \in Nat /\ m > q.cursor /\ q.cursor \in Nat /\ n <= q.cursor
    BY <1>4, <1>7, <1>14, <1>17, <2>1
  <2>3. n \in Nat
    BY <1>14, <1>17
  <2> QED
    BY <2>2, <2>3
<1>18. ASSUME NEW k \in DOMAIN p.listed, NEW l \in DOMAIN p.listed, k < l,
              NEW n \in p.listed[k], NEW m \in p.listed[l]
       PROVE  n < m
  <2>1. k \in DOMAIN q.listed /\ n \in q.listed[k]
    BY <1>16, <1>18
  <2>2. CASE l \in DOMAIN q.listed
    <3>1. m \in q.listed[l]
      BY <1>16, <1>18, <2>2
    <3> QED
      BY <1>14, <1>18, <2>1, <2>2, <3>1
  <2>3. CASE l = Len(q.listed) + 1
    BY <1>16, <1>17, <1>18, <2>1, <2>3
  <2> QED
    BY <1>16, <2>2, <2>3
<1>19. ASSUME next # None, NEW k \in DOMAIN p.listed, NEW n \in p.listed[k]
       PROVE  n <= next
  <2>1. next \in page /\ next \in Nat
    BY <1>9, <1>15, <1>19
  <2>2. CASE k \in DOMAIN q.listed
    <3>1. n \in q.listed[k]
      BY <1>16, <1>19, <2>2
    <3>2. n \in Nat
      BY <1>14, <2>2, <3>1
    <3>3. n < next
      BY <1>17, <2>1, <2>2, <3>1
    <3> QED
      BY <2>1, <3>2, <3>3
  <2>3. CASE k = Len(q.listed) + 1
    BY <1>4, <1>6, <1>16, <1>19, <2>3
  <2> QED
    BY <1>16, <2>2, <2>3
<1>20. WalkRight(p)
  <2>1. next # None => next \in Nat
    BY <1>9, <1>15
  <2>2. next = None => p.stage = "answered"
    BY <1>12
  <2> QED
    BY <1>11, <1>16, <1>18, <1>19, <2>1, <2>2 DEF WalkRight
<1>21. /\ \A n : IsListed(q, n) => IsListed(p, n)
       /\ \A n \in page : IsListed(p, n)
  <2>1. \A n : IsListed(q, n) => IsListed(p, n)
    BY <1>16 DEF IsListed
  <2>2. Len(q.listed) + 1 \in DOMAIN p.listed
    BY <1>16
  <2> QED
    BY <1>16, <2>1, <2>2 DEF IsListed
<1>22. ASSUME NEW n \in steady, next = None \/ n <= next
       PROVE  IsListed(p, n)
  <2>1. n \in all /\ n \in Nat
    BY <1>1, <1>8 DEF SteadyRight, all
  <2>2. CASE q.cursor # None /\ n <= q.cursor
    BY <1>21, <2>2 DEF SteadyRight
  <2>3. CASE ~(q.cursor # None /\ n <= q.cursor)
    <3>1. n \in rest
      <4>1. q.cursor # None => q.cursor \in Nat
        BY <1>14
      <4> QED
        BY <1>8, <2>1, <2>3, <4>1
    <3>2. n \in page
      <4>1. CASE next = None
        BY <1>10, <3>1, <4>1
      <4>2. CASE next # None /\ n < next
        BY <1>4, <1>9, <3>1, <4>2
      <4>3. CASE next # None /\ n = next
        BY <1>9, <4>3
      <4>4. next # None => next \in Nat
        BY <1>9, <1>15
      <4> QED
        BY <1>22, <2>1, <4>1, <4>2, <4>3, <4>4
    <3> QED
      BY <1>21, <3>2
  <2> QED
    BY <2>2, <2>3
<1>23. SteadyRight(p, steady)
  <2>1. steady # {} => active \in Imports /\ steady \subseteq RowNumbers(active, p.filter)
    BY <1>11 DEF SteadyRight
  <2>2. p.stage \notin {"count", "page"}
    BY <1>12
  <2>3. p.stage = "answered" => next = None
    BY <1>12
  <2> QED
    BY <1>11, <1>22, <2>1, <2>2, <2>3 DEF SteadyRight
<1> QED
  BY <1>13, <1>20, <1>23

(* What one request has read stays right while the trail only grows. *)
LEMMA RequestKept ==
    ASSUME NEW p, RequestRight(p),
           \A k \in DOMAIN events : k \in DOMAIN events' /\ events'[k] = events[k]
    PROVE  RequestRight(p)'
<1>1. \A i : HasEvent(i) => HasEvent(i)'
  BY DEF HasEvent
<1> QED
  BY <1>1 DEF RequestRight

LEMMA SteadyKept ==
    ASSUME NEW p, NEW rows, SteadyRight(p, rows), active' = active, overrides' = overrides
    PROVE  SteadyRight(p, rows)'
<1>1. RowNumbers(active, p.filter)' = RowNumbers(active, p.filter)
  BY DEF RowNumbers, _fetch_filtered_rows, EffectiveRows, transelec_effective_row, web_fields, _build_filter_where
<1> QED
  BY <1>1 DEF SteadyRight, IsListed

LEMMA ReadersInitially == ViewsInit => ReadersInv
BY DEF ViewsInit, ReadersInv

LEMMA ReadStep ==
    ASSUME ReadersInv, Read
    PROVE  ReadersInv'
<1> PICK p, rows : p = reader' /\ rows = steady'
  OBVIOUS
<1>1. UNCHANGED <<active, events, overrides>>
  BY DEF Read, _require_active_import_id, ReadRows, ReadPmfRows, ReadEvent, ReadList, CountRows,
         list_pmf_rows, Answered
<1>2. (active \in Imports \cup {None} /\ events \in Seq(PublishEvent) /\ (active # None => HasEvent(active)))'
  BY <1>1 DEF ReadersInv, HasEvent
<1>3. CASE Answered
  BY <1>2, <1>3 DEF Answered, ReadersInv
<1>4. CASE ~Answered
  <2>1. reader # NoReader
    BY <1>4 DEF Read, _require_active_import_id, ReadRows, ReadPmfRows, ReadEvent, ReadList, CountRows,
           list_pmf_rows, Answered, NoReader
  <2>2. RequestRight(reader) /\ WalkRight(reader) /\ SteadyRight(reader, steady)
    BY <2>1 DEF ReadersInv
  <2>3. RequestRight(p) /\ WalkRight(p) /\ SteadyRight(p, rows)
    <3>1. CASE _require_active_import_id
      BY <2>2, <3>1, ActiveIsRight
    <3>2. CASE ReadRows \/ ReadPmfRows \/ ReadEvent \/ ReadList
      <4>1. rows = steady
        BY <3>2 DEF ReadRows, ReadPmfRows, ReadEvent, ReadList
      <4> QED
        BY <2>2, <3>2, <4>1, ReadIsRight
    <3>3. CASE CountRows
      <4>1. rows = steady
        BY <3>3 DEF CountRows
      <4> QED
        BY <2>2, <3>3, <4>1, CountIsRight
    <3>4. CASE list_pmf_rows
      <4>1. rows = steady
        BY <3>4 DEF list_pmf_rows
      <4> QED
        BY <2>2, <3>4, <4>1, PageIsRight
    <3> QED
      BY <1>4, <3>1, <3>2, <3>3, <3>4 DEF Read
  <2>4. RequestRight(p)' /\ SteadyRight(p, rows)'
    BY <1>1, <2>3, RequestKept, SteadyKept
  <2>5. (RequestRight(reader) /\ WalkRight(reader) /\ SteadyRight(reader, steady))'
    BY <2>3, <2>4 DEF RequestRight, WalkRight, SteadyRight, IsListed
  <2> QED
    BY <1>2, <2>5 DEF ReadersInv
<1> QED
  BY <1>3, <1>4

LEMMA SteadyTaken ==
    ASSUME NEW p, p = reader, SteadyRight(p, steady), UNCHANGED <<active, reader>>,
           NEW rows, rows = steady \cap Matching'
    PROVE  SteadyRight(p, rows)'
<1>1. rows \subseteq steady
  OBVIOUS
<1>2. rows # {} => rows \subseteq RowNumbers(active, p.filter)'
  <2>1. Matching' # {} => Matching' = RowNumbers(active, reader.filter)'
    BY DEF Matching
  <2>2. RowNumbers(active, reader.filter)' = RowNumbers(active, p.filter)'
    OBVIOUS
  <2> QED
    BY <2>1, <2>2
<1>3. rows # {} => /\ p.route = "pages" /\ active' \in Imports
                   /\ p.stage \in {"count", "page"} => p.import = active'
  BY <1>1 DEF SteadyRight
<1>4. /\ p.cursor # None => \A n \in rows : n <= p.cursor => IsListed(p, n)
      /\ p.stage = "answered" => \A n \in rows : IsListed(p, n)
  BY <1>1 DEF SteadyRight
<1> QED
  BY <1>2, <1>3, <1>4 DEF SteadyRight, IsListed

(* A change of the edits may take rows from those that have matched all along, never add one. *)
LEMMA EditStep ==
    ASSUME ReadersInv, UNCHANGED <<active, events, reader>>, steady' = steady \cap Matching'
    PROVE  ReadersInv'
<1>1. UNCHANGED <<active, events, reader>> /\ steady' = steady \cap Matching'
  OBVIOUS
<1>2. (active \in Imports \cup {None} /\ events \in Seq(PublishEvent) /\ (active # None => HasEvent(active)))'
  BY <1>1 DEF ReadersInv, HasEvent
<1>3. CASE reader = NoReader /\ steady = {}
  BY <1>1, <1>2, <1>3 DEF ReadersInv
<1>4. CASE RequestRight(reader) /\ WalkRight(reader) /\ SteadyRight(reader, steady)
  <2> PICK p, rows : p = reader /\ rows = steady'
    OBVIOUS
  <2>1. RequestRight(p)'
    BY <1>1, <1>4, RequestKept
  <2>4. SteadyRight(p, rows)'
    BY <1>1, <1>4, SteadyTaken
  <2>5. (RequestRight(reader) /\ WalkRight(reader) /\ SteadyRight(reader, steady))'
    BY <1>1, <1>4, <2>1, <2>4 DEF RequestRight, WalkRight, SteadyRight, IsListed
  <2> QED
    BY <1>2, <2>5 DEF ReadersInv
<1> QED
  BY <1>3, <1>4 DEF ReadersInv

(* The pointer moves together with its event. *)
LEMMA ActivateStep ==
    ASSUME ReadersInv, NEW i \in Imports, NEW at \in Nat, activate_import(i, at)
    PROVE  ReadersInv'
<1>1. /\ active' = i /\ events' = Append(events, [import |-> i, occurred_at |-> at]) /\ UNCHANGED reader
      /\ steady' = IF i = active THEN steady \cap Matching' ELSE {}
  BY DEF activate_import
<1>2. /\ events' \in Seq(PublishEvent) /\ HasEvent(i)'
      /\ \A k \in DOMAIN events : k \in DOMAIN events' /\ events'[k] = events[k]
  BY <1>1, EventsGrow DEF ReadersInv
<1>3. (active \in Imports \cup {None} /\ events \in Seq(PublishEvent) /\ (active # None => HasEvent(active)))'
  BY <1>1, <1>2 DEF HasEvent
<1>4. CASE reader = NoReader /\ steady = {}
  BY <1>1, <1>3, <1>4 DEF ReadersInv
<1>5. CASE RequestRight(reader) /\ WalkRight(reader) /\ SteadyRight(reader, steady)
  <2> PICK p, rows : p = reader /\ rows = steady'
    OBVIOUS
  <2>1. RequestRight(p)'
    BY <1>2, <1>5, RequestKept
  <2>2. SteadyRight(p, rows)'
    <3>1. CASE i = active
      BY <1>1, <1>5, <3>1, SteadyTaken
    <3>2. CASE i # active
      BY <1>1, <3>2 DEF SteadyRight
    <3> QED
      BY <3>1, <3>2
  <2>3. (RequestRight(reader) /\ WalkRight(reader) /\ SteadyRight(reader, steady))'
    BY <1>1, <1>5, <2>1, <2>2 DEF RequestRight, WalkRight, SteadyRight, IsListed
  <2> QED
    BY <1>3, <2>3 DEF ReadersInv
<1> QED
  BY <1>4, <1>5 DEF ReadersInv

LEMMA ReadersStep == ReadersInv /\ [ViewsNext]_viewVars => ReadersInv'
<1> SUFFICES ASSUME ReadersInv, [ViewsNext]_viewVars
             PROVE  ReadersInv'
  OBVIOUS
<1>1. ASSUME NEW route \in Routes, NEW filter \in Filters, Ask(route, filter)
      PROVE  ReadersInv'
  <2> PICK p : p = reader'
    OBVIOUS
  <2>1. UNCHANGED <<active, events, overrides>> /\ steady' = {}
    BY <1>1 DEF Ask
  <2>2. RequestRight(p) /\ WalkRight(p) /\ SteadyRight(p, {})
    BY <1>1, AskIsRight
  <2>3. RequestRight(p)' /\ SteadyRight(p, {})'
    BY <2>1, <2>2, RequestKept, SteadyKept
  <2>4. (RequestRight(reader) /\ WalkRight(reader) /\ SteadyRight(reader, steady))'
    BY <2>1, <2>2, <2>3 DEF RequestRight, WalkRight, SteadyRight, IsListed
  <2> QED
    BY <2>1, <2>4 DEF ReadersInv, HasEvent
<1>2. CASE NextDay \/ UNCHANGED viewVars
  <2>1. UNCHANGED <<active, events, overrides, reader, steady>>
    BY <1>2 DEF NextDay, viewVars
  <2>2. CASE reader = NoReader /\ steady = {}
    BY <2>1, <2>2 DEF ReadersInv, HasEvent
  <2>3. CASE RequestRight(reader) /\ WalkRight(reader) /\ SteadyRight(reader, steady)
    <3> PICK p, rows : p = reader /\ rows = steady
      OBVIOUS
    <3>1. RequestRight(p)' /\ SteadyRight(p, rows)'
      BY <2>1, <2>3, RequestKept, SteadyKept
    <3>2. (RequestRight(reader) /\ WalkRight(reader) /\ SteadyRight(reader, steady))'
      BY <2>1, <2>3, <3>1 DEF RequestRight, WalkRight, SteadyRight, IsListed
    <3> QED
      BY <2>1, <3>2 DEF ReadersInv, HasEvent
  <2> QED
    BY <2>2, <2>3 DEF ReadersInv
<1>3. CASE (\E e \in Edits : EditCell(e)) \/ (\E c \in DOMAIN overrides : discard_override(c))
  <2>1. UNCHANGED <<active, events, reader>> /\ steady' = steady \cap Matching'
    BY <1>3 DEF EditCell, discard_override
  <2> QED
    BY <2>1, EditStep
<1>4. PublishTimes \subseteq Nat
  <2>1. Len(events) \in Nat
    BY DEF ReadersInv
  <2> QED
    BY <2>1 DEF PublishTimes
<1>5. ASSUME NEW i \in Imports, NEW at \in PublishTimes, activate_import(i, at)
      PROVE  ReadersInv'
  BY <1>4, <1>5, ActivateStep
<1> QED
  BY <1>1, <1>2, <1>3, <1>5, ReadStep DEF ViewsNext

LEMMA ReadersToldRight == ReadersInv => ReadersAnswered
<1> SUFFICES ASSUME ReadersInv
             PROVE  ReadersAnswered
  OBVIOUS
<1>1. CASE reader = NoReader
  BY <1>1 DEF ReadersAnswered, PagesComplete, ReportDated, NeverFails, HistoryShowsActive, NoReader
<1>2. CASE RequestRight(reader) /\ WalkRight(reader) /\ SteadyRight(reader, steady)
  <2>1. PagesComplete
    <3>1. ASSUME reader.route = "pages", reader.stage = "answered", NEW n \in steady
          PROVE  n \in UNION Range(reader.listed)
      <4>1. PICK k \in DOMAIN reader.listed : n \in reader.listed[k]
        BY <1>2, <3>1 DEF SteadyRight, IsListed
      <4> QED
        BY <4>1 DEF Range
    <3> QED
      BY <1>2, <3>1 DEF PagesComplete, WalkRight
  <2>2. ReportDated /\ NeverFails /\ HistoryShowsActive
    BY <1>2 DEF ReportDated, NeverFails, HistoryShowsActive, RequestRight
  <2> QED
    BY <2>1, <2>2 DEF ReadersAnswered
<1> QED
  BY <1>1, <1>2 DEF ReadersInv

(* A reader overtaken by edits and publications is answered for one version: a walk through
   the pages lists every row that matched all along and none twice, a report is dated by an
   event of the version it counts, no read of the active version fails for want of its event,
   and the history marks the active version. *)
THEOREM ReadersRight == ViewsSpec => []ReadersAnswered
<1>1. ViewsInit => ReadersInv
  BY ReadersInitially
<1>2. ReadersInv /\ [ViewsNext]_viewVars => ReadersInv'
  BY ReadersStep
<1>3. ReadersInv => ReadersAnswered
  BY ReadersToldRight
<1> QED
  BY <1>1, <1>2, <1>3, PTL DEF ViewsSpec

-----------------------------------------------------------------------------
(* Business days. *)

Step(w, day, count) ==
    [found \in 0..count |->
        IF found = count THEN day
        ELSE IF day = LastDay THEN None
        ELSE w[day + 1][IF is_business_day(day + 1) THEN found + 1 ELSE found]]

Walk(count) ==
    LET walk[day \in Days] ==
            [found \in 0..count |->
                IF found = count THEN day
                ELSE IF day = LastDay THEN None
                ELSE walk[day + 1][IF is_business_day(day + 1) THEN found + 1 ELSE found]] IN
    walk

LEMMA StepLooksAhead ==
    ASSUME NEW count, NEW day, NEW v, NEW w, day # LastDay => v[day + 1] = w[day + 1]
    PROVE  Step(v, day, count) = Step(w, day, count)
BY DEF Step

(* From the last day backwards, there is a walk from every day. *)
LEMMA WalkExists ==
    ASSUME NEW count \in Nat
    PROVE  \E w : w = [day \in Days |-> Step(w, day, count)]
<1> DEFINE Back(m) == \E w : \A day \in Days : day >= LastDay - m => w[day] = Step(w, day, count)
           Bad == {m \in Nat : m <= LastDay /\ ~Back(m)}
<1>1. LastDay \in Nat /\ Days = 0..LastDay
  BY PlazoAssumption DEF PlazoAssumption, Days
<1>2. Back(0)
  <2> DEFINE w == [day \in Days |-> [found \in 0..count |-> IF found = count THEN day ELSE None]]
  <2>1. w[LastDay] = Step(w, LastDay, count)
    BY <1>1 DEF Step
  <2>2. \A day \in Days : day >= LastDay - 0 => day = LastDay
    BY <1>1
  <2> HIDE DEF w
  <2> QED
    BY <2>1, <2>2
<1>3. ASSUME NEW m \in Nat, m # 0, m <= LastDay, Back(m - 1)
      PROVE  Back(m)
  <2>1. PICK w : \A day \in Days : day >= LastDay - (m - 1) => w[day] = Step(w, day, count)
    BY <1>3
  <2> DEFINE v == [day \in Days |-> IF day = LastDay - m THEN Step(w, day, count) ELSE w[day]]
  <2>2. ASSUME NEW day \in Days, day >= LastDay - m
        PROVE  v[day] = Step(v, day, count)
    <3>1. v[day] = Step(w, day, count)
      <4>1. day = LastDay - m \/ day >= LastDay - (m - 1)
        BY <1>1, <2>2
      <4> QED
        BY <2>1, <4>1
    <3>2. day # LastDay => v[day + 1] = w[day + 1]
      BY <1>1, <2>2
    <3> HIDE DEF v
    <3> QED
      BY <3>1, <3>2, StepLooksAhead
  <2> HIDE DEF v
  <2> QED
    BY <2>2
<1>4. Bad = {}
  <2>1. SUFFICES ASSUME Bad # {}
                 PROVE  FALSE
    OBVIOUS
  <2>2. Bad \in SUBSET Nat
    OBVIOUS
  <2>3. PICK m \in Bad : \A n \in Bad : m <= n
    <3> HIDE DEF Bad
    <3> QED
      BY <2>1, <2>2, LeastNatural
  <2> HIDE DEF Back
  <2>4. m \in Nat /\ m <= LastDay /\ ~Back(m) /\ m # 0
    BY <1>2, <2>3
  <2>5. m - 1 \in Nat /\ m - 1 <= LastDay /\ m - 1 \notin Bad
    BY <1>1, <2>3, <2>4
  <2> QED
    BY <1>3, <2>4, <2>5
<1>5. Back(LastDay)
  <2> HIDE DEF Back
  <2> QED
    BY <1>1, <1>4
<1>6. PICK w : \A day \in Days : w[day] = Step(w, day, count)
  BY <1>1, <1>5
<1> DEFINE W == [day \in Days |-> w[day]]
<1>7. ASSUME NEW day \in Days
      PROVE  W[day] = Step(W, day, count)
  <2>1. day # LastDay => W[day + 1] = w[day + 1]
    BY <1>1
  <2>2. W[day] = Step(w, day, count)
    BY <1>6
  <2> HIDE DEF W
  <2> QED
    BY <2>1, <2>2, StepLooksAhead
<1>8. W = [day \in Days |-> W[day]]
  OBVIOUS
<1> HIDE DEF W
<1>9. W = [day \in Days |-> Step(W, day, count)]
  BY <1>7, <1>8
<1> QED
  BY <1>9

LEMMA WalkUnfolds ==
    ASSUME NEW count \in Nat, NEW day \in Days, NEW found \in 0..count
    PROVE  Walk(count)[day][found] =
             IF found = count THEN day
             ELSE IF day = LastDay THEN None
             ELSE Walk(count)[day + 1][IF is_business_day(day + 1) THEN found + 1 ELSE found]
<1> DEFINE F(w) == [d \in Days |-> Step(w, d, count)]
<1>1. Walk(count) = CHOOSE w : w = F(w)
  BY Zenon DEF Walk, Step
<1>2. \E w : w = F(w)
  BY WalkExists
<1> HIDE DEF F
<1>3. Walk(count) = F(Walk(count))
  BY <1>1, <1>2
<1>4. Walk(count)[day] = Step(Walk(count), day, count)
  BY <1>3 DEF F
<1> QED
  BY <1>4 DEF Step

LEMMA DaysGrow ==
    ASSUME NEW a \in Nat, NEW b \in Nat, NEW c \in Nat, b <= c
    PROVE  /\ business_days_between(a, b) \in Nat /\ business_days_between(a, c) \in Nat
           /\ business_days_between(a, b) <= business_days_between(a, c)
<1> DEFINE Of(d) == {day \in (a + 1)..d : is_business_day(day)}
<1>1. \A d \in Nat : IsFiniteSet(Of(d)) /\ Cardinality(Of(d)) \in Nat
  <2>1. \A d \in Nat : IsFiniteSet((a + 1)..d)
    BY FS_Interval
  <2> QED
    BY <2>1, FS_Subset, FS_CardinalityType
<1>2. Of(b) \in SUBSET Of(c)
  <2>1. ASSUME NEW day \in Of(b)
        PROVE  day \in Of(c)
    BY DEF is_business_day
  <2> QED
    BY <2>1
<1>3. \A d \in Nat : business_days_between(a, d) = Cardinality(Of(d))
  BY DEF business_days_between
<1> HIDE DEF Of
<1>4. Cardinality(Of(b)) <= Cardinality(Of(c))
  BY <1>1, <1>2, FS_Subset
<1> QED
  BY <1>1, <1>3, <1>4

LEMMA OneDayMore ==
    ASSUME NEW a \in Nat, NEW d \in Nat, a + 1 <= d
    PROVE  business_days_between(a, d) =
             business_days_between(a + 1, d) + (IF is_business_day(a + 1) THEN 1 ELSE 0)
<1> DEFINE Later == {day \in (a + 1 + 1)..d : is_business_day(day)}
           All == {day \in (a + 1)..d : is_business_day(day)}
<1>1. IsFiniteSet(Later) /\ Cardinality(Later) \in Nat
  <2>1. IsFiniteSet((a + 1 + 1)..d)
    BY FS_Interval
  <2> QED
    BY <2>1, FS_Subset, FS_CardinalityType
<1>2. \A day \in (a + 1)..d : day = a + 1 \/ day \in (a + 1 + 1)..d
  OBVIOUS
<1>3. a + 1 \in (a + 1)..d /\ (a + 1 + 1)..d \subseteq (a + 1)..d /\ a + 1 \notin (a + 1 + 1)..d
  OBVIOUS
<1>4. /\ is_business_day(a + 1) => All = Later \cup {a + 1}
      /\ ~is_business_day(a + 1) => All = Later
  <2> HIDE DEF is_business_day
  <2> QED
    BY <1>2, <1>3
<1>5. a + 1 \notin Later
  BY <1>3
<1>6. business_days_between(a, d) = Cardinality(All) /\ business_days_between(a + 1, d) = Cardinality(Later)
  BY DEF business_days_between
<1> HIDE DEF Later, All
<1>7. is_business_day(a + 1) => Cardinality(All) = Cardinality(Later) + 1
  BY <1>1, <1>4, <1>5, FS_AddElement
<1> QED
  BY <1>1, <1>4, <1>6, <1>7

(* Where the walk ends, the business days passed are those that were missing. *)
LEMMA WalkCounts ==
    ASSUME NEW count \in Nat, NEW start \in Days, NEW done \in 0..count
    PROVE  \/ Walk(count)[start][done] = None
           \/ /\ Walk(count)[start][done] \in Days /\ start <= Walk(count)[start][done]
              /\ done + business_days_between(start, Walk(count)[start][done]) = count
<1> DEFINE Good(day, found) ==
             \/ Walk(count)[day][found] = None
             \/ /\ Walk(count)[day][found] \in Days /\ day <= Walk(count)[day][found]
                /\ found + business_days_between(day, Walk(count)[day][found]) = count
           Bad == {m \in Nat : m <= LastDay /\ \E found \in 0..count : ~Good(LastDay - m, found)}
<1>1. LastDay \in Nat /\ Days = 0..LastDay
  BY PlazoAssumption DEF PlazoAssumption, Days
<1>2. ASSUME NEW day \in Days, NEW found \in 0..count,
             day # LastDay => \A f \in 0..count : Good(day + 1, f)
      PROVE  Good(day, found)
  <2>1. CASE found = count
    <3>1. Walk(count)[day][found] = day
      BY <2>1, WalkUnfolds
    <3>2. business_days_between(day, day) = 0
      <4>1. {k \in (day + 1)..day : is_business_day(k)} = {}
        BY <1>1
      <4> QED
        BY <4>1, FS_EmptySet DEF business_days_between
    <3>3. day <= day
      BY <1>1
    <3> QED
      BY <2>1, <3>1, <3>2, <3>3
  <2>2. CASE found # count /\ day = LastDay
    BY <2>2, WalkUnfolds
  <2>3. CASE found # count /\ day # LastDay
    <3> DEFINE next == IF is_business_day(day + 1) THEN found + 1 ELSE found
               e == Walk(count)[day + 1][next]
    <3>1. Walk(count)[day][found] = e
      BY <2>3, WalkUnfolds
    <3>2. next \in 0..count
      BY <2>3
    <3>3. \/ e = None
          \/ e \in Days /\ day + 1 <= e /\ next + business_days_between(day + 1, e) = count
      BY <1>2, <2>3, <3>2
    <3>4. ASSUME e # None
          PROVE  e \in Days /\ day <= e /\ found + business_days_between(day, e) = count
      <4>1. e \in Days /\ day + 1 <= e /\ next + business_days_between(day + 1, e) = count
        BY <3>3, <3>4
      <4> HIDE DEF e
      <4>2. day \in Nat /\ e \in Nat /\ day <= e
        BY <1>1, <4>1
      <4>3. business_days_between(day, e) =
              business_days_between(day + 1, e) + (IF is_business_day(day + 1) THEN 1 ELSE 0)
        BY <4>1, <4>2, OneDayMore
      <4>4. business_days_between(day + 1, e) \in Nat
        BY <4>2, DaysGrow
      <4>5. found + business_days_between(day, e) = count
        BY <4>1, <4>3, <4>4
      <4> QED
        BY <4>1, <4>2, <4>5
    <3> HIDE DEF e, next
    <3> QED
      BY <3>1, <3>4
  <2> QED
    BY <2>1, <2>2, <2>3
<1>3. Bad = {}
  <2>1. SUFFICES ASSUME Bad # {}
                 PROVE  FALSE
    OBVIOUS
  <2>2. Bad \in SUBSET Nat
    OBVIOUS
  <2>3. PICK m \in Bad : \A n \in Bad : m <= n
    <3> HIDE DEF Bad
    <3> QED
      BY <2>1, <2>2, LeastNatural
  <2> HIDE DEF Good
  <2>4. m \in Nat /\ m <= LastDay
    BY <2>3
  <2>5. PICK found \in 0..count : ~Good(LastDay - m, found)
    BY <2>3
  <2>6. LastDay - m \in Days
    BY <1>1, <2>4
  <2>7. LastDay - m # LastDay => \A f \in 0..count : Good(LastDay - m + 1, f)
    <3>1. SUFFICES ASSUME m # 0
                   PROVE  \A f \in 0..count : Good(LastDay - m + 1, f)
      BY <1>1, <2>4
    <3>2. m - 1 \in Nat /\ m - 1 <= LastDay /\ m - 1 \notin Bad
      BY <1>1, <2>3, <2>4, <3>1
    <3>3. LastDay - (m - 1) = LastDay - m + 1
      BY <1>1, <2>4
    <3> QED
      BY <3>2, <3>3
  <2> QED
    BY <1>2, <2>5, <2>6, <2>7
<1>4. LastDay - start \in Nat /\ LastDay - start <= LastDay /\ LastDay - (LastDay - start) = start
  BY <1>1
<1>5. Good(start, done)
  <2> HIDE DEF Good
  <2> QED
    BY <1>3, <1>4
<1> QED
  BY <1>5

(* A deadline is a day by which exactly the business days of the term have passed. *)
LEMMA DeadlineCounts ==
    ASSUME NEW start \in Days, add_business_days(start, PLAZO_HABILES) # None
    PROVE  /\ add_business_days(start, PLAZO_HABILES) \in Days
           /\ business_days_between(start, add_business_days(start, PLAZO_HABILES)) = PLAZO_HABILES
<1> DEFINE d == add_business_days(start, PLAZO_HABILES)
<1>1. PLAZO_HABILES \in Nat /\ LastDay \in Nat
  BY PlazoAssumption DEF PlazoAssumption
<1>2. d = Walk(PLAZO_HABILES)[start][0]
  BY Zenon DEF add_business_days, Walk
<1>3. 0 \in 0..PLAZO_HABILES
  BY <1>1
<1>4. d \in Days /\ 0 + business_days_between(start, d) = PLAZO_HABILES
  BY <1>1, <1>2, <1>3, WalkCounts
<1>5. start \in Nat /\ d \in Nat
  BY <1>1, <1>4 DEF Days
<1>6. business_days_between(start, d) \in Nat
  BY <1>5, DaysGrow
<1> QED
  BY <1>4, <1>6

-----------------------------------------------------------------------------
(* Terms. *)

NoneIsNoState == None \notin Nat /\ None \notin PLAZO_ESTADO_ORDER

(* A field that is resolved has the value of the rows that fill it. *)
LEMMA ResolvedValue ==
    ASSUME NEW entries, NEW found, found = resolve_pmf_field(entries)
    PROVE  /\ found.status = "blank" <=> \A e \in entries : e[2] = None
           /\ found.value # None => \E e \in entries : e[2] = found.value
           /\ found.value # None /\ IsFiniteSet(entries) =>
                \A e \in entries : e[2] # None => e[2] = found.value
<1> DEFINE given == {e \in entries : e[2] # None}
           rowsof(v) == {e[1] : e \in {x \in given : x[2] = v}}
           values == {e[2] : e \in given}
           variants == {[value |-> v, source_rows |-> rowsof(v)] : v \in values}
           one == CHOOSE x \in variants : TRUE
<1>1. /\ found.status = IF variants = {} THEN "blank" ELSE IF Cardinality(variants) = 1 THEN "value" ELSE "conflict"
      /\ found.value = IF Cardinality(variants) = 1 THEN one.value ELSE None
  BY DEF resolve_pmf_field
<1>2. values = {} <=> \A e \in entries : e[2] = None
  OBVIOUS
<1>3. \A x \in variants : x.value \in values
  OBVIOUS
<1>4. \A v \in values : [value |-> v, source_rows |-> rowsof(v)] \in variants
  OBVIOUS
<1>5. variants = {} <=> values = {}
  BY <1>3, <1>4
<1>6. \A v \in values : \E e \in entries : e[2] = v
  OBVIOUS
<1>7. \A e \in entries : e[2] # None => e[2] \in values
  OBVIOUS
<1>8. IsFiniteSet(entries) => IsFiniteSet(variants)
  <2>1. SUFFICES ASSUME IsFiniteSet(entries)
                 PROVE  IsFiniteSet(variants)
    OBVIOUS
  <2>2. IsFiniteSet(given)
    BY <2>1, FS_Subset
  <2> DEFINE variant == [e \in given |-> [value |-> e[2], source_rows |-> rowsof(e[2])]]
  <2>3. variant \in Surjection(given, variants)
    BY DEF Surjection
  <2> HIDE DEF given, variant, variants
  <2> QED
    BY <2>2, <2>3, FS_Surjection
<1> HIDE DEF variants, values
<1>9. ASSUME Cardinality(variants) = 1
      PROVE  one \in variants
  <2>1. variants # {}
    BY <1>9, FS_EmptySet
  <2> QED
    BY <2>1
<1>10. ASSUME Cardinality(variants) = 1, IsFiniteSet(variants), NEW v \in values
       PROVE  v = one.value
  <2>1. PICK x : variants = {x}
    BY <1>10, FS_Singleton
  <2>2. PICK rest : [value |-> v, source_rows |-> rest] = x
    BY <1>4, <1>10, <2>1
  <2>3. one = x
    BY <1>9, <1>10, <2>1
  <2>4. x.value = v
    BY <2>2
  <2> QED
    BY <2>3, <2>4
<1>11. found.status = "blank" <=> \A e \in entries : e[2] = None
  BY <1>1, <1>5, <1>2
<1>12. ASSUME found.value # None
       PROVE  Cardinality(variants) = 1 /\ found.value = one.value
  BY <1>1, <1>12
<1>13. found.value # None => \E e \in entries : e[2] = found.value
  BY <1>3, <1>6, <1>9, <1>12
<1>14. found.value # None /\ IsFiniteSet(entries) => \A e \in entries : e[2] # None => e[2] = found.value
  BY <1>7, <1>8, <1>10, <1>12
<1> QED
  BY <1>11, <1>13, <1>14

(* A date that is read from the rows is one of a row. *)
LEMMA ResolvedDate ==
    ASSUME NoneIsNoState, NEW name, NEW rows, \A r \in rows : r[name] \in DateCell,
           NEW found, found = _resolve(rows, name)
    PROVE  IsDate(found.value) => found.value.date \in Days
<1> SUFFICES ASSUME IsDate(found.value)
             PROVE  found.value.date \in Days
  OBVIOUS
<1> DEFINE entries == {<<r.n, date_value(r, name)>> : r \in rows}
<1>1. found = resolve_pmf_field(entries)
  BY DEF _resolve
<1>2. found.value # None /\ "date" \in DOMAIN found.value
  BY DEF IsDate
<1>3. \A e \in entries : \E r \in rows : e[2] = date_value(r, name)
  OBVIOUS
<1> HIDE DEF entries
<1>4. PICK e \in entries : e[2] = found.value
  BY <1>1, <1>2, ResolvedValue
<1>5. PICK r \in rows : found.value = date_value(r, name)
  BY <1>3, <1>4
<1>6. PICK cell \in DateCell : found.value = value_or_unread_text(cell)
  BY <1>5 DEF date_value
<1>7. cell.date \in Days \cup {None}
  BY DEF DateCell
<1>8. found.value = [date |-> cell.date] /\ cell.date # None
  <2>1. DOMAIN [text |-> cell.raw] = {"text"}
    OBVIOUS
  <2>2. found.value # [text |-> cell.raw]
    BY <1>2, <2>1
  <2> QED
    BY <1>2, <1>6, <2>2 DEF value_or_unread_text
<1>9. found.value.date = cell.date
  BY <1>8
<1> QED
  BY <1>7, <1>8, <1>9

LEMMA BaseIsADay ==
    ASSUME NoneIsNoState, NEW facts,
           \A r \in facts : r["fecha_ingreso"] \in DateCell /\ r["fecha_ingreso_2"] \in DateCell,
           NEW base, base = _base(facts)
    PROVE  /\ base.date \in Days \cup {None}
           /\ base.blocked = None => base.date \in Days
           /\ base.blocked # None => base.blocked \in PLAZO_ESTADO_ORDER
<1>1. PICK name, found : /\ base = base_of(name, found) /\ found = _resolve(facts, name)
                         /\ name \in {"fecha_ingreso", "fecha_ingreso_2"}
  BY DEF _base
<1>2. IsDate(found.value) => found.value.date \in Days
  BY <1>1, ResolvedDate
<1>3. "sin_fecha" # None /\ "conflicto" # None /\ "sin_fecha_texto" # None
  BY DEF NoneIsNoState, PLAZO_ESTADO_ORDER
<1>4. CASE found.status = "blank"
  <2>1. base.blocked = "sin_fecha" /\ base.date = None
    BY <1>1, <1>4 DEF base_of
  <2> QED
    BY <1>3, <2>1 DEF PLAZO_ESTADO_ORDER
<1>5. CASE found.status # "blank"
  <2>1. /\ base.blocked = IF found.status = "conflict" THEN "conflicto"
                          ELSE IF IsDate(found.value) THEN None ELSE "sin_fecha_texto"
        /\ base.date = IF IsDate(found.value) THEN found.value.date ELSE None
    BY <1>1, <1>5 DEF base_of
  <2> QED
    BY <1>2, <1>3, <2>1 DEF PLAZO_ESTADO_ORDER
<1> QED
  BY <1>4, <1>5

LEMMA PlazoFields ==
    ASSUME NoneIsNoState, NEW pmf, NEW rows, NEW pmf_rows, NEW day, NEW closed,
           NEW base, base = _base(Facts(pmf, rows, pmf_rows)),
           NEW deadline, deadline = (IF base.date = None THEN None ELSE add_business_days(base.date, PLAZO_HABILES)),
           NEW t, t = PlazoOf(pmf, rows, pmf_rows, day, closed)
    PROVE  /\ t.deadline = deadline /\ t.base_rows = base.rows
           /\ t.base_date = IF deadline = None THEN None ELSE base.date
           /\ pmf \in closed => t.estado = "no_aplica" /\ t.remaining = None
           /\ pmf \notin closed /\ base.date # None /\ deadline = None =>
                t.estado = "sin_fecha_texto" /\ t.remaining = None
           /\ pmf \notin closed /\ (base.date = None \/ deadline # None) /\ base.blocked # None =>
                t.estado = base.blocked /\ t.remaining = None
           /\ pmf \notin closed /\ deadline # None /\ base.blocked = None =>
                /\ t.remaining = PLAZO_HABILES - business_days_between(base.date, day)
                /\ t.estado = Estado(deadline, t.remaining, day)
<1> DEFINE scoped == {r \in rows : r.pmf = pmf}
           cruce == _cruce(Facts(pmf, rows, pmf_rows), deadline)
           date == IF deadline = None THEN None ELSE base.date
           blocked == IF base.date # None /\ deadline = None THEN "sin_fecha_texto" ELSE base.blocked
           counts == ~(pmf \in closed) /\ blocked = None
           elapsed == business_days_between(date, day)
<1>1. t = term_of(pmf \in closed, scoped, base, deadline, cruce, day)
  BY Zenon DEF PlazoOf, term_from
<1>2. /\ t.deadline = deadline /\ t.base_rows = base.rows /\ t.base_date = date
      /\ t.estado = IF pmf \in closed THEN "no_aplica" ELSE IF ~counts THEN blocked
                    ELSE Estado(deadline, PLAZO_HABILES - elapsed, day)
      /\ t.remaining = IF counts THEN PLAZO_HABILES - elapsed ELSE None
  BY <1>1 DEF term_of
<1>3. "sin_fecha_texto" # None
  BY DEF NoneIsNoState, PLAZO_ESTADO_ORDER
<1> QED
  BY <1>2, <1>3

(* What a term says on any day: it counts from one day to the business day that is the end
   of the term, or it says the same whatever the day. *)
Counted(pmf, rows, pmf_rows, closed) ==
    \E start \in Days, end \in Days :
        /\ business_days_between(start, end) = PLAZO_HABILES
        /\ \A day, t : t = PlazoOf(pmf, rows, pmf_rows, day, closed) =>
             /\ t.deadline = end /\ t.remaining = PLAZO_HABILES - business_days_between(start, day)
             /\ t.estado = Estado(end, t.remaining, day)

Fixed(pmf, rows, pmf_rows, closed) ==
    \E estado : \A day, t : t = PlazoOf(pmf, rows, pmf_rows, day, closed) =>
        t.remaining = None /\ t.estado = estado

LEMMA TermTells ==
    ASSUME NoneIsNoState, NEW pmf, NEW rows, NEW pmf_rows, NEW closed,
           \A r \in Facts(pmf, rows, pmf_rows) : r["fecha_ingreso"] \in DateCell /\ r["fecha_ingreso_2"] \in DateCell
    PROVE  Counted(pmf, rows, pmf_rows, closed) \/ Fixed(pmf, rows, pmf_rows, closed)
<1> PICK base : base = _base(Facts(pmf, rows, pmf_rows))
  OBVIOUS
<1> PICK deadline : deadline = IF base.date = None THEN None ELSE add_business_days(base.date, PLAZO_HABILES)
  OBVIOUS
<1>1. /\ base.date \in Days \cup {None}
      /\ base.blocked = None => base.date \in Days
  BY BaseIsADay
<1>2. None \notin Days
  BY DEF NoneIsNoState, Days
<1>3. CASE pmf \in closed
  <2>1. \A day, t : t = PlazoOf(pmf, rows, pmf_rows, day, closed) => t.remaining = None /\ t.estado = "no_aplica"
    BY <1>3, PlazoFields
  <2> QED
    BY <2>1 DEF Fixed
<1>4. CASE pmf \notin closed /\ base.date # None /\ deadline = None
  <2>1. \A day, t : t = PlazoOf(pmf, rows, pmf_rows, day, closed) => t.remaining = None /\ t.estado = "sin_fecha_texto"
    BY <1>4, PlazoFields
  <2> QED
    BY <2>1 DEF Fixed
<1>5. CASE pmf \notin closed /\ (base.date = None \/ deadline # None) /\ base.blocked # None
  <2>1. \A day, t : t = PlazoOf(pmf, rows, pmf_rows, day, closed) => t.remaining = None /\ t.estado = base.blocked
    BY <1>5, PlazoFields
  <2> QED
    BY <2>1 DEF Fixed
<1>6. CASE pmf \notin closed /\ (base.date = None \/ deadline # None) /\ base.blocked = None
  <2>1. base.date \in Days /\ deadline # None
    BY <1>1, <1>2, <1>6
  <2>2. deadline \in Days /\ business_days_between(base.date, deadline) = PLAZO_HABILES
    BY <1>2, <2>1, DeadlineCounts
  <2>3. \A day, t : t = PlazoOf(pmf, rows, pmf_rows, day, closed) =>
          /\ t.deadline = deadline /\ t.remaining = PLAZO_HABILES - business_days_between(base.date, day)
          /\ t.estado = Estado(deadline, t.remaining, day)
    BY <1>6, <2>1, PlazoFields
  <2> QED
    BY <2>1, <2>2, <2>3 DEF Counted
<1> QED
  BY <1>3, <1>4, <1>5, <1>6

-----------------------------------------------------------------------------
(* Terms of the rows that are shown. *)

(* Edited dates are dates, a request that goes on to the rows of its PMFs has read rows of
   its import, and time is counted in days. *)
TermsInv ==
    /\ today \in Nat
    /\ \A c \in DOMAIN overrides : c[2] \in EditableDates => overrides[c].value \in DateCell
    /\ reader.stage = "pmf_rows" =>
         \A r \in reader.rows : \E s \in Sheets[reader.import] : s.pmf = r.pmf

LEMMA NoneIsNeither == NoneIsNoState
BY ViewsAssumption DEF ViewsAssumption, NoneIsNoState

(* An edit replaces a date by a date and leaves the PMF alone. *)
LEMMA EffectiveFields ==
    ASSUME NEW i \in Imports, NEW s \in Sheets[i], NEW r, r = transelec_effective_row(s)
    PROVE  /\ r.pmf = s.pmf
           /\ TermsInv => \A f \in EditableDates : r[f] \in DateCell
<1>1. s \in ResumenRow
  BY ViewsAssumption DEF ViewsAssumption
<1>2. "pmf" \in DOMAIN s /\ \A f \in EditableDates : f \in DOMAIN s /\ s[f] \in DateCell
  BY <1>1 DEF ResumenRow, EditableDates
<1>3. "pmf" \notin web_fields(s)
  BY DEF web_fields, EditableTexts, EditableDates
<1>4. r.pmf = s.pmf
  BY <1>2, <1>3 DEF transelec_effective_row
<1>5. ASSUME TermsInv, NEW f \in EditableDates
      PROVE  r[f] \in DateCell
  <2>1. r[f] = IF f \in web_fields(s) THEN overrides[<<s.key, f>>].value ELSE s[f]
    BY <1>2 DEF transelec_effective_row, EditableDates
  <2>2. ASSUME f \in web_fields(s)
        PROVE  overrides[<<s.key, f>>].value \in DateCell
    <3>1. <<s.key, f>> \in DOMAIN overrides /\ <<s.key, f>>[2] = f
      BY <2>2 DEF web_fields
    <3> QED
      BY <1>5, <3>1 DEF TermsInv
  <2> QED
    BY <1>2, <2>1, <2>2
<1> QED
  BY <1>4, <1>5

LEMMA EffectiveRowsRead ==
    ASSUME NEW i \in Imports
    PROVE  /\ \A r \in EffectiveRows(i) : \E s \in Sheets[i] : s.pmf = r.pmf
           /\ \A s \in Sheets[i] : \E r \in EffectiveRows(i) : r.pmf = s.pmf
           /\ TermsInv => \A r \in EffectiveRows(i) : \A f \in EditableDates : r[f] \in DateCell
           /\ IsFiniteSet(EffectiveRows(i))
<1>1. \A r \in EffectiveRows(i) : \E s \in Sheets[i] : r = transelec_effective_row(s)
  BY DEF EffectiveRows
<1>2. \A s \in Sheets[i] : transelec_effective_row(s) \in EffectiveRows(i)
  BY DEF EffectiveRows
<1>3. IsFiniteSet(EffectiveRows(i))
  <2> DEFINE effective == [s \in Sheets[i] |-> transelec_effective_row(s)]
  <2>1. effective \in Surjection(Sheets[i], EffectiveRows(i))
    BY DEF EffectiveRows, Surjection
  <2>2. IsFiniteSet(Sheets[i])
    BY ViewsAssumption DEF ViewsAssumption
  <2> QED
    BY <2>1, <2>2, FS_Surjection
<1> QED
  BY <1>1, <1>2, <1>3, EffectiveFields

(* The terms of a request, without the counts beside them. *)
LEMMA PlazosOf ==
    ASSUME NEW rows, NEW pmf_rows, NEW day
    PROVE  get_plazos(rows, pmf_rows, day).pmfs =
             [p \in KeysOf(rows, "pmf") |-> PlazoOf(p, rows, pmf_rows, day, _closed_pmfs(rows))]
<1> DEFINE pmfs == [p \in KeysOf(rows, "pmf") |-> PlazoOf(p, rows, pmf_rows, day, _closed_pmfs(rows))]
<1>1. get_plazos(rows, pmf_rows, day) = plazo_counts(rows, pmfs, day)
  BY Zenon DEF get_plazos, build_plazos
<1> HIDE DEF pmfs
<1>2. plazo_counts(rows, pmfs, day).pmfs = pmfs
  BY DEF plazo_counts
<1> QED
  BY <1>1, <1>2 DEF pmfs

LEMMA TermsOf ==
    ASSUME NEW day
    PROVE  Terms(day) =
             [p \in KeysOf(EffectiveRows(active), "pmf") |->
                PlazoOf(p, EffectiveRows(active), EffectiveRows(active), day, _closed_pmfs(EffectiveRows(active)))]
BY PlazosOf DEF Terms

LEMMA FactsOf ==
    ASSUME NEW pmf, NEW rows
    PROVE  Facts(pmf, rows, rows) = {r \in rows : r.pmf = pmf}
BY DEF Facts

LEMMA TermsTell ==
    ASSUME TermsInv, active \in Imports, NEW p, p \in KeysOf(EffectiveRows(active), "pmf")
    PROVE  \/ \E start \in Days, end \in Days :
                /\ business_days_between(start, end) = PLAZO_HABILES
                /\ \A day, t : t = Terms(day)[p] =>
                     /\ t.deadline = end /\ t.remaining = PLAZO_HABILES - business_days_between(start, day)
                     /\ t.estado = Estado(end, t.remaining, day)
           \/ \E estado : \A day, t : t = Terms(day)[p] => t.remaining = None /\ t.estado = estado
<1> PICK rows, closed : rows = EffectiveRows(active) /\ closed = _closed_pmfs(EffectiveRows(active))
  OBVIOUS
<1>1. \A r \in Facts(p, rows, rows) : r["fecha_ingreso"] \in DateCell /\ r["fecha_ingreso_2"] \in DateCell
  BY EffectiveRowsRead, FactsOf DEF EditableDates
<1>2. \A day : Terms(day)[p] = PlazoOf(p, rows, rows, day, closed)
  BY TermsOf
<1>3. Counted(p, rows, rows, closed) \/ Fixed(p, rows, rows, closed)
  BY <1>1, TermTells, NoneIsNeither
<1> QED
  BY <1>2, <1>3 DEF Counted, Fixed

(* The end of a term and the days left tell the same. *)
LEMMA TermsAreSound ==
    ASSUME TermsInv, active \in Imports
    PROVE  TermsSound(Terms(today))
<1> SUFFICES ASSUME NEW p \in DOMAIN Terms(today), Terms(today)[p].remaining # None
             PROVE  LET t == Terms(today)[p] IN
                    /\ t.estado = "vencido" => t.remaining <= 0
                    /\ t.remaining < 0 => t.estado = "vencido"
                    /\ today = t.deadline => t.remaining = 0 /\ t.estado # "vencido"
  BY DEF TermsSound
<1>1. p \in KeysOf(EffectiveRows(active), "pmf")
  BY TermsOf
<1> PICK t : t = Terms(today)[p]
  OBVIOUS
<1>2. PICK start \in Days, end \in Days :
         /\ business_days_between(start, end) = PLAZO_HABILES
         /\ t.deadline = end /\ t.remaining = PLAZO_HABILES - business_days_between(start, today)
         /\ t.estado = Estado(end, t.remaining, today)
  BY <1>1, TermsTell
<1>3. start \in Nat /\ end \in Nat /\ today \in Nat /\ PLAZO_HABILES \in Nat
  BY PlazoAssumption DEF PlazoAssumption, Days, TermsInv
<1>4. /\ business_days_between(start, today) \in Nat
      /\ today <= end => business_days_between(start, today) <= PLAZO_HABILES
      /\ end <= today => PLAZO_HABILES <= business_days_between(start, today)
  <2>1. business_days_between(start, today) \in Nat
    BY <1>3, DaysGrow
  <2>2. today <= end => business_days_between(start, today) <= business_days_between(start, end)
    BY <1>3, DaysGrow
  <2>3. end <= today => business_days_between(start, end) <= business_days_between(start, today)
    BY <1>3, DaysGrow
  <2> QED
    BY <1>2, <2>1, <2>2, <2>3
<1>5. t.estado = "vencido" <=> today > end
  BY <1>2 DEF Estado
<1> QED
  BY <1>2, <1>3, <1>4, <1>5

(* A day later a term is at least as urgent. *)
LEMMA TermsAge ==
    ASSUME TermsInv, active \in Imports, NEW later \in Nat, today <= later
    PROVE  Older(Terms(today), Terms(later))
<1> SUFFICES ASSUME NEW p \in DOMAIN Terms(today)
             PROVE  Urgency(Terms(today)[p].estado) <= Urgency(Terms(later)[p].estado)
  BY DEF Older
<1>1. p \in KeysOf(EffectiveRows(active), "pmf")
  BY TermsOf
<1>2. \A estado : Urgency(estado) \in Nat
  BY DEF Urgency
<1> PICK t, l : t = Terms(today)[p] /\ l = Terms(later)[p]
  OBVIOUS
<1>3. CASE \E estado : t.estado = estado /\ l.estado = estado
  BY <1>2, <1>3
<1>4. CASE \E start \in Days, end \in Days :
             /\ t.remaining = PLAZO_HABILES - business_days_between(start, today)
             /\ t.estado = Estado(end, t.remaining, today)
             /\ l.remaining = PLAZO_HABILES - business_days_between(start, later)
             /\ l.estado = Estado(end, l.remaining, later)
  <2>1. PICK start \in Days, end \in Days :
             /\ t.remaining = PLAZO_HABILES - business_days_between(start, today)
             /\ t.estado = Estado(end, t.remaining, today)
             /\ l.remaining = PLAZO_HABILES - business_days_between(start, later)
             /\ l.estado = Estado(end, l.remaining, later)
    BY <1>4
  <2>2. start \in Nat /\ end \in Nat /\ today \in Nat /\ PLAZO_HABILES \in Nat /\ POR_VENCER_UMBRAL \in Nat
    BY PlazoAssumption DEF PlazoAssumption, Days, TermsInv
  <2>3. /\ business_days_between(start, today) \in Nat /\ business_days_between(start, later) \in Nat
        /\ business_days_between(start, today) <= business_days_between(start, later)
    BY <2>2, DaysGrow
  <2>4. l.remaining <= t.remaining /\ l.remaining \in Int /\ t.remaining \in Int
    BY <2>1, <2>2, <2>3
  <2> QED
    BY <2>1, <2>2, <2>4 DEF Estado, Urgency
<1>5. \/ \E estado : t.estado = estado /\ l.estado = estado
      \/ \E start \in Days, end \in Days :
             /\ t.remaining = PLAZO_HABILES - business_days_between(start, today)
             /\ t.estado = Estado(end, t.remaining, today)
             /\ l.remaining = PLAZO_HABILES - business_days_between(start, later)
             /\ l.estado = Estado(end, l.remaining, later)
  BY <1>1, TermsTell
<1> QED
  BY <1>3, <1>4, <1>5

(* A term that is shown is counted from the newest ingreso of every row that has one. *)
LEMMA TermsAreOfNewest ==
    ASSUME TermsInv, active \in Imports
    PROVE  TermsOfNewest(Terms(today), EffectiveRows(active))
<1> PICK rows, closed : rows = EffectiveRows(active) /\ closed = _closed_pmfs(EffectiveRows(active))
  OBVIOUS
<1> SUFFICES ASSUME NEW p \in DOMAIN Terms(today), NEW r \in rows, r.pmf = p,
                    date_value(r, "fecha_ingreso_2") # None, Terms(today)[p].deadline # None
             PROVE  Terms(today)[p].base_date = r.fecha_ingreso_2.date
  BY DEF TermsOfNewest
<1>1. Terms(today)[p] = PlazoOf(p, rows, rows, today, closed)
  BY TermsOf
<1> DEFINE facts == {x \in rows : x.pmf = p}
           entries == {<<x.n, date_value(x, "fecha_ingreso_2")>> : x \in facts}
           found == resolve_pmf_field(entries)
<1>2. Facts(p, rows, rows) = facts /\ r \in facts
  BY FactsOf
<1>3. IsFiniteSet(entries)
  <2>1. IsFiniteSet(facts)
    BY EffectiveRowsRead, FS_Subset
  <2> DEFINE entry == [x \in facts |-> <<x.n, date_value(x, "fecha_ingreso_2")>>]
  <2>2. entry \in Surjection(facts, entries)
    BY DEF Surjection
  <2> HIDE DEF entry, entries, facts
  <2> QED
    BY <2>1, <2>2, FS_Surjection
<1>4. \E e \in entries : e[2] = date_value(r, "fecha_ingreso_2")
  <2>1. r \in facts
    BY <1>2
  <2>2. <<r.n, date_value(r, "fecha_ingreso_2")>> \in entries
    BY <2>1
  <2> HIDE DEF entries
  <2> QED
    BY <2>2
<1> HIDE DEF entries, facts
<1>5. found.status # "blank" /\ (found.value # None => found.value = date_value(r, "fecha_ingreso_2"))
  BY <1>3, <1>4, ResolvedValue
<1>6. _resolve(facts, "fecha_ingreso_2") = found
  BY DEF _resolve, entries
<1> HIDE DEF found
<1> PICK base : base = _base(facts)
  OBVIOUS
<1>7. base.date = IF IsDate(found.value) THEN found.value.date ELSE None
  BY <1>5, <1>6 DEF _base, base_of
<1>8. base.date # None /\ Terms(today)[p].base_date = base.date
  <2>1. PICK t : t = Terms(today)[p]
    OBVIOUS
  <2>2. PICK deadline : deadline = IF base.date = None THEN None ELSE add_business_days(base.date, PLAZO_HABILES)
    OBVIOUS
  <2>3. t.deadline = deadline /\ t.base_date = IF deadline = None THEN None ELSE base.date
    BY <1>1, <1>2, <2>1, <2>2, PlazoFields, NoneIsNeither
  <2> QED
    BY <2>1, <2>2, <2>3
<1>9. IsDate(found.value) /\ base.date = found.value.date
  BY <1>7, <1>8
<1>10. found.value = value_or_unread_text(r.fecha_ingreso_2) /\ "date" \in DOMAIN found.value /\ found.value # None
  BY <1>5, <1>9 DEF IsDate, date_value
<1>11. found.value = [date |-> r.fecha_ingreso_2.date]
  <2>1. DOMAIN [text |-> r.fecha_ingreso_2.raw] = {"text"}
    OBVIOUS
  <2> QED
    BY <1>10, <2>1 DEF value_or_unread_text
<1> QED
  BY <1>8, <1>9, <1>11

-----------------------------------------------------------------------------
(* Terms beside edits, publications and midnights. *)

LEMMA TermsInitially == ViewsInit => TermsInv
BY ViewsAssumption DEF ViewsInit, TermsInv, NoReader, ViewsAssumption

LEMMA TermsStep == ReadersInv /\ TermsInv /\ [ViewsNext]_viewVars => TermsInv'
<1> SUFFICES ASSUME ReadersInv, TermsInv, [ViewsNext]_viewVars
             PROVE  TermsInv'
  OBVIOUS
<1>1. ASSUME NEW route \in Routes, NEW filter \in Filters, Ask(route, filter)
      PROVE  TermsInv'
  BY <1>1 DEF Ask, TermsInv
<1>2. CASE Read
  <2>1. UNCHANGED <<overrides, today>>
    BY <1>2 DEF Read, _require_active_import_id, ReadRows, ReadPmfRows, ReadEvent, ReadList, CountRows,
           list_pmf_rows, Answered
  <2> PICK p, q : p = reader' /\ q = reader
    OBVIOUS
  <2>2. p.stage = "pmf_rows" => \A r \in p.rows : \E s \in Sheets[p.import] : s.pmf = r.pmf
    <3>1. CASE ReadRows
      <4>1. q.stage = "rows" /\ reader # NoReader
        BY <3>1 DEF ReadRows, NoReader
      <4>2. RequestFields \subseteq DOMAIN q /\ "import" \in DOMAIN q /\ q.import \in Imports
        BY <4>1 DEF ReadersInv, RequestRight
      <4>3. PICK stage : p = [f \in DOMAIN q \cup {"rows"} |->
                                IF f = "rows" THEN _fetch_filtered_rows(q.import, q.filter)
                                ELSE IF f = "stage" THEN stage ELSE q[f]]
        BY <3>1 DEF ReadRows, With
      <4>4. p.rows = _fetch_filtered_rows(q.import, q.filter) /\ p.import = q.import
        BY <4>2, <4>3 DEF RequestFields
      <4>5. p.rows \subseteq EffectiveRows(q.import)
        BY <4>4 DEF _fetch_filtered_rows
      <4> QED
        BY <4>2, <4>4, <4>5, EffectiveRowsRead
    <3>2. CASE Answered
      BY <3>2 DEF Answered, NoReader
    <3>3. CASE ~(ReadRows \/ Answered)
      <4>1. reader # NoReader
        BY <1>2, <3>3 DEF Read, _require_active_import_id, ReadPmfRows, ReadEvent, ReadList, CountRows,
               list_pmf_rows, NoReader
      <4>2. RequestFields \subseteq DOMAIN q /\ q.route \in Routes
        BY <4>1 DEF ReadersInv, RequestRight
      <4>3. CASE _require_active_import_id
        <5>1. \/ p = [q EXCEPT !.stage = "refused"]
              \/ p = [f \in DOMAIN q \cup {"import"} |->
                        IF f = "import" THEN active ELSE IF f = "stage" THEN After(q.route) ELSE q[f]]
          BY <4>3 DEF _require_active_import_id
        <5>2. After(q.route) # "pmf_rows"
          BY <4>2 DEF After, Routes
        <5> QED
          BY <4>2, <5>1, <5>2 DEF RequestFields
      <4>4. CASE ReadPmfRows \/ ReadList \/ CountRows
        <5>1. PICK field, value, stage : /\ stage \in {"answered", "page"} /\ field # "stage"
                                         /\ p = With(field, value, stage)
          <6>1. ReadPmfRows \/ ReadList => \E v : p = With("answer", v, "answered")
            BY DEF ReadPmfRows, ReadList, Answer
          <6>2. CountRows => \E v : p = With("total", v, "page")
            BY DEF CountRows
          <6> QED
            BY <4>4, <6>1, <6>2
        <5>2. p.stage = stage
          BY <4>2, <5>1 DEF With, RequestFields
        <5> QED
          BY <5>1, <5>2
      <4>5. CASE ReadEvent
        <5>1. (\E v : p = With("answer", v, "answered")) \/ p = [q EXCEPT !.stage = "failed"]
          BY <4>5 DEF ReadEvent, Answer
        <5> QED
          BY <4>2, <5>1 DEF With, RequestFields
      <4>6. CASE list_pmf_rows
        <5>1. PICK l, c, stage : /\ p = [q EXCEPT !.listed = l, !.cursor = c, !.stage = stage]
                                 /\ stage \in {"answered", "active"}
          BY <4>6 DEF list_pmf_rows
        <5> QED
          BY <4>2, <5>1 DEF RequestFields
      <4> QED
        BY <1>2, <3>3, <4>3, <4>4, <4>5, <4>6 DEF Read
    <3> QED
      BY <3>1, <3>2, <3>3
  <2> QED
    BY <2>1, <2>2 DEF TermsInv
<1>3. ASSUME NEW e \in Edits, EditCell(e)
      PROVE  TermsInv'
  <2>1. UNCHANGED <<today, reader>>
    BY <1>3 DEF EditCell
  <2>2. PICK value : overrides' = [c \in DOMAIN overrides \cup {<<e[1], e[2]>>} |->
                                     IF c = <<e[1], e[2]>> THEN value ELSE overrides[c]]
                     /\ value.value = e[3]
    <3>1. PICK source : overrides' = [c \in DOMAIN overrides \cup {<<e[1], e[2]>>} |->
                                        IF c = <<e[1], e[2]>> THEN [value |-> e[3], planilla |-> source]
                                        ELSE overrides[c]]
      BY <1>3 DEF EditCell
    <3>2. [value |-> e[3], planilla |-> source].value = e[3]
      OBVIOUS
    <3> QED
      BY <3>1, <3>2
  <2>3. e[2] \in EditableDates => e[3] \in DateCell
    BY ViewsAssumption DEF ViewsAssumption
  <2>4. ASSUME NEW c \in DOMAIN overrides', c[2] \in EditableDates
        PROVE  overrides'[c].value \in DateCell
    <3>1. CASE c = <<e[1], e[2]>>
      <4>1. c[2] = e[2] /\ overrides'[c] = value
        BY <2>2, <3>1
      <4> QED
        BY <2>2, <2>3, <2>4, <4>1
    <3>2. CASE c # <<e[1], e[2]>>
      <4>1. c \in DOMAIN overrides /\ overrides'[c] = overrides[c]
        BY <2>2, <3>2
      <4> QED
        BY <2>4, <4>1 DEF TermsInv
    <3> QED
      BY <3>1, <3>2
  <2> QED
    BY <2>1, <2>4 DEF TermsInv
<1>4. CASE \/ \E c \in DOMAIN overrides : discard_override(c)
           \/ \E i \in Imports, at \in PublishTimes : activate_import(i, at)
  <2>1. UNCHANGED <<today, reader>>
    BY <1>4 DEF discard_override, activate_import
  <2>2. PICK kept : kept \subseteq DOMAIN overrides /\ overrides' = [c \in kept |-> overrides[c]]
    <3>1. CASE \E c \in DOMAIN overrides : discard_override(c)
      <4>1. PICK c : overrides' = Restrict(overrides, DOMAIN overrides \ {c})
        BY <3>1 DEF discard_override
      <4> QED
        BY <4>1 DEF Restrict
    <3>2. CASE \E i \in Imports, at \in PublishTimes : activate_import(i, at)
      <4>1. PICK i : overrides' = Restrict(overrides, DOMAIN overrides \ incorporada(i))
        BY <3>2 DEF activate_import
      <4> QED
        BY <4>1 DEF Restrict
    <3> QED
      BY <1>4, <3>1, <3>2
  <2>3. \A c \in DOMAIN overrides' : c \in DOMAIN overrides /\ overrides'[c] = overrides[c]
    BY <2>2
  <2> QED
    BY <2>1, <2>3 DEF TermsInv
<1>6. CASE UNCHANGED viewVars
  BY <1>6 DEF viewVars, TermsInv
<1>5. CASE NextDay
  BY <1>5 DEF NextDay, TermsInv
<1> QED
  BY <1>1, <1>2, <1>3, <1>4, <1>5, <1>6 DEF ViewsNext

(* Without a filter every row is read. *)
LEMMA UnfilteredIsEverything ==
    ASSUME NEW i
    PROVE  _fetch_filtered_rows(i, Unfiltered) = EffectiveRows(i)
BY DEF _fetch_filtered_rows, _build_filter_where, Unfiltered

(* The deadlines of a filtered request are those of the whole version: it reads the rows of
   its PMFs again without the filter, and the PMF of a row is never edited. *)
LEMMA FilterMovesNoDeadline == ReadersInv /\ TermsInv => DeadlineIgnoresFilter
<1> SUFFICES ASSUME ReadersInv, TermsInv, ReadPmfRows, reader.route = "plazos", reader.filter # Unfiltered
             PROVE  SameDeadlines(reader'.answer.pmfs,
                      get_plazos(EffectiveRows(reader.import), EffectiveRows(reader.import), today).pmfs)
  BY DEF DeadlineIgnoresFilter
<1> PICK p, q : p = reader' /\ q = reader
  OBVIOUS
<1>1. q.stage = "pmf_rows" /\ reader # NoReader
  BY DEF ReadPmfRows, NoReader
<1>2. RequestFields \subseteq DOMAIN q /\ q.import \in Imports
  BY <1>1 DEF ReadersInv, RequestRight
<1> PICK every, closed, full : /\ every = EffectiveRows(q.import) /\ closed = _closed_pmfs(q.rows)
                               /\ full = _closed_pmfs(every)
  OBVIOUS
<1>3. p.answer = get_plazos(q.rows, every, today)
  <2>1. Answer(get_plazos(q.rows, every, today))
    BY UnfilteredIsEverything DEF ReadPmfRows
  <2> PICK value : value = get_plazos(q.rows, every, today)
    OBVIOUS
  <2>2. p = [f \in DOMAIN q \cup {"answer"} |->
               IF f = "answer" THEN value ELSE IF f = "stage" THEN "answered" ELSE q[f]]
    BY <2>1 DEF Answer, With
  <2> QED
    BY <2>2
<1> PICK shown, whole : shown = p.answer.pmfs /\ whole = get_plazos(every, every, today).pmfs
  OBVIOUS
<1>4. shown = [k \in KeysOf(q.rows, "pmf") |-> PlazoOf(k, q.rows, every, today, closed)]
  BY <1>3, PlazosOf
<1>5. whole = [k \in KeysOf(every, "pmf") |-> PlazoOf(k, every, every, today, full)]
  BY PlazosOf
<1>6. ASSUME NEW k \in DOMAIN shown
      PROVE  shown[k].deadline = whole[k].deadline /\ shown[k].base_rows = whole[k].base_rows
  <2>1. PICK r \in q.rows : r.pmf = k
    BY <1>4 DEF KeysOf
  <2>2. PICK s \in Sheets[q.import] : s.pmf = k
    BY <1>1, <2>1 DEF TermsInv
  <2>3. PICK x \in every : x.pmf = k
    BY <1>2, <2>2, EffectiveRowsRead
  <2>4. k \in KeysOf(every, "pmf")
    BY <2>3 DEF KeysOf
  <2>5. Facts(k, q.rows, every) = Facts(k, every, every)
    BY <2>3 DEF Facts
  <2>6. shown[k] = PlazoOf(k, q.rows, every, today, closed) /\ whole[k] = PlazoOf(k, every, every, today, full)
    BY <1>4, <1>5, <2>4
  <2> PICK base : base = _base(Facts(k, every, every))
    OBVIOUS
  <2> PICK deadline : deadline = IF base.date = None THEN None ELSE add_business_days(base.date, PLAZO_HABILES)
    OBVIOUS
  <2>7. \A t : t = PlazoOf(k, q.rows, every, today, closed) => t.deadline = deadline /\ t.base_rows = base.rows
    BY <2>5, PlazoFields, NoneIsNeither
  <2>8. \A t : t = PlazoOf(k, every, every, today, full) => t.deadline = deadline /\ t.base_rows = base.rows
    BY PlazoFields, NoneIsNeither
  <2> QED
    BY <2>6, <2>7, <2>8
<1> QED
  BY <1>6 DEF SameDeadlines

LEMMA DaysOnlyPass == ReadersInv /\ TermsInv /\ [ViewsNext]_viewVars => OnlyForward
<1> SUFFICES ASSUME ReadersInv, TermsInv, [ViewsNext]_viewVars, active # None, today' # today
             PROVE  Older(Terms(today), Terms(today'))
  BY DEF OnlyForward
<1> PICK later : later = today'
  OBVIOUS
<1>1. NextDay
  BY DEF ViewsNext, viewVars, Ask, Read, _require_active_import_id, ReadRows, ReadPmfRows, ReadEvent, ReadList,
         CountRows, list_pmf_rows, Answered, EditCell, discard_override, activate_import
<1>2. later \in Nat /\ today <= later /\ active \in Imports
  BY <1>1 DEF NextDay, TermsInv, ReadersInv
<1>3. Older(Terms(today), Terms(later))
  BY <1>2, TermsAge
<1> QED
  BY <1>3

(* Terms depend on the calendar and the version only: a day that passes never makes one
   younger, and an answer of /plazos shows, whatever its filter and whatever was edited or
   activated since its first statement, the deadline of the whole version. *)
THEOREM TermsOnlyGetOlder == ViewsSpec => TermsOnlyAge
<1>1. ViewsInit => ReadersInv /\ TermsInv
  BY ReadersInitially, TermsInitially
<1>2. ReadersInv /\ TermsInv /\ [ViewsNext]_viewVars => (ReadersInv /\ TermsInv)'
  BY ReadersStep, TermsStep
<1>3. ReadersInv /\ TermsInv /\ [ViewsNext]_viewVars => [OnlyForward /\ DeadlineIgnoresFilter]_viewVars
  BY DaysOnlyPass, FilterMovesNoDeadline
<1> QED
  BY <1>1, <1>2, <1>3, PTL DEF ViewsSpec, TermsOnlyAge

(* The deadline that is counted forward from the ingreso, holiday by holiday, and the days
   left that are counted back from today tell the same: a term is expired only when none is
   left and the deadline is over, and on the deadline itself exactly none is left. *)
THEOREM DeadlinesAgree == ViewsSpec => []DeadlineSound
<1>1. ViewsInit => ReadersInv /\ TermsInv
  BY ReadersInitially, TermsInitially
<1>2. ReadersInv /\ TermsInv /\ [ViewsNext]_viewVars => (ReadersInv /\ TermsInv)'
  BY ReadersStep, TermsStep
<1>3. ReadersInv /\ TermsInv => DeadlineSound
  BY TermsAreSound DEF DeadlineSound, Published, ReadersInv
<1> QED
  BY <1>1, <1>2, <1>3, PTL DEF ViewsSpec

(* Where the rows of a PMF have a newer ingreso that is unreadable, or that they disagree
   on, no term is shown: never one counted from the older ingreso. *)
THEOREM NeverFromAnOlderDate == ViewsSpec => []NeverAnOlderDate
<1>1. ViewsInit => ReadersInv /\ TermsInv
  BY ReadersInitially, TermsInitially
<1>2. ReadersInv /\ TermsInv /\ [ViewsNext]_viewVars => (ReadersInv /\ TermsInv)'
  BY ReadersStep, TermsStep
<1>3. ReadersInv /\ TermsInv => NeverAnOlderDate
  BY TermsAreOfNewest DEF NeverAnOlderDate, Published, ReadersInv
<1> QED
  BY <1>1, <1>2, <1>3, PTL DEF ViewsSpec

=============================================================================
