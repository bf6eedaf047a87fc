---------------------------- MODULE ConafProofs ----------------------------
(***************************************************************************)
(* Theorems about Conaf, for any numbers, requests, pages and bounds.       *)
(*                                                                         *)
(*   EstadoCorrect  EstadoKept: a good read is never erased, and a change   *)
(*                  of estado is on record                                 *)
(*   BadgeCorrect   BadgeHasItsChange                                       *)
(*   RunsCorrect    RunsAreTrue: types, counters that add up, one finished  *)
(*                  run a day                                              *)
(*                                                                         *)
(* They rest on what ties a lookup in progress to the table: a transaction  *)
(* that saw a row holds its lock until it writes, so that it sees it still  *)
(* (SeenInv); and on what ties the counters of a pass in progress to the    *)
(* numbers it has left (NightInv).                                         *)
(***************************************************************************)
EXTENDS Conaf, FiniteSetTheorems, TLAPS

-----------------------------------------------------------------------------
(* Types *)

ThState == [pc : {"idle", "want", "fetch", "answered", "selecting", "writing", "done"},
            numero : Numbers \cup {None}, answer : Lookup \cup {None},
            seen : Row \cup {None}, at : Times \cup {None}]

Night == [on : BOOLEAN, left : SUBSET Numbers, due : Nat, streak : Nat,
          counts : Counts, reason : Reasons]

(* A thread past its first step has a number, and past its answer has that. *)
ThreadRight(s) ==
    /\ s.pc \in {"want", "fetch", "answered", "selecting", "writing"} => s.numero \in Numbers
    /\ s.pc \in {"answered", "selecting", "writing"} => s.answer \in Lookup
    /\ s.pc \in {"selecting", "writing"} => s.at \in Times
ThreadsRight == \A t \in Threads : ThreadRight(th[t])

(* A pass in progress has its run. *)
RunOpen == night.on => runs # <<>>

Types == TypeOK /\ ThreadsRight /\ RunOpen

(* The states that a thread starts from and ends in. *)
LEMMA IdleTypes ==
    /\ Idle \in ThState /\ Idle.pc = "idle"
    /\ \A t \in Threads : Ended(t) \in ThState /\ Ended(t).pc \in {"idle", "done"}
    /\ \A n \in Numbers :
          /\ [Idle EXCEPT !.pc = "want", !.numero = n] \in ThState
          /\ [Idle EXCEPT !.pc = "want", !.numero = n].pc = "want"
          /\ [Idle EXCEPT !.pc = "want", !.numero = n].numero = n
    /\ Asleep \in Night /\ NoCounts \in Counts /\ Asleep.on = FALSE
PROOF
<1>1. Idle \in ThState /\ Idle.pc = "idle"
  BY DEF Idle, ThState
<1>2. \A t \in Threads : Ended(t) \in ThState /\ Ended(t).pc \in {"idle", "done"}
  BY DEF Ended, Idle, ThState
<1>3. ASSUME NEW n \in Numbers
      PROVE  /\ [Idle EXCEPT !.pc = "want", !.numero = n] \in ThState
             /\ [Idle EXCEPT !.pc = "want", !.numero = n].pc = "want"
             /\ [Idle EXCEPT !.pc = "want", !.numero = n].numero = n
  BY DEF Idle, ThState
<1>4. NoCounts \in Counts
  BY DEF NoCounts, Counts
<1>5. Asleep \in Night /\ Asleep.on = FALSE
  BY <1>4 DEF Asleep, Night, Reasons
<1> QED
  BY <1>1, <1>2, <1>3, <1>4, <1>5

(* One thread changes its state. *)
LEMMA ThreadChanges ==
    ASSUME Types, NEW t \in Threads, NEW s \in ThState, ThreadRight(s),
           th' = [th EXCEPT ![t] = s]
    PROVE  /\ th' \in [Threads -> ThState] /\ ThreadsRight'
           /\ th'[t] = s /\ \A u \in Threads : u # t => th'[u] = th[u]
PROOF
<1>1. th \in [Threads -> ThState]
  BY DEF Types, TypeOK, ThState
<1>2. /\ th' \in [Threads -> ThState]
      /\ th'[t] = s /\ \A u \in Threads : u # t => th'[u] = th[u]
  BY <1>1
<1>3. ASSUME NEW u \in Threads PROVE ThreadRight(th[u])'
  <2>1. CASE u = t
    BY <1>2, <2>1 DEF ThreadRight
  <2>2. CASE u # t
    BY <1>2, <2>2 DEF ThreadRight, Types, ThreadsRight
  <2> QED
    BY <2>1, <2>2
<1> QED
  BY <1>2, <1>3 DEF ThreadsRight

(* The client's answer to a page is a lookup. *)
LEMMA AnswerType ==
    ASSUME NEW n \in Numbers,
           NEW answer \in {parse_conaf_page(n, page) : page \in Pages[n]} \cup {Unavailable}
    PROVE  answer \in Lookup
PROOF
<1>1. Unavailable \in Lookup
  BY DEF Unavailable, Lookup
<1>2. ASSUME NEW page \in Pages[n] PROVE parse_conaf_page(n, page) \in Lookup
  <2>1. page \in Page
    BY ConafAssumption
  <2>2. page.accepted \in BOOLEAN /\ page.unknown \in BOOLEAN /\ page.shaped \in BOOLEAN
        /\ page.estado \in Estados \cup {None}
    BY <2>1 DEF Page
  <2>3. /\ [status |-> "not_found", estado |-> None] \in Lookup
        /\ [status |-> "mismatch", estado |-> None] \in Lookup
        /\ [status |-> "found", estado |-> page.estado] \in Lookup
    BY <2>2 DEF Lookup
  <2> QED
    BY <1>1, <2>2, <2>3 DEF parse_conaf_page
<1> QED
  BY <1>1, <1>2

(* What the steps of a lookup do to the thread that takes them. *)
LEMMA LookupStates ==
    ASSUME Types, NEW t \in Threads
    PROVE  /\ lookup_acquire(t) =>
                \E s \in ThState : /\ th' = [th EXCEPT ![t] = s] /\ ThreadRight(s)
                                   /\ s.pc = "fetch" /\ s.numero = th[t].numero
           /\ lookup_answer(t) =>
                \E s \in ThState : /\ th' = [th EXCEPT ![t] = s] /\ ThreadRight(s)
                                   /\ s.pc = "answered" /\ s.numero = th[t].numero
           /\ save_begin(t) =>
                \E s \in ThState : /\ th' = [th EXCEPT ![t] = s] /\ ThreadRight(s)
                                   /\ s.pc = "selecting" /\ s.numero = th[t].numero
           /\ save_select(t) =>
                \E s \in ThState : /\ th' = [th EXCEPT ![t] = s] /\ ThreadRight(s)
                                   /\ s.pc = "writing" /\ s.numero = th[t].numero
                                   /\ s.seen = row[th[t].numero]
PROOF
<1> DEFINE s0 == th[t]
<1>0. s0 \in ThState /\ ThreadRight(s0) /\ th \in [Threads -> ThState]
  BY DEF Types, TypeOK, ThState, ThreadsRight
<1>1. ASSUME lookup_acquire(t)
      PROVE  \E s \in ThState : /\ th' = [th EXCEPT ![t] = s] /\ ThreadRight(s)
                                /\ s.pc = "fetch" /\ s.numero = th[t].numero
  <2> DEFINE s == [s0 EXCEPT !.pc = "fetch"]
  <2>1. th' = [th EXCEPT ![t] = s]
    BY <1>1 DEF lookup_acquire
  <2>2. s \in ThState /\ s.pc = "fetch" /\ s.numero = s0.numero
    BY <1>0 DEF ThState
  <2>3. s0.numero \in Numbers
    BY <1>0, <1>1 DEF lookup_acquire, ThreadRight
  <2> HIDE DEF s
  <2> QED
    BY <2>1, <2>2, <2>3 DEF ThreadRight
<1>2. ASSUME lookup_answer(t)
      PROVE  \E s \in ThState : /\ th' = [th EXCEPT ![t] = s] /\ ThreadRight(s)
                                /\ s.pc = "answered" /\ s.numero = th[t].numero
  <2>1. s0.numero \in Numbers
    BY <1>0, <1>2 DEF lookup_answer, ThreadRight
  <2>2. PICK answer \in {parse_conaf_page(th[t].numero, page) : page \in Pages[th[t].numero]}
                           \cup {Unavailable} :
            th' = [th EXCEPT ![t].pc = "answered", ![t].answer = answer]
    BY <1>2 DEF lookup_answer
  <2>3. answer \in Lookup
    BY <2>1, <2>2, AnswerType
  <2> DEFINE s == [s0 EXCEPT !.pc = "answered", !.answer = answer]
  <2>4. th' = [th EXCEPT ![t] = s]
    BY <1>0, <2>2
  <2>5. s \in ThState /\ s.pc = "answered" /\ s.numero = s0.numero /\ s.answer = answer
    BY <1>0, <2>3 DEF ThState
  <2> HIDE DEF s
  <2> QED
    BY <2>1, <2>3, <2>4, <2>5 DEF ThreadRight
<1>3. ASSUME save_select(t)
      PROVE  \E s \in ThState : /\ th' = [th EXCEPT ![t] = s] /\ ThreadRight(s)
                                /\ s.pc = "writing" /\ s.numero = th[t].numero
                                /\ s.seen = row[th[t].numero]
  <2>1. /\ s0.pc = "selecting" /\ s0.numero \in Numbers /\ s0.answer \in Lookup /\ s0.at \in Times
    BY <1>0, <1>3 DEF save_select, ThreadRight
  <2>2. row[s0.numero] \in Row \cup {None}
    BY <2>1 DEF Types, TypeOK
  <2> DEFINE s == [s0 EXCEPT !.pc = "writing", !.seen = row[s0.numero]]
  <2>3. th' = [th EXCEPT ![t] = s]
    BY <1>0, <1>3 DEF save_select
  <2>4. /\ s \in ThState /\ s.pc = "writing" /\ s.numero = s0.numero
        /\ s.answer = s0.answer /\ s.at = s0.at /\ s.seen = row[s0.numero]
    BY <1>0, <2>2 DEF ThState
  <2> HIDE DEF s
  <2> QED
    BY <2>1, <2>3, <2>4 DEF ThreadRight
<1>4. ASSUME save_begin(t)
      PROVE  \E s \in ThState : /\ th' = [th EXCEPT ![t] = s] /\ ThreadRight(s)
                                /\ s.pc = "selecting" /\ s.numero = th[t].numero
  <2>1. s0.pc = "answered" /\ s0.numero \in Numbers /\ s0.answer \in Lookup
    BY <1>0, <1>4 DEF save_begin, ThreadRight
  <2> DEFINE s == [s0 EXCEPT !.pc = "selecting", !.at = now]
  <2>2. th' = [th EXCEPT ![t] = s]
    BY <1>0, <1>4 DEF save_begin
  <2>3. now \in Times
    BY DEF Types, TypeOK
  <2>4. s \in ThState /\ s.pc = "selecting" /\ s.numero = s0.numero /\ s.answer = s0.answer /\ s.at = now
    BY <1>0, <2>3 DEF ThState
  <2> HIDE DEF s
  <2> QED
    BY <2>1, <2>2, <2>3, <2>4 DEF ThreadRight
<1> QED
  BY <1>1, <1>2, <1>3, <1>4

(* What an upsert leaves is a row. *)
LEMMA UpsertedType ==
    ASSUME NEW old \in Row \cup {None}, NEW seen \in Row \cup {None}, NEW answer \in Lookup,
           NEW at \in Times
    PROVE  Upserted(old, seen, answer, at) \in Row
PROOF
<1>1. answer.status \in {"found", "not_found", "mismatch", "unavailable"}
      /\ answer.estado \in Estados \cup {None}
  BY DEF Lookup
<1>2. seen # None => seen.changed_at \in Times \cup {None}
  BY DEF Row
<1>3. CASE answer.status = "found"
  BY <1>1, <1>2, <1>3 DEF Upserted, Row
<1>4. CASE answer.status # "found"
  BY <1>1, <1>4 DEF Upserted, Row
<1> QED
  BY <1>3, <1>4

(* What the pass counts is counted as numbers. *)
LEMMA NightTypes ==
    ASSUME Types
    PROVE  /\ \A t \in Threads : NoAnswer(t) => night' \in Night
           /\ \A status \in {"found", "not_found", "mismatch", "unavailable"}, changed \in BOOLEAN :
                Tally(status, changed) \in Night
PROOF
<1>0. /\ night \in Night /\ night.counts \in Counts /\ night.streak \in Nat
      /\ StopAfter \in Nat
  BY ConafAssumption DEF Types, TypeOK, Night
<1>1. ASSUME NEW t \in Threads, NoAnswer(t) PROVE night' \in Night
  <2>1. [night.counts EXCEPT !.unavailable = @ + 1] \in Counts
    BY <1>0 DEF Counts
  <2> QED
    BY <1>0, <1>1, <2>1 DEF NoAnswer, Night
<1>2. ASSUME NEW status \in {"found", "not_found", "mismatch", "unavailable"}, NEW changed \in BOOLEAN
      PROVE  Tally(status, changed) \in Night
  <2> DEFINE once == [night.counts EXCEPT ![status] = @ + 1]
             more == IF changed THEN 1 ELSE 0
             reason == IF Streak(status) >= StopAfter THEN "conaf_unavailable" ELSE None
  <2>1. once \in Counts
    BY <1>0 DEF Counts
  <2>2. more \in Nat /\ Streak(status) \in Nat
    BY <1>0 DEF Streak
  <2>3. reason \in Reasons
    BY DEF Reasons
  <2> HIDE DEF once, more
  <2>4. [once EXCEPT !.changed = @ + more] \in Counts
    BY <2>1, <2>2 DEF Counts
  <2>5. Counted(status, changed) = [once EXCEPT !.changed = @ + more]
    BY DEF Counted, once, more
  <2> HIDE DEF reason
  <2>6. Tally(status, changed) =
          [night EXCEPT !.counts = Counted(status, changed), !.streak = Streak(status),
                        !.reason = reason]
    BY DEF Tally, reason
  <2> QED
    BY <1>0, <2>2, <2>3, <2>4, <2>5, <2>6 DEF Night
<1> QED
  BY <1>1, <1>2

LEMMA TypesInit == Init => Types
PROOF
<1> SUFFICES ASSUME Init PROVE Types
  OBVIOUS
<1>1. th \in [Threads -> ThState] /\ night \in Night
  BY IdleTypes DEF Init
<1>2. /\ now \in Times /\ faults \in 0 .. MaxFaults
  BY ConafAssumption DEF Init, Times
<1>3. stop \in BOOLEAN
  BY Zenon DEF Init
<1>4. ThreadsRight
  BY IdleTypes DEF Init, ThreadsRight, ThreadRight
<1>5. TypeOK
  BY <1>1, <1>2, <1>3 DEF Init, TypeOK, ThState, Night
<1>6. RunOpen
  BY IdleTypes DEF Init, RunOpen
<1> QED
  BY <1>4, <1>5, <1>6 DEF Types

LEMMA Quotients ==
    ASSUME NEW a \in Nat, NEW d \in Nat \ {0}
    PROVE  a \div d \in Nat /\ a \div d <= (a + 1) \div d
PROOF
<1>1. a \div d \in Nat
  OBVIOUS
<1>2. a \div d <= (a + 1) \div d
  OBVIOUS
<1> QED
  BY <1>1, <1>2

(* The days of the clock are numbers and never go back. *)
LEMMA DaysGrow ==
    ASSUME NEW a \in Nat
    PROVE  DayOf(a) \in Nat /\ DayOf(a) <= DayOf(a + 1)
PROOF
<1>1. Day \in Nat \ {0}
  BY ConafAssumption
<1> QED
  BY <1>1, Quotients DEF DayOf

(* A finished or a new run is a run. *)
LEMMA RunTypes ==
    ASSUME Types
    PROVE  /\ \A known \in Collected : start_run(known) => runs' \in Seq(Run) /\ night' \in Night
           /\ finish_run /\ runs # <<>> => runs' \in Seq(Run)
           /\ refresh_next => night' \in Night
PROOF
<1>0. night \in Night /\ night.counts \in Counts /\ runs \in Seq(Run)
  BY DEF Types, TypeOK, Night
<1>1. ASSUME NEW known \in Collected, start_run(known)
      PROVE  runs' \in Seq(Run) /\ night' \in Night
  <2> DEFINE due == due_numbers(known, now)
  <2>1. due \subseteq Numbers
    BY ConafAssumption DEF due_numbers
  <2>2. Cardinality(due) \in Nat
    BY <2>1, ConafAssumption, FS_Subset, FS_CardinalityType
  <2>3. DayOf(now) \in Nat
    BY ConafAssumption, DaysGrow DEF Types, TypeOK, Times
  <2>4. FirstOf(due, Limit) \subseteq Numbers
    BY <2>1 DEF FirstOf
  <2> HIDE DEF due
  <2>5. [day |-> DayOf(now), finished |-> FALSE, due |-> Cardinality(due),
         counts |-> NoCounts, stopped |-> None] \in Run
    BY <2>2, <2>3, IdleTypes DEF Run, Reasons
  <2>6. night' = [Asleep EXCEPT !.on = TRUE, !.due = Cardinality(due), !.left = FirstOf(due, Limit)]
    BY <1>1 DEF start_run, due
  <2>7. night' \in Night
    BY <2>2, <2>4, <2>6, IdleTypes DEF Night
  <2>8. runs' = Append(runs, [day |-> DayOf(now), finished |-> FALSE, due |-> Cardinality(due),
                              counts |-> NoCounts, stopped |-> None])
    BY <1>1 DEF start_run, due
  <2> QED
    BY <1>0, <2>5, <2>7, <2>8
<1>2. ASSUME finish_run, runs # <<>> PROVE runs' \in Seq(Run)
  <2> DEFINE last == runs[Len(runs)]
             stopped == IF night.reason = None /\ night.due > Limit THEN "limit" ELSE night.reason
             new == [last EXCEPT !.finished = TRUE, !.counts = night.counts, !.stopped = stopped]
  <2>1. last \in Run /\ Len(runs) \in 1 .. Len(runs)
    BY <1>0, <1>2
  <2>2. stopped \in Reasons
    BY <1>0 DEF Night, Reasons
  <2>3. new \in Run
    BY <1>0, <2>1, <2>2 DEF Run
  <2>4. runs' = [runs EXCEPT ![Len(runs)] = new]
    BY <1>2 DEF finish_run
  <2> HIDE DEF new
  <2> QED
    BY <1>0, <2>1, <2>3, <2>4
<1>3. ASSUME refresh_next PROVE night' \in Night
  <2>1. PICK n \in FirstOf(night.left, 1) :
          \/ night' = [night EXCEPT !.reason = "shutdown"]
          \/ night' = [night EXCEPT !.left = @ \ {n}, !.counts.checked = @ + 1]
    BY <1>3 DEF refresh_next
  <2>2. [night.counts EXCEPT !.checked = @ + 1] \in Counts
    BY <1>0 DEF Counts
  <2> QED
    BY <1>0, <2>1, <2>2 DEF Night, Reasons
<1> QED
  BY <1>1, <1>2, <1>3

(* The steps in which a lookup ends without writing. *)
LEMMA EndsWithoutWriting ==
    ASSUME Types, NEW t \in Threads, th' = [th EXCEPT ![t] = Ended(t)]
    PROVE  /\ th' \in [Threads -> ThState] /\ ThreadsRight'
           /\ th'[t].pc \in {"idle", "done"} /\ th'[t] = Ended(t)
           /\ \A u \in Threads : u # t => th'[u] = th[u]
PROOF
<1>1. Ended(t) \in ThState /\ Ended(t).pc \in {"idle", "done"}
  BY IdleTypes
<1>2. ThreadRight(Ended(t))
  BY <1>1 DEF ThreadRight
<1> QED
  BY <1>1, <1>2, ThreadChanges

LEMMA TypesStep == Types /\ [Next]_vars => Types'
PROOF
<1> SUFFICES ASSUME Types, [Next]_vars PROVE Types'
  OBVIOUS
<1>0. /\ now \in Times /\ row \in [Numbers -> Row \cup {None}] /\ cambio \subseteq Cambio
      /\ runs \in Seq(Run) /\ lock \in Threads \cup {None}
      /\ rowLock \in [Numbers -> Threads \cup {None}] /\ th \in [Threads -> ThState]
      /\ night \in Night /\ stop \in BOOLEAN /\ faults \in 0 .. MaxFaults
      /\ ThreadsRight /\ RunOpen /\ MaxFaults \in Nat /\ MaxTime \in Nat
  BY ConafAssumption DEF Types, TypeOK, ThState, Night
<1>a. ASSUME now' \in Times, row' \in [Numbers -> Row \cup {None}], cambio' \subseteq Cambio,
             runs' \in Seq(Run), lock' \in Threads \cup {None},
             rowLock' \in [Numbers -> Threads \cup {None}], th' \in [Threads -> ThState],
             night' \in Night, stop' \in BOOLEAN, faults' \in 0 .. MaxFaults,
             ThreadsRight', RunOpen'
      PROVE  Types'
  BY <1>a DEF Types, TypeOK, ThState, Night
<1>b. faults < MaxFaults => faults + 1 \in 0 .. MaxFaults
  BY <1>0
<1>c. Nightly \in Threads /\ \A r \in Requests : r \in Threads
  BY DEF Threads
<1>d. \A t \in Threads : th[t].pc \notin {"idle", "done"} => th[t].numero \in Numbers
  BY <1>0 DEF ThreadsRight, ThreadRight, ThState
<1>1. ASSUME Tick PROVE Types'
  <2>1. now' \in Times
    BY <1>0, <1>1 DEF Tick, Times
  <2> QED
    BY <1>0, <1>1, <1>a, <2>1 DEF Tick, ThreadsRight, ThreadRight, RunOpen
<1>2. ASSUME NEW r \in Requests, NEW n \in Viewed, get_solicitud(r, n) \/ refresh_solicitud(r, n)
      PROVE  Types'
  <2> DEFINE s == [Idle EXCEPT !.pc = "want", !.numero = n]
  <2>1. n \in Numbers
    BY ConafAssumption
  <2>2. th' = [th EXCEPT ![r] = s] /\ UNCHANGED <<now, row, cambio, runs, lock, rowLock, night, stop, faults>>
    BY <1>2 DEF get_solicitud, refresh_solicitud
  <2>3. s \in ThState /\ ThreadRight(s)
    BY <2>1, IdleTypes DEF ThreadRight
  <2> HIDE DEF s
  <2>4. th' \in [Threads -> ThState] /\ ThreadsRight'
    BY <1>c, <2>2, <2>3, ThreadChanges
  <2> QED
    BY <1>0, <1>a, <2>2, <2>4 DEF RunOpen
<1>3. ASSUME NEW t \in Threads, lookup_acquire(t) \/ lookup_answer(t) \/ save_begin(t) \/ save_select(t)
      PROVE  Types'
  <2>1. th' \in [Threads -> ThState] /\ ThreadsRight'
    BY <1>3, LookupStates, ThreadChanges
  <2>2. /\ UNCHANGED <<now, row, cambio, runs, night, stop, faults>>
        /\ lock' \in Threads \cup {None}
    BY <1>0, <1>3 DEF lookup_acquire, lookup_answer, save_begin, save_select
  <2>3. rowLock' \in [Numbers -> Threads \cup {None}]
    BY <1>0, <1>3 DEF lookup_acquire, lookup_answer, save_begin, save_select
  <2> QED
    BY <1>0, <1>a, <2>1, <2>2, <2>3 DEF RunOpen
<1>4. ASSUME NEW t \in Threads, lookup_busy(t) \/ lookup_raises(t) \/ save_fails(t)
      PROVE  Types'
  <2>1. th' = [th EXCEPT ![t] = Ended(t)] /\ NoAnswer(t)
    BY <1>4 DEF lookup_busy, lookup_raises, save_fails
  <2>2. th' \in [Threads -> ThState] /\ ThreadsRight'
    BY <2>1, EndsWithoutWriting
  <2>3. night' \in Night /\ night'.on = night.on
    <3>1. night' \in Night
      BY <2>1, NightTypes
    <3>2. night'.on = night.on
      BY <1>0, <2>1 DEF NoAnswer, Night
    <3> QED
      BY <3>1, <3>2
  <2>4. /\ UNCHANGED <<now, row, cambio, runs, stop>>
        /\ lock' \in Threads \cup {None} /\ faults' \in 0 .. MaxFaults
    BY <1>0, <1>4, <1>b DEF lookup_busy, lookup_raises, save_fails
  <2>5. rowLock' \in [Numbers -> Threads \cup {None}]
    BY <1>0, <1>4 DEF lookup_busy, lookup_raises, save_fails
  <2> QED
    BY <1>0, <1>a, <2>2, <2>3, <2>4, <2>5 DEF RunOpen
<1>5. ASSUME NEW t \in Threads, save_write(t) PROVE Types'
  <2> DEFINE n == th[t].numero
             answer == th[t].answer
             seen == th[t].seen
             changed == EstadoChanged(seen, answer)
  <2>1. /\ n \in Numbers /\ answer \in Lookup /\ th[t].at \in Times /\ seen \in Row \cup {None}
    BY <1>0, <1>5 DEF save_write, ThreadsRight, ThreadRight, ThState
  <2>2. row' \in [Numbers -> Row \cup {None}]
    <3>1. Upserted(row[n], seen, answer, th[t].at) \in Row
      BY <1>0, <2>1, UpsertedType
    <3>2. row' = [row EXCEPT ![n] = Upserted(row[n], seen, answer, th[t].at)]
      BY <1>0, <1>5 DEF save_write
    <3> QED
      BY <1>0, <3>1, <3>2
  <2>3. cambio' \subseteq Cambio
    <3>1. ASSUME changed
          PROVE  [numero |-> n, before |-> seen.estado, after |-> answer.estado, at |-> th[t].at] \in Cambio
      <4>1. seen \in Row /\ seen.estado \in Estados \cup {None}
        BY <2>1, <3>1 DEF EstadoChanged, Row
      <4>2. answer.estado \in Estados
        BY <2>1, <3>1 DEF EstadoChanged, Lookup
      <4> QED
        BY <2>1, <4>1, <4>2 DEF Cambio
    <3> QED
      BY <1>0, <1>5, <3>1 DEF save_write
  <2>4. th' \in [Threads -> ThState] /\ ThreadsRight'
    BY <1>5, EndsWithoutWriting DEF save_write
  <2>5. night' \in Night /\ night'.on = night.on
    <3>1. answer.status \in {"found", "not_found", "mismatch", "unavailable"}
      BY <2>1 DEF Lookup
    <3>2. changed \in BOOLEAN
      BY DEF EstadoChanged
    <3>3. Tally(answer.status, changed) \in Night
      BY <3>1, <3>2, NightTypes
    <3>4. Tally(answer.status, changed).on = night.on
      BY <1>0 DEF Tally, Night
    <3>5. night' = IF t = Nightly THEN Tally(answer.status, changed) ELSE night
      BY <1>5 DEF save_write
    <3> QED
      BY <1>0, <3>3, <3>4, <3>5
  <2>6. /\ UNCHANGED <<now, runs, lock, stop, faults>>
        /\ rowLock' \in [Numbers -> Threads \cup {None}]
    BY <1>0, <1>5 DEF save_write
  <2> QED
    BY <1>0, <1>a, <2>2, <2>3, <2>4, <2>5, <2>6 DEF RunOpen
<1>6. ASSUME refresh_next PROVE Types'
  <2>1. night' \in Night
    BY <1>6, RunTypes
  <2>2. /\ UNCHANGED <<now, row, cambio, runs, lock, rowLock, stop, faults>> /\ night.on
    BY <1>6 DEF refresh_next, AtTopOfLoop
  <2>3. th' \in [Threads -> ThState] /\ ThreadsRight'
    <3>1. PICK n \in night.left :
             \/ th' = th
             \/ th' = [th EXCEPT ![Nightly] = [Idle EXCEPT !.pc = "want", !.numero = n]]
      BY <1>6 DEF refresh_next, FirstOf
    <3>2. n \in Numbers
      BY <1>0 DEF Night
    <3> DEFINE s == [Idle EXCEPT !.pc = "want", !.numero = n]
    <3>3. s \in ThState /\ ThreadRight(s)
      BY <3>2, IdleTypes DEF ThreadRight
    <3> HIDE DEF s
    <3>4. CASE th' = th
      BY <1>0, <3>4 DEF ThreadsRight, ThreadRight
    <3>5. CASE th' = [th EXCEPT ![Nightly] = s]
      BY <1>c, <3>3, <3>5, ThreadChanges
    <3> QED
      BY <3>1, <3>4, <3>5 DEF s
  <2> QED
    BY <1>0, <1>a, <2>1, <2>2, <2>3 DEF RunOpen
<1>7. ASSUME finish_run \/ finish_run_fails PROVE Types'
  <2>1. /\ night.on /\ night' = Asleep /\ UNCHANGED <<now, row, cambio, lock, rowLock, th, stop>>
        /\ faults' \in 0 .. MaxFaults
    BY <1>0, <1>7, <1>b DEF finish_run, finish_run_fails, LoopEnded
  <2>2. runs # <<>>
    BY <1>0, <2>1 DEF RunOpen
  <2>3. runs' \in Seq(Run)
    BY <1>0, <1>7, <2>2, RunTypes DEF finish_run_fails
  <2>4. night' \in Night /\ night'.on = FALSE
    BY <2>1, IdleTypes
  <2> QED
    BY <1>0, <1>a, <2>1, <2>3, <2>4 DEF RunOpen, ThreadsRight, ThreadRight
<1>8. ASSUME NEW known \in Collected, start_run(known) PROVE Types'
  <2>1. runs' \in Seq(Run) /\ night' \in Night
    BY <1>8, RunTypes
  <2>2. /\ UNCHANGED <<now, row, cambio, lock, rowLock, th, stop, faults>> /\ runs' # <<>>
    BY <1>0, <1>8 DEF start_run
  <2> QED
    BY <1>0, <1>a, <2>1, <2>2 DEF RunOpen, ThreadsRight, ThreadRight
<1>9. ASSUME lifespan_stop \/ lifespan_start PROVE Types'
  <2>1. /\ UNCHANGED <<now, row, cambio, runs, lock, rowLock, th, night>>
        /\ faults' \in 0 .. MaxFaults
    BY <1>0, <1>9, <1>b DEF lifespan_stop, lifespan_start
  <2>2. stop' \in BOOLEAN
    BY <1>9, Zenon DEF lifespan_stop, lifespan_start
  <2> QED
    BY <1>0, <1>a, <2>1, <2>2 DEF RunOpen, ThreadsRight, ThreadRight
<1>10. ASSUME Killed PROVE Types'
  <2>1. /\ UNCHANGED <<now, row, cambio, runs>> /\ night' = Asleep /\ lock' = None
        /\ faults' \in 0 .. MaxFaults
    BY <1>0, <1>10, <1>b DEF Killed
  <2>2. stop' \in BOOLEAN
    BY <1>10, Zenon DEF Killed
  <2>3. rowLock' \in [Numbers -> Threads \cup {None}]
    BY <1>10 DEF Killed
  <2>4. th' \in [Threads -> ThState] /\ \A t \in Threads : th'[t].pc \in {"idle", "done"}
    BY <1>10, IdleTypes DEF Killed
  <2>5. ThreadsRight'
    BY <2>4 DEF ThreadsRight, ThreadRight
  <2>6. night' \in Night /\ night'.on = FALSE
    BY <2>1, IdleTypes
  <2> QED
    BY <1>0, <1>a, <2>1, <2>2, <2>3, <2>4, <2>5, <2>6 DEF RunOpen
<1>11. CASE UNCHANGED vars
  BY <1>0, <1>a, <1>11 DEF vars, RunOpen, ThreadsRight, ThreadRight
<1> QED
  BY <1>1, <1>2, <1>3, <1>4, <1>5, <1>6, <1>7, <1>8, <1>9, <1>10, <1>11 DEF Next, ThreadStep, NightStep

LEMMA TypesInvariant == Spec => []Types
PROOF
BY TypesInit, TypesStep, PTL DEF Spec

-----------------------------------------------------------------------------
(* The stored answers *)

(* A transaction that saw a row holds it, and the row is still the one it saw. *)
SeenInv ==
    \A t \in Threads : th[t].pc = "writing" /\ th[t].seen # None =>
        rowLock[th[t].numero] = t /\ row[th[t].numero] = th[t].seen

(* The steps after which no thread has started to write, and no lock or row of *)
(* one that was writing has changed.                                          *)
LEMMA SeenKept ==
    ASSUME SeenInv,
           \A t \in Threads : th'[t].pc = "writing" =>
              /\ th'[t] = th[t]
              /\ th[t].seen # None =>
                    /\ rowLock'[th[t].numero] = rowLock[th[t].numero]
                    /\ row'[th[t].numero] = row[th[t].numero]
    PROVE  SeenInv'
PROOF
BY DEF SeenInv

(* What a write does to the table: one row, of the thread's number. *)
LEMMA WriteFacts ==
    ASSUME Types, NEW t \in Threads, save_write(t), NEW n, n = th[t].numero
    PROVE  /\ n \in Numbers /\ th[t].pc = "writing" /\ rowLock[n] \in {None, t}
           /\ th[t].answer \in Lookup /\ th[t].at \in Times /\ th[t].seen \in Row \cup {None}
           /\ row'[n] = Upserted(row[n], th[t].seen, th[t].answer, th[t].at)
           /\ \A m \in Numbers : m # n => row'[m] = row[m] /\ rowLock'[m] = rowLock[m]
           /\ th'[t].pc # "writing" /\ \A u \in Threads : u # t => th'[u] = th[u]
PROOF
<1>0. /\ row \in [Numbers -> Row \cup {None}] /\ rowLock \in [Numbers -> Threads \cup {None}]
      /\ th \in [Threads -> ThState] /\ ThreadsRight
  BY DEF Types, TypeOK, ThState
<1>1. /\ n \in Numbers /\ th[t].pc = "writing" /\ rowLock[n] \in {None, t}
      /\ th[t].answer \in Lookup /\ th[t].at \in Times /\ th[t].seen \in Row \cup {None}
  BY <1>0 DEF save_write, ThreadsRight, ThreadRight, ThState
<1>2. /\ row'[n] = Upserted(row[n], th[t].seen, th[t].answer, th[t].at)
      /\ \A m \in Numbers : m # n => row'[m] = row[m] /\ rowLock'[m] = rowLock[m]
  BY <1>0, <1>1 DEF save_write
<1>3. th'[t].pc \in {"idle", "done"} /\ \A u \in Threads : u # t => th'[u] = th[u]
  BY EndsWithoutWriting DEF save_write
<1> QED
  BY <1>1, <1>2, <1>3

LEMMA SeenStep == Types /\ SeenInv /\ [Next]_vars => SeenInv'
PROOF
<1> SUFFICES ASSUME Types, SeenInv, [Next]_vars PROVE SeenInv'
  OBVIOUS
<1>0. /\ row \in [Numbers -> Row \cup {None}] /\ rowLock \in [Numbers -> Threads \cup {None}]
      /\ th \in [Threads -> ThState] /\ ThreadsRight
  BY DEF Types, TypeOK, ThState
<1>a. \A t \in Threads : th[t].pc = "writing" => th[t].numero \in Numbers
  BY <1>0 DEF ThreadsRight, ThreadRight
<1>b. \A t \in Threads : t # None
  BY NoneAssumption
<1>c. Nightly \in Threads /\ \A r \in Requests : r \in Threads
  BY DEF Threads
<1>1. ASSUME UNCHANGED <<row, rowLock>>, NEW t \in Threads, NEW s, th' = [th EXCEPT ![t] = s],
             s.pc # "writing"
      PROVE  SeenInv'
  <2>1. th'[t] = s /\ \A u \in Threads : u # t => th'[u] = th[u]
    BY <1>0, <1>1
  <2> QED
    BY <1>1, <2>1, SeenKept
<1>2. ASSUME UNCHANGED <<row, rowLock, th>> PROVE SeenInv'
  BY <1>2, SeenKept
<1>3. ASSUME NEW r \in Requests, NEW n \in Viewed, get_solicitud(r, n) \/ refresh_solicitud(r, n)
      PROVE  SeenInv'
  <2> DEFINE s == [Idle EXCEPT !.pc = "want", !.numero = n]
  <2>1. s.pc # "writing"
    BY ConafAssumption, IdleTypes
  <2>2. th' = [th EXCEPT ![r] = s] /\ UNCHANGED <<row, rowLock>>
    BY <1>3 DEF get_solicitud, refresh_solicitud
  <2> HIDE DEF s
  <2> QED
    BY <1>1, <1>c, <2>1, <2>2
<1>4. ASSUME NEW t \in Threads, lookup_acquire(t) \/ lookup_answer(t) \/ save_begin(t) PROVE SeenInv'
  <2>1. \E s \in ThState : th' = [th EXCEPT ![t] = s] /\ s.pc \in {"fetch", "answered", "selecting"}
    BY <1>4, LookupStates
  <2>2. UNCHANGED <<row, rowLock>>
    BY <1>4 DEF lookup_acquire, lookup_answer, save_begin
  <2> QED
    BY <1>1, <2>1, <2>2
<1>5. ASSUME NEW t \in Threads, save_select(t) PROVE SeenInv'
  <2>1. PICK n \in Numbers : n = th[t].numero
    BY <1>0, <1>5 DEF save_select, ThreadsRight, ThreadRight
  <2>2. PICK s \in ThState : th' = [th EXCEPT ![t] = s] /\ s.pc = "writing" /\ s.numero = n /\ s.seen = row[n]
    BY <1>5, <2>1, LookupStates
  <2>3. th'[t] = s /\ \A u \in Threads : u # t => th'[u] = th[u]
    BY <1>0, <2>2
  <2>4. /\ row' = row /\ (row[n] # None => rowLock[n] = None /\ rowLock'[n] = t)
        /\ (row[n] = None => rowLock'[n] = rowLock[n])
        /\ \A m \in Numbers : m # n => rowLock'[m] = rowLock[m]
    BY <1>0, <1>5, <2>1 DEF save_select
  <2> SUFFICES ASSUME NEW u \in Threads, th'[u].pc = "writing", th'[u].seen # None
               PROVE  rowLock'[th'[u].numero] = u /\ row'[th'[u].numero] = th'[u].seen
    BY DEF SeenInv
  <2>5. CASE u = t
    BY <2>2, <2>3, <2>4, <2>5
  <2>6. CASE u # t
    <3>1. rowLock[th[u].numero] = u /\ row[th[u].numero] = th[u].seen /\ th'[u] = th[u]
      BY <2>3, <2>6 DEF SeenInv
    <3>2. th[u].numero \in Numbers
      BY <1>a, <3>1
    <3>3. CASE th[u].numero = n
      BY <1>b, <2>4, <3>1, <3>3
    <3>4. CASE th[u].numero # n
      BY <2>4, <3>1, <3>2, <3>4
    <3> QED
      BY <3>3, <3>4
  <2> QED
    BY <2>5, <2>6
<1>6. ASSUME NEW t \in Threads, lookup_busy(t) \/ lookup_raises(t) PROVE SeenInv'
  <2>1. Ended(t).pc # "writing"
    BY IdleTypes
  <2>2. th' = [th EXCEPT ![t] = Ended(t)] /\ UNCHANGED <<row, rowLock>>
    BY <1>6 DEF lookup_busy, lookup_raises
  <2> QED
    BY <1>1, <2>1, <2>2
<1>7. ASSUME NEW t \in Threads, save_fails(t) PROVE SeenInv'
  <2>1. th'[t].pc # "writing" /\ \A u \in Threads : u # t => th'[u] = th[u]
    BY <1>7, EndsWithoutWriting DEF save_fails
  <2>2. row' = row /\ \A m \in Numbers : rowLock[m] # t => rowLock'[m] = rowLock[m]
    BY <1>0, <1>7 DEF save_fails
  <2>3. ASSUME NEW u \in Threads, u # t, th[u].pc = "writing", th[u].seen # None
        PROVE  rowLock'[th[u].numero] = rowLock[th[u].numero]
    BY <1>a, <2>2, <2>3 DEF SeenInv
  <2> QED
    BY <2>1, <2>2, <2>3, SeenKept
<1>8. ASSUME NEW t \in Threads, save_write(t) PROVE SeenInv'
  <2>1. PICK n : n = th[t].numero
    OBVIOUS
  <2>2. /\ rowLock[n] \in {None, t} /\ th'[t].pc # "writing"
        /\ \A m \in Numbers : m # n => row'[m] = row[m] /\ rowLock'[m] = rowLock[m]
        /\ \A u \in Threads : u # t => th'[u] = th[u]
    BY <1>8, <2>1, WriteFacts
  <2>3. ASSUME NEW u \in Threads, u # t, th[u].pc = "writing", th[u].seen # None
        PROVE  th[u].numero \in Numbers /\ th[u].numero # n
    BY <1>a, <1>b, <2>2, <2>3 DEF SeenInv
  <2> QED
    BY <2>2, <2>3, SeenKept
<1>9. ASSUME refresh_next PROVE SeenInv'
  <2>1. PICK n \in night.left :
           \/ th' = th
           \/ th' = [th EXCEPT ![Nightly] = [Idle EXCEPT !.pc = "want", !.numero = n]]
    BY <1>9 DEF refresh_next, FirstOf
  <2>2. UNCHANGED <<row, rowLock>> /\ n \in Numbers
    BY <1>9 DEF refresh_next, Types, TypeOK
  <2> DEFINE s == [Idle EXCEPT !.pc = "want", !.numero = n]
  <2>3. s.pc # "writing"
    BY <2>2, IdleTypes
  <2> HIDE DEF s
  <2> QED
    BY <1>1, <1>2, <1>c, <2>1, <2>2, <2>3 DEF s
<1>10. ASSUME Killed PROVE SeenInv'
  <2>1. \A t \in Threads : th'[t].pc # "writing"
    BY <1>10, IdleTypes DEF Killed
  <2> QED
    BY <2>1 DEF SeenInv
<1>11. ASSUME \/ Tick \/ finish_run \/ finish_run_fails \/ lifespan_stop \/ lifespan_start
              \/ (\E known \in Collected : start_run(known)) \/ UNCHANGED vars
       PROVE  SeenInv'
  BY <1>2, <1>11 DEF Tick, finish_run, finish_run_fails, lifespan_stop, lifespan_start, start_run, vars
<1> QED
  BY <1>3, <1>4, <1>5, <1>6, <1>7, <1>8, <1>9, <1>10, <1>11 DEF Next, ThreadStep, NightStep

LEMMA SeenInvariant == Spec => []SeenInv
PROOF
<1>1. Init => SeenInv
  BY IdleTypes DEF Init, SeenInv
<1> QED
  BY <1>1, SeenStep, TypesInvariant, PTL DEF Spec

(* Only a write touches the table of answers, and the changes only grow. *)
LEMMA OnlyWrites ==
    ASSUME [Next]_vars, ~ \E t \in Threads : save_write(t)
    PROVE  row' = row /\ cambio' = cambio
PROOF
BY DEF Next, ThreadStep, NightStep, vars, Tick, get_solicitud, refresh_solicitud, lookup_acquire,
       lookup_busy, lookup_answer, lookup_raises, save_begin, save_select, save_fails, refresh_next, finish_run,
       finish_run_fails, start_run, lifespan_stop, lifespan_start, Killed

(* EstadoCorrect: save_lookup loses no found data and records every change of estado   *)
(* with the one it replaced, for any number of lookups that save at once.  What makes *)
(* it so is FOR UPDATE: a lookup that saw a row writes over that very row.             *)
THEOREM EstadoCorrect == Spec => EstadoKept
PROOF
<1>1. ASSUME Types, SeenInv, [Next]_vars, ~ \E t \in Threads : save_write(t)
      PROVE  FoundDataKept /\ ChangesRecorded
  <2>1. row' = row
    BY <1>1, OnlyWrites
  <2> QED
    BY <2>1 DEF FoundDataKept, ChangesRecorded
<1>2. ASSUME Types, SeenInv, NEW t \in Threads, save_write(t)
      PROVE  FoundDataKept /\ ChangesRecorded
  <2>1. PICK k : k = th[t].numero
    OBVIOUS
  <2>2. /\ k \in Numbers /\ th[t].pc = "writing"
        /\ th[t].answer \in Lookup /\ th[t].at \in Times /\ th[t].seen \in Row \cup {None}
        /\ row'[k] = Upserted(row[k], th[t].seen, th[t].answer, th[t].at)
        /\ \A m \in Numbers : m # k => row'[m] = row[m]
    BY <1>2, <2>1, WriteFacts
  <2>3. row[k] \in Row \cup {None}
    BY <1>2, <2>2 DEF Types, TypeOK
  <2>4. row'[k] \in Row /\ row'[k] # None
    BY <2>2, <2>3, UpsertedType, NoneAssumption
  <2>5. ASSUME row[k] # None, row[k].found
        PROVE  /\ row'[k].found /\ (row'[k].status # "found" => row'[k].estado = row[k].estado)
               /\ row'[k].estado # row[k].estado => th[t].answer.status = "found"
    <3>1. CASE th[t].answer.status = "found"
      BY <2>2, <3>1 DEF Upserted
    <3>2. CASE th[t].answer.status # "found"
      <4>1. row'[k] = [row[k] EXCEPT !.status = th[t].answer.status, !.checked_at = th[t].at]
        BY <2>2, <2>5, <3>2 DEF Upserted
      <4>2. row'[k].found = row[k].found /\ row'[k].estado = row[k].estado
        BY <2>3, <2>5, <4>1 DEF Row
      <4> QED
        BY <2>5, <3>2, <4>2
    <3> QED
      BY <3>1, <3>2
  <2>6. FoundDataKept
    <3> SUFFICES ASSUME NEW n \in Numbers, row[n] # None, row[n].found
                 PROVE  /\ row'[n] # None /\ row'[n].found
                        /\ row'[n].status # "found" => row'[n].estado = row[n].estado
      BY DEF FoundDataKept
    <3>1. CASE n = k
      BY <2>4, <2>5, <3>1
    <3>2. CASE n # k
      BY <2>2, <3>2
    <3> QED
      BY <3>1, <3>2
  <2>7. ChangesRecorded
    <3> SUFFICES ASSUME NEW n \in Numbers, row[n] # None, row[n].found,
                        row'[n].estado \notin {row[n].estado, None}
                 PROVE  \/ [numero |-> n, before |-> row[n].estado, after |-> row'[n].estado,
                            at |-> row'[n].checked_at] \in cambio'
                        \/ LookedBeforeFirst(n)
      BY DEF ChangesRecorded
    <3>1. n = k
      BY <2>2
    <3>2. CASE th[t].seen = None
      BY <2>1, <2>2, <3>1, <3>2 DEF LookedBeforeFirst
    <3>3. CASE th[t].seen # None
      <4>1. row[k] = th[t].seen
        BY <1>2, <2>1, <2>2, <3>3 DEF SeenInv
      <4>2. th[t].answer.status = "found"
        BY <2>5, <3>1
      <4>3. row'[k].estado = th[t].answer.estado /\ row'[k].checked_at = th[t].at
        BY <2>2, <4>2 DEF Upserted
      <4>4. EstadoChanged(th[t].seen, th[t].answer)
        BY <3>1, <3>3, <4>1, <4>2, <4>3 DEF EstadoChanged
      <4>5. [numero |-> k, before |-> th[t].seen.estado, after |-> th[t].answer.estado,
             at |-> th[t].at] \in cambio'
        BY <1>2, <2>1, <4>4 DEF save_write
      <4> QED
        BY <3>1, <4>1, <4>3, <4>5
    <3> QED
      BY <3>2, <3>3
  <2> QED
    BY <2>6, <2>7
<1>3. Types /\ SeenInv /\ [Next]_vars => [FoundDataKept /\ ChangesRecorded]_vars
  BY <1>1, <1>2 DEF Next, ThreadStep
<1> QED
  BY <1>3, TypesInvariant, SeenInvariant, PTL DEF Spec, EstadoKept

(* The date of a change is that of a stored change of the number. *)
BadgeInv ==
    \A n \in Numbers : row[n] # None /\ row[n].changed_at # None =>
        \E c \in cambio : c.numero = n /\ c.at = row[n].changed_at

LEMMA BadgeStep == Types /\ SeenInv /\ BadgeInv /\ [Next]_vars => BadgeInv'
PROOF
<1> SUFFICES ASSUME Types, SeenInv, BadgeInv, [Next]_vars PROVE BadgeInv'
  OBVIOUS
<1>1. CASE ~ \E t \in Threads : save_write(t)
  BY <1>1, OnlyWrites DEF BadgeInv
<1>2. ASSUME NEW t \in Threads, save_write(t) PROVE BadgeInv'
  <2>1. PICK k : k = th[t].numero
    OBVIOUS
  <2> DEFINE change == [numero |-> k, before |-> th[t].seen.estado,
                        after |-> th[t].answer.estado, at |-> th[t].at]
  <2>2. /\ k \in Numbers /\ th[t].pc = "writing"
        /\ row'[k] = Upserted(row[k], th[t].seen, th[t].answer, th[t].at)
        /\ \A m \in Numbers : m # k => row'[m] = row[m]
    BY <1>2, <2>1, WriteFacts
  <2>3. /\ cambio \subseteq cambio'
        /\ EstadoChanged(th[t].seen, th[t].answer) => change \in cambio'
    BY <1>2, <2>1 DEF save_write
  <2>4. row[k] \in Row \cup {None} /\ (th[t].seen # None => row[k] = th[t].seen)
    BY <2>1, <2>2 DEF Types, TypeOK, SeenInv
  <2>5. ASSUME row'[k].changed_at # None
        PROVE  \E c \in cambio' : c.numero = k /\ c.at = row'[k].changed_at
    <3>1. CASE EstadoChanged(th[t].seen, th[t].answer)
      <4>1. row'[k].changed_at = th[t].at
        BY <2>2, <3>1 DEF Upserted, EstadoChanged
      <4>2. change.numero = k /\ change.at = th[t].at
        OBVIOUS
      <4> QED
        BY <2>3, <3>1, <4>1, <4>2
    <3>2. CASE ~EstadoChanged(th[t].seen, th[t].answer)
      <4>1. row[k] # None /\ row'[k].changed_at = row[k].changed_at
        <5>1. CASE th[t].answer.status = "found"
          BY <2>2, <2>4, <2>5, <3>2, <5>1 DEF Upserted
        <5>2. CASE th[t].answer.status # "found" /\ row[k] = None
          BY <2>2, <2>5, <5>2 DEF Upserted
        <5>3. CASE th[t].answer.status # "found" /\ row[k] # None
          BY <2>2, <2>4, <5>3 DEF Upserted, Row
        <5> QED
          BY <5>1, <5>2, <5>3
      <4> QED
        BY <2>2, <2>3, <2>5, <4>1 DEF BadgeInv
    <3> QED
      BY <3>1, <3>2
  <2> SUFFICES ASSUME NEW n \in Numbers, row'[n] # None, row'[n].changed_at # None
               PROVE  \E c \in cambio' : c.numero = n /\ c.at = row'[n].changed_at
    BY DEF BadgeInv
  <2>6. CASE n = k
    BY <2>5, <2>6
  <2>7. CASE n # k
    BY <2>2, <2>3, <2>7 DEF BadgeInv
  <2> QED
    BY <2>6, <2>7
<1> QED
  BY <1>1, <1>2

(* BadgeCorrect: the badge of a number is never shown without its stored change, though *)
(* a lookup that read the row before may write it after others.                         *)
THEOREM BadgeCorrect == Spec => []BadgeHasItsChange
PROOF
<1>1. Init => BadgeInv
  BY DEF Init, BadgeInv
<1>2. BadgeInv => BadgeHasItsChange
  BY DEF BadgeInv, BadgeHasItsChange, recently_changed
<1> QED
  BY <1>1, <1>2, BadgeStep, TypesInvariant, SeenInvariant, PTL DEF Spec

-----------------------------------------------------------------------------
(* The nightly runs *)

(* The numbers before n in sorted order. *)
Before(S, n) == {m \in S : m < n}

LEMMA RankFacts ==
    ASSUME NEW S, S \subseteq Nat, IsFiniteSet(S)
    PROVE  /\ Cardinality(S) \in Nat
           /\ \A n \in S : Cardinality(Before(S, n)) \in 0 .. (Cardinality(S) - 1)
           /\ \A n, m \in S : n < m => Cardinality(Before(S, n)) < Cardinality(Before(S, m))
PROOF
<1>1. Cardinality(S) \in Nat
  BY FS_CardinalityType
<1>2. ASSUME NEW n \in S
      PROVE  IsFiniteSet(Before(S, n)) /\ Cardinality(Before(S, n)) \in 0 .. (Cardinality(S) - 1)
  <2>1. Before(S, n) \subseteq S /\ n \notin Before(S, n)
    BY DEF Before
  <2>2. /\ IsFiniteSet(Before(S, n)) /\ Cardinality(Before(S, n)) <= Cardinality(S)
        /\ Cardinality(S) = Cardinality(Before(S, n)) => S = Before(S, n)
    BY <2>1, FS_Subset
  <2>3. Cardinality(Before(S, n)) \in Nat
    BY <2>2, FS_CardinalityType
  <2>4. Cardinality(Before(S, n)) # Cardinality(S)
    BY <2>1, <2>2
  <2> QED
    BY <1>1, <2>2, <2>3, <2>4
<1>3. ASSUME NEW n \in S, NEW m \in S, n < m
      PROVE  Cardinality(Before(S, n)) < Cardinality(Before(S, m))
  <2>0. n \in Nat /\ m \in Nat /\ \A i \in S : i \in Nat
    OBVIOUS
  <2>1. Before(S, n) \subseteq Before(S, m) /\ n \in Before(S, m) /\ n \notin Before(S, n)
    <3>1. ASSUME NEW i \in Before(S, n) PROVE i \in Before(S, m)
      <4>1. i \in S /\ i \in Nat /\ i < n
        BY <2>0 DEF Before
      <4>2. i < m
        BY <1>3, <2>0, <4>1
      <4> QED
        BY <4>1, <4>2 DEF Before
    <3>2. n \in Before(S, m)
      BY <1>3 DEF Before
    <3>3. n \notin Before(S, n)
      BY <2>0 DEF Before
    <3> QED
      BY <3>1, <3>2, <3>3
  <2>2. /\ Cardinality(Before(S, n)) <= Cardinality(Before(S, m))
        /\ Cardinality(Before(S, m)) = Cardinality(Before(S, n)) => Before(S, m) = Before(S, n)
    BY <1>2, <2>1, FS_Subset
  <2>3. Cardinality(Before(S, n)) # Cardinality(Before(S, m))
    BY <2>1, <2>2
  <2>4. Cardinality(Before(S, n)) \in Nat /\ Cardinality(Before(S, m)) \in Nat
    BY <1>1, <1>2
  <2> QED
    BY <2>2, <2>3, <2>4
<1> QED
  BY <1>1, <1>2, <1>3

LEMMA Counting ==
    ASSUME NEW k \in Nat
    PROVE  IsFiniteSet(0 .. (k - 1)) /\ Cardinality(0 .. (k - 1)) = k
PROOF
<1>1. /\ IsFiniteSet(0 .. (k - 1))
      /\ Cardinality(0 .. (k - 1)) = IF 0 > k - 1 THEN 0 ELSE (k - 1) - 0 + 1
  BY FS_Interval
<1> QED
  BY <1>1

(* due[:limit] has limit numbers, or all of them if there are no more. *)
LEMMA FirstOfSize ==
    ASSUME NEW S, S \subseteq Nat, IsFiniteSet(S), NEW k \in Nat
    PROVE  /\ FirstOf(S, k) \subseteq S
           /\ Cardinality(FirstOf(S, k)) = IF Cardinality(S) > k THEN k ELSE Cardinality(S)
PROOF
<1> DEFINE N == Cardinality(S)
           K == IF N > k THEN k ELSE N
           rank == [n \in S |-> Cardinality(Before(S, n))]
           first == FirstOf(S, k)
           place == [n \in first |-> Cardinality(Before(S, n))]
<1>0. /\ N \in Nat
      /\ \A n \in S : Cardinality(Before(S, n)) \in 0 .. (N - 1)
      /\ \A n, m \in S : n < m => Cardinality(Before(S, n)) < Cardinality(Before(S, m))
  BY RankFacts
<1>1. /\ N \in Nat /\ K \in Nat /\ K <= N /\ K <= k
      /\ \A n \in S : Cardinality(Before(S, n)) \in 0 .. (N - 1)
      /\ \A n, m \in S : n < m => Cardinality(Before(S, n)) < Cardinality(Before(S, m))
  <2> HIDE DEF N
  <2> QED
    BY <1>0
<1>2. first = {n \in S : Cardinality(Before(S, n)) < k}
  BY DEF FirstOf, Before
<1> HIDE DEF N, K, first
<1>3. \A n, m \in S : Cardinality(Before(S, n)) = Cardinality(Before(S, m)) => n = m
  <2> SUFFICES ASSUME NEW n \in S, NEW m \in S, n # m,
                      Cardinality(Before(S, n)) = Cardinality(Before(S, m))
               PROVE  FALSE
    OBVIOUS
  <2>1. n < m \/ m < n
    OBVIOUS
  <2>2. Cardinality(Before(S, n)) \in Nat
    BY <1>1
  <2> QED
    BY <1>1, <2>1, <2>2
<1>4. rank \in Injection(S, 0 .. (N - 1))
  <2>1. rank \in [S -> 0 .. (N - 1)]
    BY <1>1
  <2>2. \A n, m \in S : rank[n] = rank[m] => n = m
    BY <1>3
  <2> QED
    BY <2>1, <2>2 DEF Injection, IsInjective
<1>5. rank \in Surjection(S, 0 .. (N - 1))
  <2>1. IsFiniteSet(0 .. (N - 1)) /\ Cardinality(0 .. (N - 1)) = N
    BY <1>1, Counting
  <2> HIDE DEF rank
  <2>2. Cardinality(S) = Cardinality(0 .. (N - 1)) <=> rank \in Surjection(S, 0 .. (N - 1))
    BY <1>4, <2>1, FS_Injection
  <2> QED
    BY <2>1, <2>2 DEF N
<1>6. \A i \in 0 .. (N - 1) : \E n \in S : Cardinality(Before(S, n)) = i
  BY <1>5 DEF Surjection
<1>7. place \in Injection(first, 0 .. (K - 1))
  <2>1. ASSUME NEW n \in first PROVE Cardinality(Before(S, n)) \in 0 .. (K - 1)
    <3>1. n \in S /\ Cardinality(Before(S, n)) < k /\ Cardinality(Before(S, n)) \in 0 .. (N - 1)
      BY <1>1, <1>2
    <3> QED
      BY <1>1, <3>1 DEF K
  <2>2. place \in [first -> 0 .. (K - 1)]
    BY <2>1
  <2>3. \A n, m \in first : place[n] = place[m] => n = m
    BY <1>2, <1>3
  <2> QED
    BY <2>2, <2>3 DEF Injection, IsInjective
<1>8. place \in Surjection(first, 0 .. (K - 1))
  <2>1. ASSUME NEW i \in 0 .. (K - 1) PROVE \E n \in first : place[n] = i
    <3>1. i \in 0 .. (N - 1) /\ i < k
      BY <1>1
    <3>2. PICK n \in S : Cardinality(Before(S, n)) = i
      BY <1>6, <3>1
    <3>3. n \in first
      BY <1>2, <3>1, <3>2
    <3> QED
      BY <3>2, <3>3
  <2>2. place \in [first -> 0 .. (K - 1)]
    BY <1>7 DEF Injection
  <2> QED
    BY <2>1, <2>2 DEF Surjection
<1>9. IsFiniteSet(0 .. (K - 1)) /\ Cardinality(0 .. (K - 1)) = K
  BY <1>1, Counting
<1> HIDE DEF place
<1>10. Cardinality(first) = K
  BY <1>7, <1>8, <1>9, FS_Injection
<1> QED
  BY <1>2, <1>10 DEF N, K, first

(* How much of a pass is accounted for: what it counted, the number it is at, what it *)
(* has left, and why it stops.                                                        *)
InFlight == IF th[Nightly].pc = "idle" THEN 0 ELSE 1

AddsUp(c, flying) == c.checked = c.found + c.not_found + c.mismatch + c.unavailable + flying

PassRight ==
    /\ AddsUp(night.counts, InFlight)
    /\ night.counts.changed <= night.counts.found
    /\ Cardinality(night.left) + night.counts.checked = IF night.due > Limit THEN Limit ELSE night.due
    /\ night.streak <= night.counts.unavailable
    /\ \/ night.reason = None
       \/ night.reason = "shutdown" /\ night.left # {}
       \/ night.reason = "conaf_unavailable" /\ night.counts.unavailable >= StopAfter

NightInv ==
    /\ th[Nightly].pc # "done"
    /\ night.on => PassRight
    /\ ~night.on => th[Nightly].pc = "idle"

(* A pass that is not disturbed: the same counters, and the same place of its thread. *)
LEMMA NightKept ==
    ASSUME NightInv, night' = night,
           \/ th'[Nightly] = th[Nightly]
           \/ /\ th[Nightly].pc \in {"want", "fetch", "answered", "selecting", "writing"}
              /\ th'[Nightly].pc \in {"want", "fetch", "answered", "selecting", "writing"}
    PROVE  NightInv'
PROOF
<1>1. /\ th'[Nightly].pc = "idle" <=> th[Nightly].pc = "idle"
      /\ th'[Nightly].pc # "done" /\ InFlight' = InFlight
  BY DEF NightInv, InFlight
<1> QED
  BY <1>1 DEF NightInv, PassRight

(* Whether a thread other than the pass moves. *)
LEMMA NightOther ==
    ASSUME Types, NightInv, NEW t \in Threads, t # Nightly, NEW s, th' = [th EXCEPT ![t] = s],
           night' = night
    PROVE  NightInv'
PROOF
<1>1. th'[Nightly] = th[Nightly]
  BY DEF Types, TypeOK, Threads
<1> QED
  BY <1>1, NightKept

(* The number in progress is counted by its outcome. *)
LEMMA NightCounts ==
    ASSUME Types, NightInv, th[Nightly].pc \in {"want", "fetch", "answered", "selecting", "writing"},
           th'[Nightly].pc = "idle",
           \/ NoAnswer(Nightly)
           \/ \E status \in {"found", "not_found", "mismatch", "unavailable"}, changed \in BOOLEAN :
                 /\ changed => status = "found"
                 /\ night' = Tally(status, changed)
    PROVE  NightInv'
PROOF
<1> DEFINE c == night.counts
<1>0. night \in Night /\ c \in Counts /\ night.streak \in Nat /\ StopAfter \in Nat
  BY ConafAssumption DEF Types, TypeOK, Night
<1>1. night.on /\ PassRight /\ InFlight = 1 /\ InFlight' = 0
  BY DEF NightInv, InFlight
<1>2. /\ c.checked \in Nat /\ c.found \in Nat /\ c.not_found \in Nat /\ c.mismatch \in Nat
      /\ c.unavailable \in Nat /\ c.changed \in Nat
  BY <1>0 DEF Counts
<1>3. CASE NoAnswer(Nightly)
  <2>1. /\ night'.counts = [c EXCEPT !.unavailable = @ + 1] /\ night'.on = night.on
        /\ night'.left = night.left /\ night'.due = night.due /\ night'.streak = night.streak
        /\ night'.reason = night.reason
    BY <1>0, <1>3 DEF NoAnswer, Night
  <2>2. /\ night'.counts.unavailable = c.unavailable + 1 /\ night'.counts.checked = c.checked
        /\ night'.counts.found = c.found /\ night'.counts.not_found = c.not_found
        /\ night'.counts.mismatch = c.mismatch /\ night'.counts.changed = c.changed
    BY <1>0, <2>1 DEF Counts
  <2>3. AddsUp(night'.counts, 0) /\ night'.counts.changed <= night'.counts.found
    <3>1. /\ c.checked = c.found + c.not_found + c.mismatch + c.unavailable + 1
          /\ c.changed <= c.found
      BY <1>1 DEF PassRight, AddsUp
    <3> QED
      BY <1>2, <2>2, <3>1 DEF AddsUp
  <2>4. /\ night'.streak <= night'.counts.unavailable
        /\ c.unavailable >= StopAfter => night'.counts.unavailable >= StopAfter
    BY <1>0, <1>1, <1>2, <2>1, <2>2 DEF PassRight
  <2>5. PassRight'
    BY <1>1, <2>1, <2>2, <2>3, <2>4 DEF PassRight
  <2> QED
    BY <1>1, <2>1, <2>5 DEF NightInv
<1>4. ASSUME NEW status \in {"found", "not_found", "mismatch", "unavailable"}, NEW changed \in BOOLEAN,
             changed => status = "found", night' = Tally(status, changed)
      PROVE  NightInv'
  <2> DEFINE once == [c EXCEPT ![status] = @ + 1]
             more == IF changed THEN 1 ELSE 0
             twice == [once EXCEPT !.changed = @ + more]
  <2>1. /\ night'.counts = Counted(status, changed) /\ night'.on = night.on
        /\ night'.left = night.left /\ night'.due = night.due /\ night'.streak = Streak(status)
        /\ night'.reason = IF Streak(status) >= StopAfter THEN "conaf_unavailable" ELSE None
    BY <1>0, <1>4 DEF Tally, Night
  <2>2. /\ once \in Counts /\ once.checked = c.checked /\ once.changed = c.changed
        /\ once.found = IF status = "found" THEN c.found + 1 ELSE c.found
        /\ once.not_found = IF status = "not_found" THEN c.not_found + 1 ELSE c.not_found
        /\ once.mismatch = IF status = "mismatch" THEN c.mismatch + 1 ELSE c.mismatch
        /\ once.unavailable = IF status = "unavailable" THEN c.unavailable + 1 ELSE c.unavailable
    BY <1>0 DEF Counts
  <2>3. night'.counts = twice
    BY <2>1 DEF Counted
  <2>4. more \in Nat /\ (more = 0 \/ (more = 1 /\ status = "found"))
    BY <1>4
  <2> HIDE DEF once, more
  <2>5. /\ twice.checked = once.checked /\ twice.found = once.found
        /\ twice.not_found = once.not_found /\ twice.mismatch = once.mismatch
        /\ twice.unavailable = once.unavailable /\ twice.changed = once.changed + more
    BY <2>2, <2>4 DEF Counts
  <2> HIDE DEF twice
  <2>6. Streak(status) \in Nat /\ Streak(status) <= twice.unavailable
    BY <1>0, <1>1, <1>2, <2>2, <2>5 DEF Streak, PassRight
  <2>7. AddsUp(twice, 0) /\ twice.changed <= twice.found /\ twice.checked = c.checked
    BY <1>1, <1>2, <2>2, <2>4, <2>5 DEF PassRight, AddsUp
  <2>8. twice.unavailable \in Nat
    BY <1>2, <2>2, <2>5
  <2>9. PassRight'
    BY <1>0, <1>1, <2>1, <2>3, <2>6, <2>7, <2>8 DEF PassRight, AddsUp
  <2> QED
    BY <1>1, <2>1, <2>9 DEF NightInv
<1> QED
  BY <1>3, <1>4

(* The pass takes its next number, or stops before it. *)
LEMMA PassGoesOn ==
    ASSUME Types, NightInv, refresh_next
    PROVE  NightInv'
PROOF
<1> DEFINE c == night.counts
<1>0. /\ night \in Night /\ c \in Counts /\ night.left \subseteq Numbers
      /\ th \in [Threads -> ThState] /\ Nightly \in Threads
  BY DEF Types, TypeOK, Night, ThState, Threads
<1>1. night.on /\ PassRight /\ th[Nightly].pc = "idle" /\ night.reason = None /\ InFlight = 0
  BY DEF refresh_next, AtTopOfLoop, NightInv, InFlight
<1>2. /\ c.checked \in Nat /\ c.found \in Nat /\ c.not_found \in Nat /\ c.mismatch \in Nat
      /\ c.unavailable \in Nat /\ c.changed \in Nat
  BY <1>0 DEF Counts
<1>3. PICK n \in night.left :
        \/ night' = [night EXCEPT !.reason = "shutdown"] /\ th' = th
        \/ /\ night' = [night EXCEPT !.left = @ \ {n}, !.counts.checked = @ + 1]
           /\ th' = [th EXCEPT ![Nightly] = [Idle EXCEPT !.pc = "want", !.numero = n]]
  BY DEF refresh_next, FirstOf
<1>4. CASE night' = [night EXCEPT !.reason = "shutdown"] /\ th' = th
  <2>1. /\ night'.counts = c /\ night'.on = night.on /\ night'.left = night.left
        /\ night'.due = night.due /\ night'.streak = night.streak /\ night'.reason = "shutdown"
    BY <1>0, <1>4 DEF Night
  <2>2. InFlight' = InFlight
    BY <1>4 DEF InFlight
  <2> QED
    BY <1>1, <1>3, <1>4, <2>1, <2>2 DEF NightInv, PassRight
<1>5. CASE /\ night' = [night EXCEPT !.left = @ \ {n}, !.counts.checked = @ + 1]
           /\ th' = [th EXCEPT ![Nightly] = [Idle EXCEPT !.pc = "want", !.numero = n]]
  <2>1. /\ night'.counts = [c EXCEPT !.checked = @ + 1] /\ night'.on = night.on
        /\ night'.left = night.left \ {n}
        /\ night'.due = night.due /\ night'.streak = night.streak /\ night'.reason = None
    BY <1>0, <1>1, <1>5 DEF Night
  <2>2. /\ night'.counts.checked = c.checked + 1 /\ night'.counts.unavailable = c.unavailable
        /\ night'.counts.found = c.found /\ night'.counts.not_found = c.not_found
        /\ night'.counts.mismatch = c.mismatch /\ night'.counts.changed = c.changed
    BY <1>0, <2>1 DEF Counts
  <2>3. th'[Nightly].pc = "want" /\ InFlight' = 1
    <3>1. n \in Numbers
      BY <1>0
    <3>2. th'[Nightly] = [Idle EXCEPT !.pc = "want", !.numero = n]
      BY <1>0, <1>5
    <3>3. th'[Nightly].pc = "want"
      BY <3>1, <3>2, IdleTypes
    <3> QED
      BY <3>3 DEF InFlight
  <2>4. AddsUp(night'.counts, 1) /\ night'.counts.changed <= night'.counts.found
    <3>1. /\ c.checked = c.found + c.not_found + c.mismatch + c.unavailable + 0
          /\ c.changed <= c.found
      BY <1>1 DEF PassRight, AddsUp
    <3> QED
      BY <1>2, <2>2, <3>1 DEF AddsUp
  <2>5. Cardinality(night'.left) + night'.counts.checked = Cardinality(night.left) + c.checked
    <3>1. IsFiniteSet(night.left) /\ Cardinality(night.left) \in Nat
      BY <1>0, ConafAssumption, FS_Subset, FS_CardinalityType
    <3>2. Cardinality(night.left \ {n}) = Cardinality(night.left) - 1
      BY <3>1, FS_RemoveElement
    <3> QED
      BY <1>2, <2>1, <2>2, <3>1, <3>2
  <2>6. PassRight'
    BY <1>1, <2>1, <2>2, <2>3, <2>4, <2>5 DEF PassRight
  <2> QED
    BY <1>1, <2>1, <2>3, <2>6 DEF NightInv
<1> QED
  BY <1>3, <1>4, <1>5

(* A new pass has counted nothing, and has as many numbers left as the limit allows. *)
LEMMA PassStarts ==
    ASSUME Types, NightInv, NEW known \in Collected, start_run(known)
    PROVE  NightInv'
PROOF
<1> DEFINE due == due_numbers(known, now)
<1>1. due \subseteq Numbers /\ due \subseteq Nat /\ IsFiniteSet(due) /\ Limit \in Nat
  BY ConafAssumption, FS_Subset DEF due_numbers
<1>2. Cardinality(FirstOf(due, Limit)) = IF Cardinality(due) > Limit THEN Limit ELSE Cardinality(due)
  BY <1>1, FirstOfSize
<1>3. Cardinality(due) \in Nat
  BY <1>1, FS_CardinalityType
<1>4. ~night.on /\ th' = th
      /\ night' = [Asleep EXCEPT !.on = TRUE, !.due = Cardinality(due), !.left = FirstOf(due, Limit)]
  BY DEF start_run
<1> HIDE DEF due
<1>5. /\ night'.on = TRUE /\ night'.due = Cardinality(due) /\ night'.left = FirstOf(due, Limit)
      /\ night'.counts = NoCounts /\ night'.streak = 0 /\ night'.reason = None
  BY <1>4 DEF Asleep
<1>6. th'[Nightly].pc = "idle" /\ InFlight' = 0
  BY <1>4 DEF NightInv, InFlight
<1>7. AddsUp(NoCounts, 0) /\ NoCounts.changed = 0 /\ NoCounts.found = 0 /\ NoCounts.checked = 0
      /\ NoCounts.unavailable = 0
  BY DEF AddsUp, NoCounts
<1>8. Cardinality(night'.left) + night'.counts.checked =
        IF night'.due > Limit THEN Limit ELSE night'.due
  BY <1>1, <1>2, <1>3, <1>5, <1>7
<1>9. PassRight'
  BY <1>5, <1>6, <1>7, <1>8 DEF PassRight
<1> QED
  BY <1>5, <1>6, <1>9 DEF NightInv

LEMMA PassStep == Types /\ NightInv /\ [Next]_vars => NightInv'
PROOF
<1> SUFFICES ASSUME Types, NightInv, [Next]_vars PROVE NightInv'
  OBVIOUS
<1>0. th \in [Threads -> ThState] /\ Nightly \in Threads /\ \A r \in Requests : r \in Threads /\ r # Nightly
  BY ConafAssumption DEF Types, TypeOK, ThState, Threads
<1>1. ASSUME NEW r \in Requests, NEW n \in Viewed, get_solicitud(r, n) \/ refresh_solicitud(r, n)
      PROVE  NightInv'
  <2>1. th' = [th EXCEPT ![r] = [Idle EXCEPT !.pc = "want", !.numero = n]] /\ night' = night
    BY <1>1 DEF get_solicitud, refresh_solicitud
  <2> QED
    BY <1>0, <2>1, NightOther
<1>2. ASSUME NEW t \in Threads, lookup_acquire(t) \/ lookup_answer(t) \/ save_begin(t) \/ save_select(t) PROVE NightInv'
  <2>1. night' = night /\ th[t].pc \in {"want", "fetch", "answered", "selecting"}
    BY <1>2 DEF lookup_acquire, lookup_answer, save_begin, save_select
  <2>2. PICK s \in ThState : th' = [th EXCEPT ![t] = s] /\ s.pc \in {"fetch", "answered", "selecting", "writing"}
    BY <1>2, LookupStates
  <2>3. CASE t # Nightly
    BY <2>1, <2>2, <2>3, NightOther
  <2>4. CASE t = Nightly
    <3>1. th'[Nightly].pc \in {"fetch", "answered", "selecting", "writing"}
      BY <1>0, <2>2, <2>4
    <3> QED
      BY <2>1, <2>4, <3>1, NightKept
  <2> QED
    BY <2>3, <2>4
<1>3. ASSUME NEW t \in Threads, lookup_busy(t) \/ lookup_raises(t) \/ save_fails(t) PROVE NightInv'
  <2>1. /\ th' = [th EXCEPT ![t] = Ended(t)] /\ NoAnswer(t)
        /\ th[t].pc \in {"want", "fetch", "answered", "selecting", "writing"}
    BY <1>3 DEF lookup_busy, lookup_raises, save_fails
  <2>2. CASE t # Nightly
    BY <2>1, <2>2, NightOther DEF NoAnswer
  <2>3. CASE t = Nightly
    <3>1. th'[Nightly].pc = "idle"
      BY <1>0, <2>1, <2>3 DEF Ended, Idle
    <3> QED
      BY <2>1, <2>3, <3>1, NightCounts
  <2> QED
    BY <2>2, <2>3
<1>4. ASSUME NEW t \in Threads, save_write(t) PROVE NightInv'
  <2>1. th' = [th EXCEPT ![t] = Ended(t)] /\ th[t].pc = "writing"
    BY <1>4 DEF save_write
  <2>2. CASE t # Nightly
    BY <1>4, <2>1, <2>2, NightOther DEF save_write
  <2>3. CASE t = Nightly
    <3>1. th'[Nightly].pc = "idle"
      BY <1>0, <2>1, <2>3 DEF Ended, Idle
    <3> DEFINE status == th[t].answer.status
               changed == EstadoChanged(th[t].seen, th[t].answer)
    <3>2. status \in {"found", "not_found", "mismatch", "unavailable"}
      BY <1>4, WriteFacts DEF Lookup
    <3>3. changed \in BOOLEAN /\ (changed => status = "found")
      BY DEF EstadoChanged
    <3>4. night' = Tally(status, changed)
      BY <1>4, <2>3 DEF save_write
    <3> HIDE DEF status, changed
    <3> QED
      BY <2>1, <2>3, <3>1, <3>2, <3>3, <3>4, NightCounts
  <2> QED
    BY <2>2, <2>3
<1>5. ASSUME finish_run \/ finish_run_fails PROVE NightInv'
  <2>1. th' = th /\ th[Nightly].pc = "idle" /\ night' = Asleep
    BY <1>5 DEF finish_run, finish_run_fails, LoopEnded
  <2> QED
    BY <2>1, IdleTypes DEF NightInv
<1>6. ASSUME Killed PROVE NightInv'
  <2>1. th'[Nightly].pc = "idle" /\ night' = Asleep
    BY <1>0, <1>6 DEF Killed, Ended, Idle
  <2> QED
    BY <2>1, IdleTypes DEF NightInv
<1>7. ASSUME Tick \/ lifespan_stop \/ lifespan_start \/ UNCHANGED vars PROVE NightInv'
  BY <1>7, NightKept DEF Tick, lifespan_stop, lifespan_start, vars
<1> QED
  BY <1>1, <1>2, <1>3, <1>4, <1>5, <1>6, <1>7, PassGoesOn, PassStarts DEF Next, ThreadStep, NightStep

LEMMA NightInvariant == Spec => []NightInv
PROOF
<1>1. Init => NightInv
  BY IdleTypes DEF Init, NightInv, Threads
<1> QED
  BY <1>1, PassStep, TypesInvariant, PTL DEF Spec

-----------------------------------------------------------------------------
(* The runs table *)

(* The run of a pass in progress is the last one, is not finished and has its due. *)
OpenRun == night.on => ~runs[Len(runs)].finished /\ runs[Len(runs)].due = night.due

(* Runs start in the order of their days; if a run is finished there is a last one; and *)
(* a pass in progress started on a later day than every finished run.                  *)
DaysInOrder ==
    /\ \A i \in DOMAIN runs : runs[i].day <= DayOf(now)
    /\ \A i, j \in DOMAIN runs : i < j => runs[i].day <= runs[j].day
FinishedHasLast == \A i \in DOMAIN runs : runs[i].finished => LastFinished # {}
FirstOfItsDay ==
    night.on => \A i \in DOMAIN runs : runs[i].finished => runs[i].day < runs[Len(runs)].day

TableInv ==
    /\ OpenRun /\ RunsAddUp
    /\ DaysInOrder /\ FinishedHasLast /\ FirstOfItsDay /\ OneFinishedRunPerDay

(* Most steps leave the runs and the clock alone, and the pass as it is or ended. *)
LEMMA TableKept ==
    ASSUME TableInv, runs' = runs, now' = now, night'.on => night.on /\ night'.due = night.due
    PROVE  TableInv'
PROOF
<1>1. OpenRun' /\ FirstOfItsDay'
  BY DEF TableInv, OpenRun, FirstOfItsDay
<1>2. RunsAddUp' /\ OneFinishedRunPerDay'
  BY DEF TableInv, RunsAddUp, OneFinishedRunPerDay
<1>3. DaysInOrder' /\ FinishedHasLast'
  BY DEF TableInv, DaysInOrder, FinishedHasLast, LastFinished
<1> QED
  BY <1>1, <1>2, <1>3 DEF TableInv

LEMMA RunsTyped ==
    ASSUME Types
    PROVE  /\ DOMAIN runs = 1 .. Len(runs) /\ Len(runs) \in Nat
           /\ \A i \in DOMAIN runs : runs[i] \in Run /\ runs[i].day \in Nat
PROOF
<1>1. runs \in Seq(Run)
  BY DEF Types, TypeOK
<1>2. DOMAIN runs = 1 .. Len(runs) /\ Len(runs) \in Nat
  BY <1>1
<1>3. ASSUME NEW i \in DOMAIN runs PROVE runs[i] \in Run /\ runs[i].day \in Nat
  <2>1. runs[i] \in Run
    BY <1>1, <1>2
  <2> QED
    BY <2>1 DEF Run
<1> QED
  BY <1>2, <1>3

LEMMA QuietSteps ==
    ASSUME Types, Next
    PROVE  \/ /\ runs' = runs /\ now' = now
              /\ night'.on => night.on /\ night'.due = night.due
           \/ Tick \/ finish_run \/ \E known \in Collected : start_run(known)
PROOF
<1>0. night \in Night
  BY DEF Types, TypeOK, Night
<1> DEFINE Quiet == /\ runs' = runs /\ now' = now
                    /\ night'.on => night.on /\ night'.due = night.due
<1>1. ASSUME NEW r \in Requests, NEW n \in Viewed, get_solicitud(r, n) \/ refresh_solicitud(r, n)
      PROVE  Quiet
  BY <1>1 DEF get_solicitud, refresh_solicitud
<1>2. ASSUME NEW t \in Threads, lookup_acquire(t) \/ lookup_answer(t) \/ save_begin(t) \/ save_select(t) PROVE Quiet
  BY <1>2 DEF lookup_acquire, lookup_answer, save_begin, save_select
<1>3. ASSUME NEW t \in Threads, lookup_busy(t) \/ lookup_raises(t) \/ save_fails(t) PROVE Quiet
  <2>1. runs' = runs /\ now' = now /\ NoAnswer(t)
    BY <1>3 DEF lookup_busy, lookup_raises, save_fails
  <2>2. night'.on = night.on /\ night'.due = night.due
    BY <1>0, <2>1 DEF NoAnswer, Night
  <2> QED
    BY <2>1, <2>2
<1>4. ASSUME NEW t \in Threads, save_write(t) PROVE Quiet
  <2>1. runs' = runs /\ now' = now
        /\ (night' = Tally(th[t].answer.status, EstadoChanged(th[t].seen, th[t].answer)) \/ night' = night)
    BY <1>4 DEF save_write
  <2>2. night'.on = night.on /\ night'.due = night.due
    BY <1>0, <2>1 DEF Tally, Night
  <2> QED
    BY <2>1, <2>2
<1>5. ASSUME refresh_next PROVE Quiet
  <2>1. runs' = runs /\ now' = now
    BY <1>5 DEF refresh_next
  <2>2. PICK n \in FirstOf(night.left, 1) :
          \/ night' = [night EXCEPT !.reason = "shutdown"]
          \/ night' = [night EXCEPT !.left = @ \ {n}, !.counts.checked = @ + 1]
    BY <1>5 DEF refresh_next
  <2>3. night'.on = night.on /\ night'.due = night.due
    BY <1>0, <2>2 DEF Night
  <2> QED
    BY <2>1, <2>3
<1>6. ASSUME finish_run_fails \/ Killed PROVE Quiet
  <2>1. runs' = runs /\ now' = now /\ night' = Asleep
    BY <1>6 DEF finish_run_fails, Killed
  <2> QED
    BY <2>1, IdleTypes
<1>7. ASSUME lifespan_stop \/ lifespan_start PROVE Quiet
  BY <1>7 DEF lifespan_stop, lifespan_start
<1> HIDE DEF Quiet
<1>8. Quiet \/ Tick \/ finish_run \/ \E known \in Collected : start_run(known)
  BY <1>1, <1>2, <1>3, <1>4, <1>5, <1>6, <1>7 DEF Next, ThreadStep, NightStep
<1> QED
  BY <1>8 DEF Quiet

(* The clock goes on: the days of the runs stay behind it. *)
LEMMA TableTick ==
    ASSUME Types, TableInv, Tick
    PROVE  TableInv'
PROOF
<1>1. now \in Nat /\ now' = now + 1 /\ runs' = runs /\ night' = night
  BY ConafAssumption DEF Types, TypeOK, Times, Tick
<1>2. DayOf(now) \in Nat /\ DayOf(now) <= DayOf(now + 1) /\ DayOf(now + 1) \in Nat
  BY <1>1, DaysGrow
<1>3. DayOf(now)' = DayOf(now + 1)
  BY <1>1 DEF DayOf
<1>4. ASSUME NEW i \in DOMAIN runs PROVE runs[i].day <= DayOf(now + 1)
  <2>1. runs[i].day \in Nat
    BY RunsTyped
  <2>2. runs[i].day <= DayOf(now)
    BY DEF TableInv, DaysInOrder
  <2> QED
    BY <1>2, <2>1, <2>2
<1>5. DaysInOrder'
  BY <1>1, <1>3, <1>4 DEF TableInv, DaysInOrder
<1>6. OpenRun' /\ FirstOfItsDay' /\ FinishedHasLast'
  BY <1>1 DEF TableInv, OpenRun, FirstOfItsDay, FinishedHasLast, LastFinished
<1>7. RunsAddUp' /\ OneFinishedRunPerDay'
  BY <1>1 DEF TableInv, RunsAddUp, OneFinishedRunPerDay
<1> QED
  BY <1>5, <1>6, <1>7 DEF TableInv

(* A pass starts only when no finished run is of today. *)
LEMMA TableStart ==
    ASSUME Types, TableInv, NEW known \in Collected, start_run(known)
    PROVE  TableInv'
PROOF
<1> DEFINE len == Len(runs)
<1>0. runs \in Seq(Run) /\ len \in Nat /\ DOMAIN runs = 1 .. len
  BY DEF Types, TypeOK
<1>1. PICK due : /\ runs' = Append(runs, [day |-> DayOf(now), finished |-> FALSE, due |-> due,
                                          counts |-> NoCounts, stopped |-> None])
                 /\ night' = [Asleep EXCEPT !.on = TRUE, !.due = due,
                                            !.left = FirstOf(due_numbers(known, now), Limit)]
  BY DEF start_run
<1>2. now' = now /\ ~already_ran_today
  BY DEF start_run
<1>3. night'.on /\ night'.due = due
  BY <1>1 DEF Asleep
<1>4. /\ Len(runs') = len + 1 /\ DOMAIN runs' = 1 .. (len + 1)
      /\ runs'[len + 1] = [day |-> DayOf(now), finished |-> FALSE, due |-> due,
                           counts |-> NoCounts, stopped |-> None]
      /\ \A i \in 1 .. len : runs'[i] = runs[i]
  BY <1>0, <1>1
<1>5. /\ runs'[len + 1].day = DayOf(now) /\ ~runs'[len + 1].finished /\ runs'[len + 1].due = due
  BY <1>4
<1>6. DayOf(now) \in Nat
  BY ConafAssumption, DaysGrow DEF Types, TypeOK, Times
<1>7. \A i \in 1 .. len : runs[i].day \in Nat /\ runs[i].day <= DayOf(now)
  BY <1>0, RunsTyped DEF TableInv, DaysInOrder
<1>8. ASSUME NEW i \in 1 .. len, runs[i].finished PROVE runs[i].day < DayOf(now)
  <2>1. PICK k \in LastFinished : TRUE
    BY <1>0, <1>8 DEF TableInv, FinishedHasLast
  <2>2. k \in 1 .. len /\ i <= k
    BY <1>0, <1>8, <2>1 DEF LastFinished
  <2>3. ~(runs[k].day >= DayOf(now))
    BY <1>2, <2>1 DEF already_ran_today
  <2>4. runs[i].day <= runs[k].day
    <3>1. CASE i = k
      BY <1>7, <2>2, <3>1
    <3>2. CASE i < k
      BY <1>0, <2>2, <3>2 DEF TableInv, DaysInOrder
    <3> QED
      BY <2>2, <3>1, <3>2
  <2> QED
    BY <1>6, <1>7, <2>2, <2>3, <2>4
<1>9. OpenRun'
  BY <1>3, <1>4, <1>5 DEF OpenRun
<1>10. RunsAddUp'
  <2>1. ASSUME NEW i \in DOMAIN runs', runs'[i].finished PROVE i \in DOMAIN runs /\ runs'[i] = runs[i]
    BY <1>0, <1>4, <1>5, <2>1
  <2> QED
    BY <2>1 DEF TableInv, RunsAddUp
<1>11. DaysInOrder'
  <2>1. DayOf(now)' = DayOf(now)
    BY <1>2 DEF DayOf
  <2>2. ASSUME NEW i \in 1 .. (len + 1) PROVE runs'[i].day <= DayOf(now)
    <3>1. CASE i = len + 1
      BY <1>5, <1>6, <3>1
    <3>2. CASE i # len + 1
      BY <1>0, <1>4, <1>7, <3>2
    <3> QED
      BY <3>1, <3>2
  <2>3. ASSUME NEW i \in 1 .. (len + 1), NEW j \in 1 .. (len + 1), i < j
        PROVE  runs'[i].day <= runs'[j].day
    <3>1. i \in 1 .. len
      BY <1>0, <2>3
    <3>2. CASE j = len + 1
      BY <1>4, <1>5, <1>7, <3>1, <3>2
    <3>3. CASE j # len + 1
      <4>1. j \in 1 .. len
        BY <1>0, <3>3
      <4> QED
        BY <1>0, <1>4, <2>3, <3>1, <4>1 DEF TableInv, DaysInOrder
    <3> QED
      BY <3>2, <3>3
  <2> QED
    BY <1>4, <2>1, <2>2, <2>3 DEF DaysInOrder
<1>12. FinishedHasLast'
  <2>1. ASSUME NEW k \in LastFinished PROVE k \in LastFinished'
    BY <1>0, <1>4, <1>5 DEF LastFinished
  <2>2. ASSUME NEW i \in DOMAIN runs', runs'[i].finished PROVE LastFinished # {}
    <3>1. i \in DOMAIN runs /\ runs[i].finished
      BY <1>0, <1>4, <1>5, <2>2
    <3> QED
      BY <3>1 DEF TableInv, FinishedHasLast
  <2> QED
    BY <2>1, <2>2 DEF FinishedHasLast
<1>13. FirstOfItsDay'
  <2>1. ASSUME NEW i \in 1 .. (len + 1), runs'[i].finished PROVE runs'[i].day < DayOf(now)
    <3>1. i \in 1 .. len
      BY <1>0, <1>5, <2>1
    <3> QED
      BY <1>4, <1>8, <2>1, <3>1
  <2> QED
    BY <1>4, <1>5, <2>1 DEF FirstOfItsDay
<1>14. OneFinishedRunPerDay'
  <2>1. ASSUME NEW i \in DOMAIN runs', runs'[i].finished
        PROVE  i \in DOMAIN runs /\ runs'[i] = runs[i]
    BY <1>0, <1>4, <1>5, <2>1
  <2> QED
    BY <2>1 DEF TableInv, OneFinishedRunPerDay
<1> QED
  BY <1>9, <1>10, <1>11, <1>12, <1>13, <1>14 DEF TableInv

(* What a pass writes when it ends adds up. *)
LEMMA FinishAddsUp ==
    ASSUME Types, NightInv, LoopEnded,
           NEW stopped, stopped = IF night.reason = None /\ night.due > Limit THEN "limit" ELSE night.reason
    PROVE  LET c == night.counts IN
           /\ c.checked = c.found + c.not_found + c.mismatch + c.unavailable
           /\ c.changed <= c.found
           /\ c.checked <= Limit
           /\ stopped = None => c.checked = night.due
           /\ stopped = "limit" => c.checked = Limit /\ night.due > Limit
           /\ stopped = "shutdown" => c.checked < night.due
           /\ stopped = "conaf_unavailable" => c.unavailable >= StopAfter
PROOF
<1> DEFINE c == night.counts
           left == Cardinality(night.left)
<1>0. night \in Night /\ c \in Counts /\ night.due \in Nat /\ Limit \in Nat
  BY ConafAssumption DEF Types, TypeOK, Night
<1>1. /\ c.checked \in Nat /\ c.found \in Nat /\ c.not_found \in Nat /\ c.mismatch \in Nat
      /\ c.unavailable \in Nat /\ c.changed \in Nat
  BY <1>0 DEF Counts
<1>2. PassRight /\ InFlight = 0
  BY DEF LoopEnded, NightInv, InFlight
<1>3. /\ c.checked = c.found + c.not_found + c.mismatch + c.unavailable
      /\ c.changed <= c.found
  BY <1>1, <1>2 DEF PassRight, AddsUp
<1>4. IsFiniteSet(night.left) /\ left \in Nat
  <2>1. night.left \subseteq Numbers
    BY <1>0 DEF Night
  <2> QED
    BY <2>1, ConafAssumption, FS_Subset, FS_CardinalityType
<1>5. left = 0 <=> night.left = {}
  BY <1>4, FS_EmptySet
<1>6. left + c.checked = IF night.due > Limit THEN Limit ELSE night.due
  BY <1>2 DEF PassRight
<1>7. /\ None # "limit" /\ None # "shutdown" /\ None # "conaf_unavailable"
  BY NoneAssumption
<1>8. /\ night.reason = None => night.left = {}
      /\ night.reason = "shutdown" => night.left # {}
      /\ night.reason # "limit"
      /\ night.reason = "conaf_unavailable" => c.unavailable >= StopAfter
  BY <1>2, <1>7 DEF PassRight, LoopEnded
<1> HIDE DEF c, left
<1>9. c.checked <= Limit
  BY <1>0, <1>1, <1>4, <1>6
<1>10. stopped = None => c.checked = night.due
  BY <1>0, <1>1, <1>4, <1>5, <1>6, <1>7, <1>8
<1>11. stopped = "limit" => c.checked = Limit /\ night.due > Limit
  BY <1>0, <1>1, <1>4, <1>5, <1>6, <1>7, <1>8
<1>12. stopped = "shutdown" => c.checked < night.due
  BY <1>0, <1>1, <1>4, <1>5, <1>6, <1>7, <1>8
<1>13. stopped = "conaf_unavailable" => c.unavailable >= StopAfter
  BY <1>7, <1>8
<1> QED
  BY <1>3, <1>9, <1>10, <1>11, <1>12, <1>13 DEF c

(* The run of the pass gets its counters; it is now the last finished one. *)
LEMMA TableFinish ==
    ASSUME Types, NightInv, TableInv, finish_run
    PROVE  TableInv'
PROOF
<1> DEFINE len == Len(runs)
<1>0. runs \in Seq(Run) /\ len \in Nat /\ DOMAIN runs = 1 .. len /\ night.on /\ LoopEnded
  BY DEF Types, TypeOK, finish_run, LoopEnded
<1>1. runs # <<>> /\ len \in 1 .. len
  BY <1>0 DEF Types, RunOpen
<1>2. PICK stopped :
        /\ stopped = IF night.reason = None /\ night.due > Limit THEN "limit" ELSE night.reason
        /\ runs' = [runs EXCEPT ![len] = [@ EXCEPT !.finished = TRUE, !.counts = night.counts,
                                                   !.stopped = stopped]]
  BY DEF finish_run
<1>3. now' = now /\ ~night'.on
  BY IdleTypes DEF finish_run
<1>4. runs[len] \in Run /\ runs[len].due = night.due /\ ~runs[len].finished
  BY <1>0, <1>1 DEF TableInv, OpenRun
<1> DEFINE new == [runs[len] EXCEPT !.finished = TRUE, !.counts = night.counts, !.stopped = stopped]
<1>5. /\ new.finished /\ new.counts = night.counts /\ new.stopped = stopped
      /\ new.due = night.due /\ new.day = runs[len].day
  BY <1>4 DEF Run
<1>6. runs' = [runs EXCEPT ![len] = new]
  BY <1>2
<1> HIDE DEF new
<1>7. /\ DOMAIN runs' = 1 .. len /\ Len(runs') = len /\ runs'[len] = new
      /\ \A i \in 1 .. len : i # len => runs'[i] = runs[i]
  <2>1. runs' \in Seq(Run)
    BY <1>1, RunTypes
  <2>2. DOMAIN runs' = DOMAIN runs
    BY <1>6
  <2>3. runs'[len] = new /\ \A i \in 1 .. len : i # len => runs'[i] = runs[i]
    BY <1>0, <1>1, <1>6
  <2>4. DOMAIN runs' = 1 .. Len(runs') /\ Len(runs') \in Nat
    BY <2>1
  <2>5. Len(runs') = len
    BY <1>0, <2>2, <2>4
  <2> QED
    BY <1>0, <2>2, <2>3, <2>5
<1>8. \A i \in 1 .. len : runs'[i].day = runs[i].day /\ runs[i].day \in Nat
  BY <1>0, <1>5, <1>7, RunsTyped
<1>9. OpenRun' /\ FirstOfItsDay'
  BY <1>3 DEF OpenRun, FirstOfItsDay
<1>10. RunsAddUp'
  <2>1. ASSUME NEW i \in 1 .. len, i # len, runs'[i].finished PROVE runs'[i] = runs[i] /\ runs[i].finished
    BY <1>7, <2>1
  <2>2. /\ new.counts.checked = new.counts.found + new.counts.not_found + new.counts.mismatch
                                + new.counts.unavailable
        /\ new.counts.changed <= new.counts.found
        /\ new.counts.checked <= Limit
        /\ new.stopped = None => new.counts.checked = new.due
        /\ new.stopped = "limit" => new.counts.checked = Limit /\ new.due > Limit
        /\ new.stopped = "shutdown" => new.counts.checked < new.due
        /\ new.stopped = "conaf_unavailable" => new.counts.unavailable >= StopAfter
    BY <1>0, <1>2, <1>5, FinishAddsUp
  <2> QED
    BY <1>0, <1>7, <2>1, <2>2 DEF TableInv, RunsAddUp
<1>11. DaysInOrder'
  <2>1. DayOf(now)' = DayOf(now)
    BY <1>3 DEF DayOf
  <2> QED
    BY <1>0, <1>7, <1>8, <2>1 DEF TableInv, DaysInOrder
<1>12. FinishedHasLast'
  <2>1. runs'[len].finished /\ len \in DOMAIN runs' /\ \A j \in DOMAIN runs' : ~(j > len)
    <3>1. \A j \in 1 .. len : ~(j > len)
      BY <1>0
    <3>2. runs'[len].finished
      BY <1>5, <1>7, Zenon
    <3> QED
      BY <1>1, <1>7, <3>1, <3>2
  <2>2. len \in LastFinished'
    BY <2>1 DEF LastFinished
  <2> QED
    BY <2>2 DEF FinishedHasLast
<1>13. OneFinishedRunPerDay'
  <2>1. ASSUME NEW i \in 1 .. len, i # len, runs'[i].finished
        PROVE  runs'[i].day # runs'[len].day
    <3>1. runs[i].finished
      BY <1>7, <2>1
    <3>2. runs[i].day < runs[len].day
      BY <1>0, <3>1 DEF TableInv, FirstOfItsDay
    <3> QED
      BY <1>1, <1>8, <3>2
  <2>2. ASSUME NEW i \in 1 .. len, NEW j \in 1 .. len, i # len, j # len, i # j,
               runs'[i].finished, runs'[j].finished
        PROVE  runs'[i].day # runs'[j].day
    BY <1>0, <1>7, <2>2 DEF TableInv, OneFinishedRunPerDay
  <2> QED
    BY <1>7, <2>1, <2>2 DEF OneFinishedRunPerDay
<1> QED
  BY <1>9, <1>10, <1>11, <1>12, <1>13 DEF TableInv

(* The runs table is true: its types, counters that add up to what each pass did, and   *)
(* one finished pass a day (RunsAreTrue: start_run, refresh_due and finish_run of       *)
(* conaf_refresh, and the guard of run_forever).                                        *)
THEOREM RunsCorrect == Spec => []RunsAreTrue
PROOF
<1>1. Init => TableInv
  <2> SUFFICES ASSUME Init PROVE TableInv
    OBVIOUS
  <2>1. ~night.on /\ DOMAIN runs = {}
    <3>1. ~night.on
      BY IdleTypes DEF Init
    <3>2. DOMAIN <<>> = {}
      OBVIOUS
    <3> QED
      BY <3>1, <3>2 DEF Init
  <2>2. OpenRun /\ FirstOfItsDay
    BY <2>1 DEF OpenRun, FirstOfItsDay
  <2>3. RunsAddUp /\ DaysInOrder /\ FinishedHasLast /\ OneFinishedRunPerDay
    BY <2>1 DEF RunsAddUp, DaysInOrder, FinishedHasLast, OneFinishedRunPerDay
  <2> QED
    BY <2>2, <2>3 DEF TableInv
<1>2. Types /\ NightInv /\ TableInv /\ [Next]_vars => TableInv'
  <2> SUFFICES ASSUME Types, NightInv, TableInv, [Next]_vars PROVE TableInv'
    OBVIOUS
  <2>1. CASE UNCHANGED vars
    BY <2>1, TableKept DEF vars
  <2>2. CASE Next
    BY <2>2, QuietSteps, TableKept, TableTick, TableFinish, TableStart
  <2> QED
    BY <2>1, <2>2
<1>3. Types /\ TableInv => RunsAreTrue
  BY DEF Types, TableInv, RunsAreTrue
<1> QED
  BY <1>1, <1>2, <1>3, TypesInvariant, NightInvariant, PTL DEF Spec

=============================================================================
