------------------------------- MODULE Conaf -------------------------------
(***************************************************************************)
(* Estado CONAF: the stored answers of CONAF's public page (conaf_store),  *)
(* the client that asks one question at a time (conaf), the requests that  *)
(* read and refresh one number (routers/conaf) and the nightly refresh     *)
(* inside the application (conaf_refresh).                                 *)
(*                                                                         *)
(* A thread is a request or the nightly pass.  A lookup waits for the      *)
(* client's lock, asks, releases the lock, and only then saves its answer  *)
(* in a transaction of its own, so answers may be stored in another order  *)
(* than they were given.  Time is counted in ticks, Day of them to a day   *)
(* in Chile.                                                               *)
(***************************************************************************)
EXTENDS Integers, Sequences, FiniteSets

CONSTANTS
    Numbers,        \* solicitud numbers, as integers in the order of sorted()
    Collected,      \* the sets collect_known_numbers may return
    Viewed,         \* the numbers that requests ask for
    Requests,       \* requests, each made once
    Nightly,        \* the thread of the nightly pass
    Estados,        \* the estados CONAF can print
    Pages,          \* per number, the pages CONAF answers in the instance
    None,           \* SQL NULL, and "no row"
    Day, RunAfter,          \* ticks to a day; the hour from which the pass runs
    RefreshAfter, RetryAfter, ManualEvery, SkipWithin, BadgeFor,    \* ages, in ticks
    Limit, StopAfter,       \* MAX_PER_RUN and STOP_AFTER_UNAVAILABLE
    MaxTime, MaxFaults      \* bounds of the instance

\* One answer of CONAF: ConafLookup with the fields the properties tell apart.
\* A page that is refused, too long, misshapen or not read is "unavailable".
Lookup ==
    [status : {"found"}, estado : Estados \cup {None}]
        \cup [status : {"not_found", "mismatch", "unavailable"}, estado : {None}]

Unavailable == [status |-> "unavailable", estado |-> None]

\* A page as the client tells pages apart: whether it came with status 200 and
\* within the size limit, has the text of an unknown number, has a first row of
\* six cells, and the solicitud and estado of that row.
Page == [accepted : BOOLEAN, unknown : BOOLEAN, shaped : BOOLEAN,
         solicitud : Numbers \cup {None}, estado : Estados \cup {None}]

\* What the client makes of the page it read for a number.
parse_conaf_page(numero, page) ==
    CASE ~page.accepted -> Unavailable
      [] page.accepted /\ page.unknown -> [status |-> "not_found", estado |-> None]
      [] page.accepted /\ ~page.unknown /\ ~page.shaped -> Unavailable
      [] page.accepted /\ ~page.unknown /\ page.shaped ->
            IF page.solicitud = numero
            THEN [status |-> "found", estado |-> page.estado]
            ELSE [status |-> "mismatch", estado |-> None]

ASSUME ConafAssumption ==
    /\ Pages \in [Numbers -> SUBSET Page]
    /\ Numbers \subseteq Nat /\ IsFiniteSet(Numbers) /\ Viewed \subseteq Numbers
    /\ Collected \subseteq SUBSET Numbers
    /\ Nightly \notin Requests
    /\ Day \in Nat \ {0} /\ RunAfter \in 0..(Day - 1)
    /\ {RefreshAfter, RetryAfter, ManualEvery, SkipWithin, BadgeFor} \subseteq Nat
    /\ {Limit, StopAfter} \subseteq Nat \ {0}
    /\ {MaxTime, MaxFaults} \subseteq Nat

VARIABLES
    now,        \* the clock
    row,        \* platform.conaf_solicitud, by number
    cambio,     \* platform.conaf_cambio
    runs,       \* platform.conaf_run, in insertion order
    lock,       \* the thread that holds the client's lock
    rowLock,    \* per number, the transaction that holds its row
    th,         \* what each thread is doing
    night,      \* the local variables of refresh_due
    stop,       \* the stop event of the application's lifespan
    faults      \* crashes, redeploys and database failures so far

vars == <<now, row, cambio, runs, lock, rowLock, th, night, stop, faults>>

Threads == Requests \cup {Nightly}
Times == 0..MaxTime

Row == [status : {"found", "not_found", "mismatch", "unavailable"},
        estado : Estados \cup {None}, checked_at : Times,
        found : BOOLEAN, changed_at : Times \cup {None}]

Cambio == [numero : Numbers, before : Estados \cup {None}, after : Estados, at : Times]

Counts == [checked : Nat, found : Nat, not_found : Nat, mismatch : Nat,
           unavailable : Nat, changed : Nat]

NoCounts == [checked |-> 0, found |-> 0, not_found |-> 0, mismatch |-> 0,
             unavailable |-> 0, changed |-> 0]

Reasons == {None, "conaf_unavailable", "limit", "shutdown"}

\* A run keeps the day it started on and whether it has its finished_at.
Run == [day : Nat, finished : BOOLEAN, due : Nat,
        counts : Counts, stopped : Reasons]

\* No value of a column is NULL.
ASSUME NoneAssumption ==
    /\ None \notin Estados /\ None \notin Row /\ None \notin Times /\ None \notin Threads
    /\ None \notin {"conaf_unavailable", "limit", "shutdown"}

Idle == [pc |-> "idle", numero |-> None, answer |-> None, seen |-> None, at |-> None]

\* A request that has answered is over; the pass goes on with its next number.
Ended(t) == IF t = Nightly THEN Idle ELSE [Idle EXCEPT !.pc = "done"]

Asleep == [on |-> FALSE, left |-> {}, due |-> 0, streak |-> 0,
           counts |-> NoCounts, reason |-> None]

TypeOK ==
    /\ now \in Times
    /\ row \in [Numbers -> Row \cup {None}]
    /\ cambio \subseteq Cambio
    /\ runs \in Seq(Run)
    /\ lock \in Threads \cup {None}
    /\ rowLock \in [Numbers -> Threads \cup {None}]
    /\ th \in [Threads ->
          [pc : {"idle", "want", "fetch", "answered", "selecting", "writing", "done"},
           numero : Numbers \cup {None}, answer : Lookup \cup {None},
           seen : Row \cup {None}, at : Times \cup {None}]]
    /\ night \in [on : BOOLEAN, left : SUBSET Numbers, due : Nat, streak : Nat,
                  counts : Counts, reason : Reasons]
    /\ stop \in BOOLEAN
    /\ faults \in 0..MaxFaults

Init ==
    /\ now = 0
    /\ row = [n \in Numbers |-> None]
    /\ cambio = {}
    /\ runs = <<>>
    /\ lock = None
    /\ rowLock = [n \in Numbers |-> None]
    /\ th = [t \in Threads |-> Idle]
    /\ night = Asleep
    /\ stop = FALSE
    /\ faults = 0

Tick ==
    /\ now < MaxTime
    /\ now' = now + 1
    /\ UNCHANGED <<row, cambio, runs, lock, rowLock, th, night, stop, faults>>

-----------------------------------------------------------------------------
(* Ages of a stored answer *)

needs_refresh(r, at) ==
    \/ r = None
    \/ /\ r # None
       /\ at - r.checked_at > (IF r.status = "unavailable" THEN RetryAfter ELSE RefreshAfter)

ManualDue(r, at) == r = None \/ (r # None /\ at - r.checked_at >= ManualEvery)

recently_changed(r, at) == r.changed_at # None /\ at - r.changed_at <= BadgeFor

due_numbers(known, at) == {n \in known : row[n] = None \/ row[n].checked_at < at - SkipWithin}

\* The first k numbers of a set in the order of sorted().
FirstOf(S, k) == {n \in S : Cardinality({m \in S : m < n}) < k}

-----------------------------------------------------------------------------
(* The client and the store, for any thread *)

\* A lookup that needs no answer of CONAF (the stored one is young) leaves no trace.
get_solicitud(r, n) ==
    /\ ~stop /\ th[r].pc = "idle"
    /\ needs_refresh(row[n], now)
    /\ th' = [th EXCEPT ![r] = [Idle EXCEPT !.pc = "want", !.numero = n]]
    /\ UNCHANGED <<now, row, cambio, runs, lock, rowLock, night, stop, faults>>

refresh_solicitud(r, n) ==
    /\ ~stop /\ th[r].pc = "idle"
    /\ ManualDue(row[n], now)
    /\ th' = [th EXCEPT ![r] = [Idle EXCEPT !.pc = "want", !.numero = n]]
    /\ UNCHANGED <<now, row, cambio, runs, lock, rowLock, night, stop, faults>>

lookup_acquire(t) ==
    /\ th[t].pc = "want" /\ lock = None
    /\ lock' = t
    /\ th' = [th EXCEPT ![t].pc = "fetch"]
    /\ UNCHANGED <<now, row, cambio, runs, rowLock, night, stop, faults>>

\* What the nightly pass adds to its counters when a number gave no answer.
NoAnswer(t) ==
    night' = IF t = Nightly
             THEN [night EXCEPT !.counts.unavailable = @ + 1]
             ELSE night

\* ConafBusyError: the lock was not free within the wait.
lookup_busy(t) ==
    /\ th[t].pc = "want" /\ lock # None
    /\ th' = [th EXCEPT ![t] = Ended(t)]
    /\ NoAnswer(t)
    /\ UNCHANGED <<now, row, cambio, runs, lock, rowLock, stop, faults>>

\* The page is read, or the request failed in a way the client expects; the
\* lock is released in both cases.
lookup_answer(t) ==
    /\ th[t].pc = "fetch"
    /\ lock' = None
    /\ \E answer \in {parse_conaf_page(th[t].numero, page) : page \in Pages[th[t].numero]}
                        \cup {Unavailable} :
          th' = [th EXCEPT ![t].pc = "answered", ![t].answer = answer]
    /\ UNCHANGED <<now, row, cambio, runs, rowLock, night, stop, faults>>

\* Any other exception passes through the finally that releases the lock.
lookup_raises(t) ==
    /\ th[t].pc = "fetch" /\ faults < MaxFaults
    /\ lock' = None
    /\ th' = [th EXCEPT ![t] = Ended(t)]
    /\ NoAnswer(t)
    /\ faults' = faults + 1
    /\ UNCHANGED <<now, row, cambio, runs, rowLock, stop>>

\* The transaction that saves the answer opens: another lookup may have asked and
\* saved since.  The clock is read before the row is waited for.
save_begin(t) ==
    /\ th[t].pc = "answered"
    /\ th' = [th EXCEPT ![t].pc = "selecting", ![t].at = now]
    /\ UNCHANGED <<now, row, cambio, runs, lock, rowLock, night, stop, faults>>

\* Mutant: the row is read without FOR UPDATE.
save_select_unlocked(t) ==
    /\ th[t].pc = "selecting"
    /\ th' = [th EXCEPT ![t].pc = "writing", ![t].seen = row[th[t].numero]]
    /\ UNCHANGED <<now, row, cambio, runs, lock, rowLock, night, stop, faults>>

\* SELECT ... FOR UPDATE: a row that is there is locked, a row that is not
\* there cannot be.
save_select(t) ==
    LET n == th[t].numero IN
    /\ th[t].pc = "selecting"
    /\ row[n] # None => rowLock[n] = None
    /\ rowLock' = [rowLock EXCEPT ![n] = IF row[n] # None THEN t ELSE @]
    /\ th' = [th EXCEPT ![t].pc = "writing", ![t].seen = row[n]]
    /\ UNCHANGED <<now, row, cambio, runs, lock, night, stop, faults>>

EstadoChanged(seen, answer) ==
    /\ answer.status = "found"
    /\ seen # None
    /\ seen.found
    /\ answer.estado \notin {seen.estado, None}

\* Mutant: the upsert compares with the row it meets, not with the one seen.
UpsertedByMet(old, seen, answer, at) ==
    IF answer.status = "found"
    THEN [status |-> "found", estado |-> answer.estado, checked_at |-> at, found |-> TRUE,
          changed_at |-> IF EstadoChanged(old, answer) THEN at
                         ELSE IF old # None THEN old.changed_at ELSE None]
    ELSE [status |-> answer.status, estado |-> IF old # None THEN old.estado ELSE None,
          checked_at |-> at, found |-> old # None /\ old.found,
          changed_at |-> IF old # None THEN old.changed_at ELSE None]

\* What the upsert leaves: an answer that is not found keeps the found data of
\* the row it meets, which need not be the row the transaction has seen.
Upserted(old, seen, answer, at) ==
    IF answer.status = "found"
    THEN [status |-> "found", estado |-> answer.estado, checked_at |-> at, found |-> TRUE,
          changed_at |-> IF EstadoChanged(seen, answer) THEN at
                         ELSE IF seen # None THEN seen.changed_at ELSE None]
    ELSE IF old = None
    THEN [status |-> answer.status, estado |-> None, checked_at |-> at,
          found |-> FALSE, changed_at |-> None]
    ELSE [old EXCEPT !.status = answer.status, !.checked_at = at]

\* The nightly pass counts the answer it has stored, and stops after a number of
\* unavailable ones in a row.
Counted(status, changed) ==
    [night.counts EXCEPT ![status] = @ + 1, !.changed = @ + (IF changed THEN 1 ELSE 0)]

Streak(status) == IF status = "unavailable" THEN night.streak + 1 ELSE 0

Tally(status, changed) ==
    [night EXCEPT !.counts = Counted(status, changed),
                  !.streak = Streak(status),
                  !.reason = IF Streak(status) >= StopAfter THEN "conaf_unavailable" ELSE None]

save_write(t) ==
    LET n == th[t].numero
        answer == th[t].answer
        changed == EstadoChanged(th[t].seen, answer)
    IN
    /\ th[t].pc = "writing"
    /\ rowLock[n] \in {None, t}
    /\ row' = [row EXCEPT ![n] = Upserted(@, th[t].seen, answer, th[t].at)]
    /\ cambio' = IF changed
                 THEN cambio \cup {[numero |-> n, before |-> th[t].seen.estado,
                                    after |-> answer.estado, at |-> th[t].at]}
                 ELSE cambio
    /\ rowLock' = [rowLock EXCEPT ![n] = None]
    /\ th' = [th EXCEPT ![t] = Ended(t)]
    /\ night' = IF t = Nightly THEN Tally(answer.status, changed) ELSE night
    /\ UNCHANGED <<now, runs, lock, stop, faults>>

\* The database fails under the transaction, or cannot open it: nothing is saved.
save_fails(t) ==
    LET n == th[t].numero IN
    /\ th[t].pc \in {"answered", "selecting", "writing"} /\ faults < MaxFaults
    /\ rowLock' = [rowLock EXCEPT ![n] = IF @ = t THEN None ELSE @]
    /\ th' = [th EXCEPT ![t] = Ended(t)]
    /\ NoAnswer(t)
    /\ faults' = faults + 1
    /\ UNCHANGED <<now, row, cambio, runs, lock, stop>>

-----------------------------------------------------------------------------
(* The nightly pass *)

DayOf(at) == at \div Day

\* The last finished run, by start and id (ids follow the starts).
LastFinished ==
    {i \in DOMAIN runs : runs[i].finished /\ \A j \in DOMAIN runs : j > i => ~runs[j].finished}

\* Mutant: a run of today does not count, only a later one.
ran_after_today == \E i \in LastFinished : runs[i].day > DayOf(now)

\* Mutant: a run that was killed counts as today's.
started_today == runs # <<>> /\ runs[Len(runs)].day >= DayOf(now)

\* The last finished run is of today.
already_ran_today == \E i \in LastFinished : runs[i].day >= DayOf(now)

start_run(known) ==
    LET due == due_numbers(known, now) IN
    /\ ~night.on /\ ~stop
    /\ now % Day >= RunAfter
    /\ ~already_ran_today
    /\ runs' = Append(runs, [day |-> DayOf(now), finished |-> FALSE, due |-> Cardinality(due),
                             counts |-> NoCounts, stopped |-> None])
    /\ night' = [Asleep EXCEPT !.on = TRUE, !.due = Cardinality(due), !.left = FirstOf(due, Limit)]
    /\ UNCHANGED <<now, row, cambio, lock, rowLock, th, stop, faults>>

AtTopOfLoop == night.on /\ th[Nightly].pc = "idle" /\ night.reason = None

refresh_next ==
    /\ AtTopOfLoop
    /\ \E n \in FirstOf(night.left, 1) :
          IF stop
          THEN /\ night' = [night EXCEPT !.reason = "shutdown"]
               /\ UNCHANGED th
          ELSE /\ night' = [night EXCEPT !.left = @ \ {n}, !.counts.checked = @ + 1]
               /\ th' = [th EXCEPT ![Nightly] = [Idle EXCEPT !.pc = "want", !.numero = n]]
    /\ UNCHANGED <<now, row, cambio, runs, lock, rowLock, stop, faults>>

LoopEnded ==
    /\ night.on /\ th[Nightly].pc = "idle"
    /\ night.reason # None \/ night.left = {}

finish_run ==
    /\ LoopEnded
    /\ runs' = [runs EXCEPT ![Len(runs)] =
                  [@ EXCEPT !.finished = TRUE, !.counts = night.counts,
                            !.stopped = IF night.reason = None /\ night.due > Limit
                                        THEN "limit" ELSE night.reason]]
    /\ night' = Asleep
    /\ UNCHANGED <<now, row, cambio, lock, rowLock, th, stop, faults>>

\* finish_run fails: the loop logs it, and the run stays unfinished.
finish_run_fails ==
    /\ LoopEnded /\ faults < MaxFaults
    /\ night' = Asleep
    /\ faults' = faults + 1
    /\ UNCHANGED <<now, row, cambio, runs, lock, rowLock, th, stop>>

-----------------------------------------------------------------------------
(* The life of the application *)

\* Requests are drained before the lifespan ends; the pass is only told.
lifespan_stop ==
    /\ ~stop /\ faults < MaxFaults
    /\ \A r \in Requests : th[r].pc \in {"idle", "done"}
    /\ stop' = TRUE
    /\ faults' = faults + 1
    /\ UNCHANGED <<now, row, cambio, runs, lock, rowLock, th, night>>

lifespan_start ==
    /\ stop /\ ~night.on
    /\ stop' = FALSE
    /\ UNCHANGED <<now, row, cambio, runs, lock, rowLock, th, night, faults>>

\* The process is killed and started again.
Killed ==
    /\ faults < MaxFaults
    /\ lock' = None
    /\ rowLock' = [n \in Numbers |-> None]
    /\ th' = [t \in Threads |-> IF th[t].pc = "idle" THEN Idle ELSE Ended(t)]
    /\ night' = Asleep
    /\ stop' = FALSE
    /\ faults' = faults + 1
    /\ UNCHANGED <<now, row, cambio, runs>>

-----------------------------------------------------------------------------
ThreadStep(t) ==
    \/ lookup_acquire(t)
    \/ lookup_busy(t)
    \/ lookup_answer(t)
    \/ save_begin(t)
    \/ save_select(t)
    \/ save_write(t)

NightStep == refresh_next \/ finish_run \/ (\E known \in Collected : start_run(known))

Next ==
    \/ Tick
    \/ \E r \in Requests, n \in Viewed : get_solicitud(r, n) \/ refresh_solicitud(r, n)
    \/ \E t \in Threads : ThreadStep(t) \/ lookup_raises(t) \/ save_fails(t)
    \/ NightStep
    \/ finish_run_fails
    \/ lifespan_stop
    \/ lifespan_start
    \/ Killed

Spec == Init /\ [][Next]_vars

\* Threads are scheduled, fetches time out, and the loop wakes every 600 s.
FairSpec ==
    /\ Spec
    /\ \A t \in Threads : WF_vars(ThreadStep(t))
    /\ WF_vars(NightStep)
    /\ WF_vars(lifespan_start)
    /\ WF_vars(Tick)

-----------------------------------------------------------------------------
(* Properties *)

\* The counters a finished run leaves for the Consola add up: every number it
\* took is counted once by its outcome (a busy client and a failed save too),
\* and the reason it stopped is the one its counters show.
RunsAddUp ==
    \A i \in DOMAIN runs :
        LET c == runs[i].counts IN
        runs[i].finished =>
            /\ c.checked = c.found + c.not_found + c.mismatch + c.unavailable
            /\ c.changed <= c.found
            /\ c.checked <= Limit
            /\ runs[i].stopped = None => c.checked = runs[i].due
            /\ runs[i].stopped = "limit" => c.checked = Limit /\ runs[i].due > Limit
            /\ runs[i].stopped = "shutdown" => c.checked < runs[i].due
            /\ runs[i].stopped = "conaf_unavailable" => c.unavailable >= StopAfter

\* The pass runs once a day: two finished runs never started on one day, also
\* when runs were killed, stopped by a redeploy or lasted past midnight.
OneFinishedRunPerDay ==
    \A i, j \in DOMAIN runs :
        /\ i # j /\ runs[i].finished /\ runs[j].finished
        => runs[i].day # runs[j].day

\* The runs table tells the Consola the truth: one finished pass a day, and counters
\* that add up to what it did.
RunsAreTrue == TypeOK /\ RunsAddUp /\ OneFinishedRunPerDay

\* A change badge is never shown without its history: the number has a stored
\* change of the age the badge allows, whatever lookups met in between.
BadgeHasItsChange ==
    \A n \in Numbers :
        row[n] # None /\ recently_changed(row[n], now) =>
            \E c \in cambio : c.numero = n /\ now - c.at <= BadgeFor

\* A good read is never erased: once a number was found, no interleaving of
\* lookups, failures and crashes loses its found data, and only another found
\* answer changes its estado.
FoundDataKept ==
    \A n \in Numbers :
        row[n] # None /\ row[n].found =>
            /\ row'[n] # None /\ row'[n].found
            /\ row'[n].status # "found" => row'[n].estado = row[n].estado

\* A thread that looked for the row of n before there was one.
LookedBeforeFirst(n) ==
    \E t \in Threads : th[t].pc = "writing" /\ th[t].numero = n /\ th[t].seen = None

\* Every change from one estado to another is recorded with the estado it
\* replaced, whatever lookups run at the same time; the one exception is the
\* lookup that found no row to lock because the number had never been stored.
ChangesRecorded ==
    \A n \in Numbers :
        /\ row[n] # None /\ row[n].found
        /\ row'[n].estado \notin {row[n].estado, None}
        => \/ [numero |-> n, before |-> row[n].estado, after |-> row'[n].estado,
               at |-> row'[n].checked_at] \in cambio'
           \/ LookedBeforeFirst(n)

\* What CONAF answered once is kept until it answers otherwise, and then both answers
\* are on record.
EstadoKept == [][FoundDataKept /\ ChangesRecorded]_vars

\* The client's lock is always released: no failed or killed lookup makes
\* CONAF busy for ever.
LockReleased == lock # None ~> lock = None

\* A day on which the application is up after the hour of the pass ends with a
\* finished run of that day: the pass of the last day modelled always happens.
NightlyHappens ==
    <>(\E i \in DOMAIN runs : runs[i].finished /\ runs[i].day = DayOf(MaxTime))

\* CONAF never blocks the application: its lock comes free, and the pass of the day is
\* made.
PassesGoOn == LockReleased /\ NightlyHappens

=============================================================================
