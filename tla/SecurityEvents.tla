--------------------------- MODULE SecurityEvents ---------------------------
(***************************************************************************)
(* The recorder of security events: requests note them on the event loop,  *)
(* the maintenance task drains the two bounded buffers and writes the rows *)
(* in a thread, and the application's shutdown asks it for a last flush    *)
(* (security_events, security_middleware, main._lifespan).                 *)
(***************************************************************************)
EXTENDS Integers, Sequences, FiniteSets, SequencesExt

CONSTANTS
    Notes,          \* notes raised by requests, each once
    Callers,        \* (client address, path) pairs of bare 401 answers
    BadRows,        \* notes the database rejects, such as one of a user now gone
    MaxBuffered,
    MaxRefused,     \* bound on the 401 answers
    MaxMinute       \* bound on the minutes

ASSUME SecurityAssumption == BadRows \subseteq Notes /\ {MaxBuffered, MaxRefused, MaxMinute} \subseteq Nat

VARIABLES
    noted,      \* SecurityEventRecorder._noted
    refused,    \* _auth_required: per caller and minute, how many
    dropped,    \* everything turned away by a full buffer
    minute,     \* the clock
    loop,       \* where run_maintenance is
    batch,      \* the rows its thread has still to write
    stored,     \* platform.security_event
    lost,       \* the rows no attempt could write
    outage,     \* whether some attempt met an unreachable database
    stop        \* where the task was when the application stopped

secVars == <<noted, refused, dropped, minute, loop, batch, stored, lost, outage, stop>>

Keys == Callers \X (0..MaxMinute)
NoteRow(n) == [kind |-> "note", note |-> n]
CountRow(k, c) == [kind |-> "count", caller |-> k, count |-> c]

EventRow == [kind : {"note"}, note : Notes] \cup [kind : {"count"}, caller : Keys, count : Nat]

SecTypeOK ==
    /\ noted \in Seq(Notes) /\ Len(noted) <= MaxBuffered
    /\ DOMAIN refused \subseteq Keys /\ Cardinality(DOMAIN refused) <= MaxBuffered
    /\ \A k \in DOMAIN refused : refused[k] \in Nat \ {0}
    /\ dropped \in [notes : SUBSET Notes, refused : Nat]
    /\ batch \in Seq(EventRow) /\ stored \in Seq(EventRow) /\ lost \in Seq(EventRow)
    /\ minute \in 0..MaxMinute
    /\ loop \in {"waiting", "batch", "rows", "purge", "ended"}
    /\ stop \in {"no", "waiting", "batch", "rows", "purge", "ended"}

SecInit ==
    /\ noted = <<>> /\ refused = <<>> /\ dropped = [notes |-> {}, refused |-> 0]
    /\ minute = 0 /\ loop = "waiting" /\ batch = <<>>
    /\ stored = <<>> /\ lost = <<>> /\ outage = FALSE /\ stop = "no"

Total(rows) ==
    FoldSeq(LAMBDA r, c : r.count + c, 0, SelectSeq(rows, LAMBDA r : r.kind = "count"))

Buffered == FoldFunction(LAMBDA c, d : c + d, 0, refused)

Refusals == Buffered + Total(batch) + Total(stored) + Total(lost) + dropped.refused

\* The notes among some rows.
Named(rows) == {r.note : r \in {q \in Range(rows) : q.kind = "note"}}

Seen == Range(noted) \cup dropped.notes \cup Named(batch \o stored \o lost)

NoRoom == Len(noted) >= MaxBuffered

\* observe of an answer with a note, while the application serves.
observe_note(n) ==
    /\ stop = "no" /\ n \notin Seen
    /\ IF NoRoom
       THEN dropped' = [dropped EXCEPT !.notes = @ \cup {n}] /\ UNCHANGED noted
       ELSE noted' = Append(noted, n) /\ UNCHANGED dropped
    /\ UNCHANGED <<refused, minute, loop, batch, stored, lost, outage, stop>>

\* observe of a bare 401.
observe_refusal(c) ==
    LET slot == <<c, minute>> IN
    /\ stop = "no" /\ Refusals < MaxRefused
    /\ IF slot \notin DOMAIN refused /\ Cardinality(DOMAIN refused) >= MaxBuffered
       THEN dropped' = [dropped EXCEPT !.refused = @ + 1] /\ UNCHANGED refused
       ELSE refused' = [k \in DOMAIN refused \cup {slot} |->
                           IF k # slot THEN refused[k]
                           ELSE IF slot \in DOMAIN refused THEN refused[slot] + 1 ELSE 1]
            /\ UNCHANGED dropped
    /\ UNCHANGED <<noted, minute, loop, batch, stored, lost, outage, stop>>

\* drain: both buffers become rows.
Drained ==
    /\ batch' = [i \in DOMAIN noted |-> NoteRow(noted[i])]
                    \o SetToSeq({CountRow(k, refused[k]) : k \in DOMAIN refused})
    /\ noted' = <<>> /\ refused' = <<>>

\* The wait ends, by the timeout or by the stop event, and the buffers are drained
\* on the loop.
wake ==
    /\ loop = "waiting"
    /\ loop' = "batch" /\ Drained
    /\ UNCHANGED <<dropped, minute, stored, lost, outage, stop>>

IsBad(r) == r.kind = "note" /\ r.note \in BadRows

Rejected(rows) == \E r \in rows : IsBad(r)

\* Mutant: one bad row costs the whole batch.
RetriesByNoRow(rows) == FALSE

\* A data error of several rows is retried row by row.
RetriesByRow(rows) == Rejected(rows) /\ Len(batch) > 1

\* What a rejected transaction leaves in the table: it is rolled back.
LeftByRejection(rows) == <<>>

\* write: one transaction for the whole batch.
write_batch ==
    LET rows == Range(batch) IN
    /\ loop = "batch"
    /\ \/ /\ ~Rejected(rows)
          /\ stored' = stored \o batch
          /\ batch' = <<>> /\ loop' = "purge" /\ UNCHANGED <<lost, outage>>
       \/ /\ Rejected(rows) /\ RetriesByRow(rows)
          /\ stored' = stored \o LeftByRejection(batch)
          /\ loop' = "rows" /\ UNCHANGED <<batch, lost, outage>>
       \/ /\ Rejected(rows) /\ ~RetriesByRow(rows)
          /\ lost' = lost \o batch
          /\ batch' = <<>> /\ loop' = "purge" /\ UNCHANGED <<stored, outage>>
       \/ /\ rows # {}
          /\ lost' = lost \o batch /\ outage' = TRUE
          /\ batch' = <<>> /\ loop' = "purge" /\ UNCHANGED stored
    /\ UNCHANGED <<noted, refused, dropped, minute, stop>>

\* write of one row of a rejected batch, in a transaction of its own.
write_row ==
    /\ loop = "rows" /\ batch # <<>>
    /\ \/ /\ ~Rejected({Head(batch)})
          /\ stored' = Append(stored, Head(batch)) /\ UNCHANGED <<lost, outage>>
       \/ /\ Rejected({Head(batch)})
          /\ lost' = Append(lost, Head(batch)) /\ UNCHANGED <<stored, outage>>
       \/ lost' = Append(lost, Head(batch)) /\ outage' = TRUE /\ UNCHANGED stored
    /\ batch' = Tail(batch)
    /\ loop' = IF Len(batch) = 1 THEN "purge" ELSE "rows"
    /\ UNCHANGED <<noted, refused, dropped, minute, stop>>

\* Mutant: the task ends after its first round.
EndedAfterPurge == "ended"

\* Where the task goes on after a purge that failed, and after one that did not.
AfterPurge == IF stop = "no" THEN "waiting" ELSE "ended"

\* purge_expired_security_events, when it is due; its failure is only logged.  The
\* rows of an instance are all younger than the retention.
purge ==
    /\ loop = "purge"
    /\ loop' = AfterPurge
    /\ UNCHANGED <<noted, refused, dropped, minute, batch, stored, lost, outage, stop>>

\* Requests are over and the lifespan sets the stop event.
stop_maintenance ==
    /\ stop = "no" /\ stop' = loop
    /\ UNCHANGED <<noted, refused, dropped, minute, loop, batch, stored, lost, outage>>

NextMinute ==
    /\ minute < MaxMinute /\ minute' = minute + 1
    /\ UNCHANGED <<noted, refused, dropped, loop, batch, stored, lost, outage, stop>>

run_maintenance == wake \/ write_batch \/ write_row \/ purge

SecNext ==
    \/ \E n \in Notes : observe_note(n)
    \/ \E c \in Callers : observe_refusal(c)
    \/ run_maintenance
    \/ stop_maintenance
    \/ NextMinute

\* The event loop keeps running the task and its thread answers.
SecSpec == SecInit /\ [][SecNext]_secVars /\ WF_secVars(run_maintenance)

-----------------------------------------------------------------------------
\* A note is in one place only: what was drained is not drained again, and a row
\* stored one by one is not stored with its batch too.
Once(rows) == \A i, j \in DOMAIN rows : rows[i].kind = "note" /\ rows[i] = rows[j] => i = j

InOnePlace ==
    LET rows == batch \o stored \o lost IN
    /\ IsInjective(noted) /\ Once(rows)
    /\ Range(noted) \cap Named(rows) = {}
    /\ dropped.notes \cap (Range(noted) \cup Named(rows)) = {}

\* A row is lost only if the database rejects it or could not be reached: a bad row
\* never takes the others of its batch with it (SecurityEventRecorder.write).
OnlyBadRowsLost == ~outage => \A r \in Range(lost) : IsBad(r)

\* When the application stops while the task sleeps, its last flush leaves nothing
\* in the buffers.  (A stop during a write ends the task after that write.)
StopFlushes == loop = "ended" /\ stop = "waiting" => noted = <<>> /\ refused = <<>>

\* Every note is accounted for: buffered within the limit, stored once, or lost for a
\* reason, and a stop leaves none behind.
NotesAccounted == SecTypeOK /\ InOnePlace /\ OnlyBadRowsLost /\ StopFlushes

\* No note vanishes without a trace: it goes from the buffer to a batch and from there to
\* the table or the logged losses, or was dropped by a full buffer.
NotesKept == [][Seen \subseteq Seen']_secVars

\* No 401 answer goes uncounted or is counted twice while it moves from the buffer
\* through the batch to the table.
RefusalsCounted ==
    [][Refusals' = Refusals \/ \E c \in Callers : observe_refusal(c)]_secVars

\* The task goes on whatever fails: what is buffered is taken out, or the
\* application stops.
BufferDrained == (noted # <<>> \/ refused # <<>>) ~> ((noted = <<>> /\ refused = <<>>) \/ stop # "no")

\* Refusals reach the table: none vanishes or is counted twice on its way there, and the
\* way does not end while the application runs.
RefusalsReachTable == NotesKept /\ RefusalsCounted /\ BufferDrained
=============================================================================
