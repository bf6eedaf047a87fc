-------------------------- MODULE BackgroundProofs --------------------------
(***************************************************************************)
(* Theorems about what goes on behind the answers, for any contents, tasks  *)
(* and casts of Ingestion and any notes, callers and limits of              *)
(* SecurityEvents.                                                         *)
(*                                                                         *)
(*   RecordedCorrect   RecordedIsTrue: the tables and the object store      *)
(*                     agree whatever fails, is killed or overlaps          *)
(*   NotesCorrect      NotesAccounted: a security note is in one place, and *)
(*                     is lost for a reason only                           *)
(*   NotesNeverVanish  NotesKept: and never in none                        *)
(*                                                                         *)
(* The invariant of Ingestion says what a transaction in progress holds:    *)
(* which tables it has written at each step (Written), that its rows are    *)
(* true already (RowRight), and that no key is in two rows, committed or    *)
(* not (Unique), which is what the waits of an insert are for.  The one of  *)
(* SecurityEvents says it of each of the five places a note may be (Apart)  *)
(* and what is left of the last round after a stop (LastRound).             *)
(***************************************************************************)
EXTENDS Ingestion, SecurityEvents, SequenceTheorems, FiniteSetTheorems, TLAPS

-----------------------------------------------------------------------------
(* Ingestion: the invariant *)

Script(s) == s.kind \in {"import", "dry-run"}

IsTask(s) ==
    s = [kind |-> s.kind, product |-> s.product, doc |-> s.doc, pc |-> s.pc, tx |-> s.tx,
         code |-> s.code, new |-> s.new, known |-> s.known, stat |-> s.stat, got |-> s.got]

(* Where a task of a kind can be. *)
PcRight(s) ==
    \/ s.pc \in Ended \cup {"start", "commit"}
    \/ s.kind = "upload" /\ s.pc \in {"check", "put", "publish", "meta", "system", "snapshot", "rows"}
    \/ s.kind = "forestry" /\ s.pc \in {"check", "put", "publish", "meta", "system", "snapshot", "family",
                                        "rows", "audit"}
    \/ s.kind = "project" /\ s.pc \in {"check", "find", "insert", "audit"}
    \/ Script(s) /\ s.pc \in {"others", "observe", "read", "reread", "extract", "system", "snapshot",
                              "family", "verify"}

(* Which tables the open transaction of a task has written. *)
Written(pc) ==
    CASE pc = "snapshot" -> {"system"}
      [] pc = "family" -> {"system", "asset", "snapshot", "observation"}
      [] pc \in {"rows", "verify"} -> {"system", "asset", "snapshot", "observation", "family"}
      [] pc = "commit" -> Tables
      [] OTHER -> {}

(* A row that is one's own has its task in its key; a snapshot is of bytes read whole, *)
(* and an uploaded one of bytes in the store.                                         *)
RowRight(r) ==
    /\ r.table \in Tables /\ r.by \in Tasks
    /\ r.table \in {"observation", "run", "job", "upload"} => r.key = r.by
    /\ r.table = "audit" => r.key[1] = r.by
    /\ r.table = "snapshot" => r.key[2] # Unset /\ (r.val # Unset => r.val \in Docs /\ file[r.val] = "whole")

TxRight(t, s) == \A r \in s.tx : RowRight(r) /\ r.by = t /\ r.table \in Written(s.pc)

(* What was imported before a projection began is still there. *)
KnownRight(s) ==
    s.kind = "project" =>
        /\ s.known => s.pc # "insert" /\ ~s.new
        /\ s.known => \E r \in db : r.table = "import" /\ r.key = s.doc
        /\ s.pc \in {"start", "check", "find"} => ~s.new

(* What a script has read, and what its transaction says of it. *)
ScriptRight(s) ==
    Script(s) =>
        /\ s.pc = "reread" => /\ s.got.mtime \in Nat /\ s.got.mtime <= source.mtime
                              /\ s.got.mtime = source.mtime => s.got = source
        /\ s.pc \in {"extract", "system", "snapshot"} => s.got \in Docs
        /\ \A r \in s.tx : r.table = "family" =>
              r.key = Traits[s.stat].family /\ r.val.layer = Traits[s.stat].layer
        /\ s.pc = "commit" =>
              /\ Traits[s.stat].family = Traits[Pinned].family
              /\ Traits[s.stat].layer = Traits[Pinned].layer
              /\ \A r \in s.tx : r.table = "published" => r.val = Traits[Pinned].family

StoredRight(s) == ~Script(s) /\ s.pc \in {"system", "snapshot"} => file[s.doc] = "whole"

TaskRight(t, s) ==
    /\ IsTask(s) /\ s.kind \in Kinds /\ s.doc \in Docs
    /\ s.code \in {0, 200, 404, 409, 413, 422, 500}
    /\ PcRight(s) /\ TxRight(t, s) /\ KnownRight(s) /\ ScriptRight(s) /\ StoredRight(s)

(* A committed row is of a task that is done, or the audit of one that was refused. *)
PinnedRow(r) ==
    /\ r.table = "published" => r.val = Traits[Pinned].family
    /\ r.table = "family" => r.key = Traits[Pinned].family /\ r.val.layer = Traits[Pinned].layer

CommittedRow(r, s) ==
    \/ s.pc = "done" /\ s.kind # "dry-run" /\ (Script(s) => PinnedRow(r))
    \/ /\ s.pc = "refused" /\ ~Script(s) /\ r.table = "audit"
       /\ r.key[2] \in {"import.validation.failed", "forestry.snapshot.upload_rejected"}

DbRight == \A r \in db : RowRight(r) /\ CommittedRow(r, task[r.by])

(* No key is in two rows, and nobody writes over another's. *)
SameKey(r, q) == r.table = q.table /\ r.key = q.key
Unique(S) == \A r, q \in S : SameKey(r, q) => r = q
AllRows == db \cup UNION {task[t].tx : t \in Tasks}

FilesRight ==
    /\ file \in [Docs -> {"absent", "bare", "whole"}]
    /\ temps \subseteq Tasks /\ TempsRemoved
    /\ source.mtime \in Nat /\ source.doc \in Docs

IngInv ==
    /\ DOMAIN task = Tasks /\ task = [t \in Tasks |-> task[t]]
    /\ \A t \in Tasks : TaskRight(t, task[t])
    /\ DbRight /\ Unique(AllRows) /\ FilesRight

LEMMA InvGives == IngInv => RecordedIsTrue
PROOF
<1> SUFFICES ASSUME IngInv PROVE RecordedIsTrue
  OBVIOUS
<1>1. ASSUME NEW t \in Tasks, NEW r \in task[t].tx
      PROVE  r.table \in Tables /\ r.by \in Tasks /\ r.table \in Written(task[t].pc)
  BY DEF IngInv, TaskRight, TxRight, RowRight
<1>2. ASSUME NEW r \in db
      PROVE  r.table \in Tables /\ r.by \in Tasks /\ RowRight(r) /\ CommittedRow(r, task[r.by])
  BY DEF IngInv, DbRight, RowRight
<1>3. IngestTypeOK
  <2>1. file \in [Docs -> {"absent", "bare", "whole"}] /\ temps \subseteq Tasks
    BY DEF IngInv, FilesRight
  <2>2. \A r \in db \cup UNION {task[t].tx : t \in Tasks} : r.table \in Tables /\ r.by \in Tasks
    BY <1>1, <1>2
  <2>3. \A r, q \in db : r.table = q.table /\ r.key = q.key => r = q
    BY DEF IngInv, Unique, AllRows, SameKey
  <2>4. ASSUME NEW t \in Tasks
        PROVE  /\ task[t].pc \in Ended \cup {"start", "receive", "check", "put", "publish", "meta", "system",
                                        "snapshot", "rows", "family", "find", "insert", "others",
                                        "observe", "read", "reread", "extract", "verify", "commit", "audit"}
               /\ task[t].code \in {0, 200, 404, 409, 413, 422, 500}
               /\ task[t].pc \in Ended => task[t].tx = {}
    <3>1. TaskRight(t, task[t])
      BY DEF IngInv
    <3>2. task[t].pc \in Ended => Written(task[t].pc) = {}
      BY DEF Written, Ended
    <3>3. task[t].pc \in Ended => task[t].tx = {}
      BY <1>1, <3>2
    <3> QED
      BY <3>1, <3>3 DEF TaskRight, PcRight
  <2> QED
    BY <2>1, <2>2, <2>3, <2>4 DEF IngestTypeOK
<1>4. RecordedIsStored /\ FingerprintWhole
  BY <1>2 DEF RecordedIsStored, FingerprintWhole, RowRight
<1>5. RefusedLeavesNothing
  <2>1. ASSUME NEW t \in Tasks, task[t].pc \in {"refused", "audit", "killed"} \/ task[t].kind = "dry-run",
               NEW r \in db, r.by = t
        PROVE  /\ r.table = "audit"
               /\ r.key[2] \in {"import.validation.failed", "forestry.snapshot.upload_rejected"}
    BY <1>2, <2>1 DEF CommittedRow
  <2> QED
    BY <2>1 DEF RefusedLeavesNothing
<1>6. RerunFindsImport
  BY DEF RerunFindsImport, IngInv, TaskRight, KnownRight
<1>7. ImportedIsPinned
  <2>1. ASSUME NEW r \in db, r.table \in {"family", "published"}, r.by \in Scripts PROVE PinnedRow(r)
    BY <1>2, <2>1 DEF CommittedRow, Scripts, Script
  <2> QED
    BY <2>1 DEF ImportedIsPinned, PinnedRow
<1>8. TempsRemoved
  BY DEF IngInv, FilesRight
<1> QED
  BY <1>3, <1>4, <1>5, <1>6, <1>7, <1>8 DEF RecordedIsTrue

(* A task stays right while others store files and commit rows. *)
LEMMA RightKept ==
    ASSUME NEW t, NEW s, TaskRight(t, s), source' = source, db \subseteq db',
           \A c \in Docs : file[c] = "whole" => file'[c] = "whole"
    PROVE  TaskRight(t, s)'
PROOF
<1>1. ASSUME NEW r, RowRight(r) PROVE RowRight(r)'
  BY <1>1 DEF RowRight
<1>2. TxRight(t, s)'
  BY <1>1 DEF TaskRight, TxRight
<1>3. KnownRight(s)'
  BY DEF TaskRight, KnownRight
<1>4. ScriptRight(s)'
  BY DEF TaskRight, ScriptRight
<1>5. StoredRight(s)'
  BY DEF TaskRight, StoredRight
<1> QED
  BY <1>2, <1>3, <1>4, <1>5 DEF TaskRight

(* A task takes a step, and may write rows of keys nobody has written. *)
LEMMA TaskMoves ==
    ASSUME IngInv, NEW t \in Tasks, NEW s, task' = [task EXCEPT ![t] = s],
           task[t].pc \notin Ended, db' = db, source' = source,
           file' \in [Docs -> {"absent", "bare", "whole"}],
           \A c \in Docs : file[c] = "whole" => file'[c] = "whole",
           temps' \subseteq temps \cup {t}, t \in temps' => s.pc \in {"publish", "meta"},
           TaskRight(t, s)',
           \A r \in s.tx \ task[t].tx : \A q \in AllRows \cup s.tx : SameKey(r, q) => r = q
    PROVE  IngInv'
PROOF
<1>1. /\ DOMAIN task' = Tasks /\ task' = [u \in Tasks |-> task'[u]] /\ task'[t] = s
      /\ \A u \in Tasks : u # t => task'[u] = task[u]
  BY DEF IngInv
<1>2. ASSUME NEW u \in Tasks PROVE TaskRight(u, task[u])'
  <2>1. CASE u = t
    BY <1>1, <2>1 DEF TaskRight, IsTask, PcRight, TxRight, KnownRight, ScriptRight, StoredRight, RowRight
  <2>2. CASE u # t
    <3>1. PICK q : q = task[u]
      OBVIOUS
    <3>2. TaskRight(u, q)
      BY <3>1 DEF IngInv
    <3>3. TaskRight(u, q)'
      BY <3>2, RightKept
    <3>4. task'[u] = q
      BY <1>1, <2>2, <3>1
    <3> QED
      BY <3>3, <3>4 DEF TaskRight, IsTask, PcRight, TxRight, KnownRight, ScriptRight, StoredRight, RowRight
  <2> QED
    BY <2>1, <2>2
<1>3. DbRight'
  <2>1. ASSUME NEW r \in db PROVE RowRight(r)' /\ CommittedRow(r, task'[r.by])
    <3>1. RowRight(r) /\ CommittedRow(r, task[r.by])
      BY DEF IngInv, DbRight
    <3>2. RowRight(r)'
      BY <3>1 DEF RowRight
    <3>3. r.by # t /\ r.by \in Tasks
      BY <3>1 DEF RowRight, CommittedRow, Ended
    <3>4. task'[r.by] = task[r.by]
      BY <1>1, <3>3
    <3> QED
      BY <3>1, <3>2, <3>4
  <2> QED
    BY <2>1 DEF DbRight, CommittedRow, PinnedRow, Script
<1>4. Unique(AllRows)'
  <2>1. ASSUME NEW r \in AllRows' PROVE r \in AllRows \/ r \in s.tx \ task[t].tx
    BY <1>1, <2>1 DEF AllRows
  <2>2. ASSUME NEW r \in AllRows', NEW q \in AllRows', SameKey(r, q) PROVE r = q
    <3>1. CASE r \in s.tx \ task[t].tx
      BY <2>1, <2>2, <3>1
    <3>2. CASE q \in s.tx \ task[t].tx
      <4>1. SameKey(q, r)
        BY <2>2 DEF SameKey
      <4> QED
        BY <2>1, <3>2, <4>1
    <3>3. CASE r \in AllRows /\ q \in AllRows
      BY <2>2, <3>3 DEF IngInv, Unique
    <3> QED
      BY <2>1, <3>1, <3>2, <3>3
  <2> QED
    BY <2>2 DEF Unique, SameKey
<1>5. FilesRight'
  <2>1. TempsRemoved'
    BY <1>1 DEF IngInv, FilesRight, TempsRemoved
  <2> QED
    BY <2>1 DEF IngInv, FilesRight
<1> QED
  BY <1>1, <1>2, <1>3, <1>4, <1>5 DEF IngInv

(* A step that neither stores a file nor commits. *)
Plain == db' = db /\ source' = source /\ file' = file /\ temps' = temps

(* A task that ends without committing: its transaction is gone. *)
LEMMA Stops ==
    ASSUME IngInv, NEW t \in Tasks, NEW s, task' = [task EXCEPT ![t] = s], IsTask(s),
           s.pc \in {"refused", "audit"}, s.pc = "audit" => s.kind \in {"forestry", "project"},
           s.tx = {}, s.code \in {404, 409, 413, 422, 500},
           s.kind = task[t].kind, s.doc = task[t].doc, s.new = task[t].new, s.known = task[t].known,
           task[t].pc \notin Ended, db' = db, source' = source, file' = file, temps' = temps \ {t}
    PROVE  IngInv'
PROOF
<1>1. TaskRight(t, task[t])
  BY DEF IngInv
<1>2. PcRight(s) /\ TxRight(t, s)'
  BY DEF PcRight, TxRight, Ended
<1>3. ScriptRight(s)' /\ StoredRight(s)'
  BY DEF ScriptRight, StoredRight
<1>4. KnownRight(s)'
  BY <1>1 DEF TaskRight, KnownRight
<1>5. TaskRight(t, s)'
  BY <1>1, <1>2, <1>3, <1>4 DEF TaskRight
<1>6. file \in [Docs -> {"absent", "bare", "whole"}]
  BY DEF IngInv, FilesRight
<1> QED
  BY <1>5, <1>6, TaskMoves

LEMMA RefusesKeeps ==
    ASSUME IngInv, NEW t \in Tasks, NEW code \in {404, 409, 413, 422, 500}, Refuses(t, code),
           task[t].pc \notin Ended, source' = source, file' = file, temps' = temps \ {t}
    PROVE  IngInv'
PROOF
<1>0. IsTask(task[t]) /\ task = [u \in Tasks |-> task[u]]
  BY DEF IngInv, TaskRight
<1>1. PICK pc \in {"refused", "audit"} :
        /\ pc = "audit" => task[t].kind \in {"forestry", "project"}
        /\ pc = IF task[t].kind \in {"forestry", "project"} THEN "audit" ELSE "refused"
  OBVIOUS
<1>2. task' = [task EXCEPT ![t].pc = pc, ![t].tx = {}, ![t].code = code] /\ db' = db
  BY <1>1 DEF Refuses
<1>3. PICK s : s = [task[t] EXCEPT !.pc = pc, !.tx = {}, !.code = code]
  OBVIOUS
<1>4. task' = [task EXCEPT ![t] = s]
  <2>1. t \in DOMAIN task
    BY <1>0
  <2> QED
    BY <1>2, <1>3, <2>1
<1>5. /\ IsTask(s) /\ s.pc = pc /\ s.tx = {} /\ s.code = code /\ s.kind = task[t].kind
      /\ s.doc = task[t].doc /\ s.new = task[t].new /\ s.known = task[t].known
  BY <1>0, <1>3 DEF IsTask
<1>6. /\ s.pc \in {"refused", "audit"} /\ s.code \in {404, 409, 413, 422, 500}
      /\ s.pc = "audit" => s.kind \in {"forestry", "project"}
  BY <1>1, <1>5
<1>7. db' = db
  BY <1>2
<1> QED
  BY <1>4, <1>5, <1>6, <1>7, Stops

(* A temporary file is there only between the write and the metadata. *)
LEMMA NoTemp ==
    ASSUME IngInv, NEW t \in Tasks, task[t].pc \notin {"publish", "meta", "killed"}
    PROVE  temps \ {t} = temps
PROOF
  BY DEF IngInv, FilesRight, TempsRemoved

RefusedFirst(t, code) == task' = [task EXCEPT ![t].pc = "refused", ![t].code = code]

(* A task that is refused where it starts has no transaction. *)
LEMMA RefusedAtStart ==
    ASSUME IngInv, NEW t \in Tasks, task[t].pc = "start", NEW code \in {404, 409, 413, 422, 500},
           RefusedFirst(t, code), Plain
    PROVE  IngInv'
PROOF
<1>1. TaskRight(t, task[t]) /\ task = [u \in Tasks |-> task[u]]
  BY DEF IngInv
<1>2. Written("start") = {}
  BY DEF Written
<1>3. task[t].tx = {}
  BY <1>1, <1>2 DEF TaskRight, TxRight
<1>4. PICK s : s = [task[t] EXCEPT !.pc = "refused", !.code = code]
  OBVIOUS
<1>5. task' = [task EXCEPT ![t] = s]
  BY <1>1, <1>4 DEF RefusedFirst
<1>6. /\ IsTask(s) /\ s.pc = "refused" /\ s.tx = {} /\ s.code = code /\ s.kind = task[t].kind
      /\ s.doc = task[t].doc /\ s.new = task[t].new /\ s.known = task[t].known
  BY <1>1, <1>3, <1>4 DEF TaskRight, IsTask
<1>7. temps' = temps \ {t}
  BY NoTemp DEF Plain
<1>8. task[t].pc \notin Ended
  BY DEF Ended
<1> QED
  BY <1>5, <1>6, <1>7, <1>8, Stops DEF Plain

(* A task goes on, and its transaction stays as it is. *)
LEMMA Goes ==
    ASSUME IngInv, NEW t \in Tasks, NEW pc, Go(t, pc), task[t].pc \notin Ended,
           pc \notin Ended \cup {"start", "commit", "reread", "extract", "snapshot"},
           db' = db, source' = source, file' \in [Docs -> {"absent", "bare", "whole"}],
           \A c \in Docs : file[c] = "whole" => file'[c] = "whole",
           temps' \subseteq temps \cup {t}, t \in temps' => pc \in {"publish", "meta"},
           \/ task[t].kind = "upload" /\ pc \in {"check", "put", "publish", "meta", "system"}
           \/ task[t].kind = "forestry" /\ pc \in {"check", "put", "publish", "meta", "system"}
           \/ /\ task[t].kind = "project" /\ pc \in {"check", "find", "insert"}
              /\ task[t].pc \in {"start", "check", "find"}
              /\ pc = "insert" => ~task[t].known
           \/ Script(task[t]) /\ pc \in {"others", "observe"},
           Written(task[t].pc) = {},
           pc = "system" => file'[task[t].doc] = "whole"
    PROVE  IngInv'
PROOF
<1>1. PICK s : s = [task[t] EXCEPT !.pc = pc]
  OBVIOUS
<1>2. TaskRight(t, task[t]) /\ task = [u \in Tasks |-> task[u]]
  BY DEF IngInv
<1>3. /\ IsTask(s) /\ s.pc = pc /\ s.tx = task[t].tx /\ s.code = task[t].code
      /\ s.kind = task[t].kind /\ s.doc = task[t].doc /\ s.new = task[t].new /\ s.known = task[t].known
  BY <1>1, <1>2 DEF TaskRight, IsTask
<1>4. s.tx = {}
  BY <1>2, <1>3 DEF TaskRight, TxRight
<1>5. PcRight(s) /\ TxRight(t, s)'
  BY <1>3, <1>4 DEF PcRight, TxRight, Script
<1>6. ScriptRight(s)' /\ StoredRight(s)'
  BY <1>3, <1>4 DEF ScriptRight, StoredRight, Script
<1>7. KnownRight(s)'
  BY <1>2, <1>3 DEF TaskRight, KnownRight, Script
<1>8. TaskRight(t, s)'
  BY <1>2, <1>3, <1>5, <1>6, <1>7 DEF TaskRight
<1>9. task' = [task EXCEPT ![t] = s]
  BY <1>1, <1>2 DEF Go
<1> QED
  BY <1>3, <1>4, <1>8, <1>9, TaskMoves

LEMMA NothingWritten ==
    ASSUME IngInv, NEW t \in Tasks,
           task[t].pc \notin {"snapshot", "family", "rows", "verify", "commit"}
    PROVE  Written(task[t].pc) = {} /\ task[t].tx = {}
PROOF
<1>1. Written(task[t].pc) = {}
  BY DEF Written
<1> QED
  BY <1>1 DEF IngInv, TaskRight, TxRight

(* What is known of a task that is not yet writing. *)
LEMMA TaskFacts ==
    ASSUME IngInv, NEW t \in Tasks
    PROVE  /\ TaskRight(t, task[t]) /\ IsTask(task[t]) /\ PcRight(task[t])
           /\ task[t].kind \in Kinds /\ task[t].doc \in Docs
           /\ t \in DOMAIN task /\ task = [u \in Tasks |-> task[u]]
           /\ file \in [Docs -> {"absent", "bare", "whole"}]
PROOF
  BY DEF IngInv, TaskRight, FilesRight

(* Receiving and storing. *)
LEMMA StoreSteps ==
    ASSUME IngInv, NEW t \in Tasks, StoreStep(t)
    PROVE  IngInv'
PROOF
<1>0. /\ PcRight(task[t]) /\ task[t].doc \in Docs
      /\ file \in [Docs -> {"absent", "bare", "whole"}]
  BY TaskFacts
<1>1. CASE receive(t)
  <2>1. task[t].pc = "start" /\ task[t].kind \in {"upload", "forestry"} /\ Plain
    BY <1>1 DEF receive, Plain
  <2>2. CASE RefusedFirst(t, 413)
    BY <2>1, <2>2, RefusedAtStart
  <2>3. CASE Go(t, "check")
    <3>1. Written(task[t].pc) = {} /\ temps \ {t} = temps
      BY <2>1, NothingWritten, NoTemp
    <3> QED
      BY <1>0, <2>1, <2>3, <3>1, Goes DEF Plain, Ended
  <2> QED
    BY <1>1, <2>2, <2>3 DEF receive, RefusedFirst
<1>2. CASE put_write(t)
  <2>1. task[t].pc = "put" /\ task[t].kind \in {"upload", "forestry"}
    BY <1>0, <1>2 DEF put_write, PcRight, Ended
  <2>2. Written(task[t].pc) = {}
    BY <2>1, NothingWritten
  <2> QED
    BY <1>0, <1>2, <2>1, <2>2, Goes DEF put_write, Ended
<1>3. CASE put_publish(t)
  <2>1. task[t].pc = "publish" /\ task[t].kind \in {"upload", "forestry"}
    BY <1>0, <1>3 DEF put_publish, PcRight, Ended
  <2>2. Written(task[t].pc) = {}
    BY <2>1, NothingWritten
  <2>3. /\ file' \in [Docs -> {"absent", "bare", "whole"}]
        /\ \A c \in Docs : file[c] = "whole" => file'[c] = "whole"
        /\ temps' \subseteq temps \cup {t}
    BY <1>0, <1>3 DEF put_publish
  <2>4. db' = db /\ source' = source /\ Go(t, "meta")
    BY <1>3 DEF put_publish
  <2> QED
    BY <2>1, <2>2, <2>3, <2>4, Goes DEF Ended
<1>4. CASE put_meta(t)
  <2>1. task[t].pc = "meta" /\ task[t].kind \in {"upload", "forestry"}
    BY <1>0, <1>4 DEF put_meta, PcRight, Ended
  <2>2. Written(task[t].pc) = {}
    BY <2>1, NothingWritten
  <2>3. /\ file' \in [Docs -> {"absent", "bare", "whole"}]
        /\ \A c \in Docs : file[c] = "whole" => file'[c] = "whole"
        /\ file'[task[t].doc] = "whole"
    BY <1>0, <1>4 DEF put_meta
  <2>4. db' = db /\ source' = source /\ Go(t, "system") /\ temps' = temps \ {t}
    BY <1>4 DEF put_meta, Unlinked
  <2> QED
    BY <2>1, <2>2, <2>3, <2>4, Goes DEF Ended
<1> QED
  BY <1>1, <1>2, <1>3, <1>4 DEF StoreStep

(* What may refuse an upload, a workbook or a run before it writes. *)
LEMMA CheckSteps ==
    ASSUME IngInv, NEW t \in Tasks,
           \/ dispatch_inspection(t) \/ parse_forestry_family(t) \/ project_read(t)
           \/ list_shapefile_snapshots(t)
    PROVE  IngInv'
PROOF
<1>0. PcRight(task[t]) /\ file \in [Docs -> {"absent", "bare", "whole"}]
  BY TaskFacts
<1>1. task[t].pc \in {"check", "others"} /\ file' = file /\ temps' = temps /\ source' = source
  BY DEF dispatch_inspection, parse_forestry_family, project_read, list_shapefile_snapshots
<1>2. Written(task[t].pc) = {} /\ temps \ {t} = temps /\ task[t].pc \notin Ended
  BY <1>1, NothingWritten, NoTemp DEF Ended
<1>3. CASE Refuses(t, 422) \/ Refuses(t, 409)
  BY <1>1, <1>2, <1>3, RefusesKeeps
<1>4. ASSUME NEW pc, Go(t, pc), db' = db,
             \/ task[t].kind \in {"upload", "forestry"} /\ pc = "put"
             \/ task[t].kind = "project" /\ pc = "find" /\ task[t].pc = "check"
             \/ Script(task[t]) /\ pc = "observe"
      PROVE  IngInv'
  BY <1>0, <1>1, <1>2, <1>4, Goes DEF Ended
<1>5. CASE dispatch_inspection(t)
  BY <1>3, <1>4, <1>5 DEF dispatch_inspection
<1>6. CASE parse_forestry_family(t)
  BY <1>3, <1>4, <1>6 DEF parse_forestry_family
<1>7. CASE project_read(t)
  BY <1>3, <1>4, <1>7 DEF project_read
<1>8. CASE list_shapefile_snapshots(t)
  <2>1. Script(task[t])
    BY <1>0, <1>8 DEF list_shapefile_snapshots, PcRight, Ended
  <2> QED
    BY <1>3, <1>4, <1>8, <2>1 DEF list_shapefile_snapshots
<1> QED
  BY <1>5, <1>6, <1>7, <1>8

(* A task goes on that has written nothing. *)
LEMMA EmptyMoves ==
    ASSUME IngInv, NEW t \in Tasks, NEW s, task' = [task EXCEPT ![t] = s], IsTask(s),
           s.kind = task[t].kind, s.doc = task[t].doc, s.code = task[t].code, s.tx = {},
           task[t].pc \notin Ended \cup {"publish", "meta"}, Plain,
           PcRight(s), KnownRight(s), ScriptRight(s), StoredRight(s)
    PROVE  IngInv'
PROOF
<1>1. TaskRight(t, task[t])
  BY TaskFacts
<1>2. TaskRight(t, s)
  BY <1>1 DEF TaskRight, TxRight
<1>3. TaskRight(t, s)'
  BY <1>2, RightKept DEF Plain
<1>4. t \notin temps
  BY DEF IngInv, FilesRight, TempsRemoved, Ended
<1>5. file \in [Docs -> {"absent", "bare", "whole"}]
  BY TaskFacts
<1> QED
  BY <1>3, <1>4, <1>5, TaskMoves DEF Plain

LEMMA ProjectSteps ==
    ASSUME IngInv, NEW t \in Tasks, project_start(t) \/ find_existing_import(t)
    PROVE  IngInv'
PROOF
<1>0. /\ TaskRight(t, task[t]) /\ IsTask(task[t]) /\ PcRight(task[t]) /\ t \in DOMAIN task
      /\ task = [u \in Tasks |-> task[u]] /\ KnownRight(task[t])
      /\ file \in [Docs -> {"absent", "bare", "whole"}]
  BY TaskFacts DEF TaskRight
<1>1. Plain /\ task[t].pc \in {"start", "find"} /\ task[t].kind = "project"
  BY <1>0 DEF project_start, find_existing_import, Plain, PcRight, Ended
<1>2. /\ Written(task[t].pc) = {} /\ task[t].tx = {} /\ temps \ {t} = temps
      /\ task[t].pc \notin Ended \cup {"publish", "meta"}
  BY <1>1, NothingWritten, NoTemp DEF Ended
<1>3. CASE project_start(t)
  <2>1. task[t].pc = "start"
    BY <1>3 DEF project_start
  <2>2. CASE RefusedFirst(t, 404) \/ RefusedFirst(t, 409)
    BY <1>1, <2>1, <2>2, RefusedAtStart
  <2>3. CASE task' = [task EXCEPT ![t].pc = "check", ![t].known = Has(t, "import", task[t].doc)]
    <3>1. PICK known \in BOOLEAN : known = Has(t, "import", task[t].doc)
      BY DEF Has
    <3>2. PICK s : s = [task[t] EXCEPT !.pc = "check", !.known = known]
      OBVIOUS
    <3>3. task' = [task EXCEPT ![t] = s]
      <4>1. task' = [task EXCEPT ![t].pc = "check", ![t].known = known]
        BY <2>3, <3>1
      <4> QED
        BY <1>0, <3>2, <4>1
    <3>4. /\ IsTask(s) /\ s.pc = "check" /\ s.tx = {} /\ s.code = task[t].code /\ s.kind = task[t].kind
          /\ s.doc = task[t].doc /\ s.new = task[t].new /\ s.known = known
      BY <1>0, <1>2, <3>2 DEF IsTask
    <3>5. known => \E r \in db : r.table = "import" /\ r.key = s.doc
      BY <1>2, <3>1, <3>4 DEF Has
    <3>6. ~s.new
      BY <1>0, <1>1, <2>1, <3>4 DEF KnownRight
    <3>7. KnownRight(s)
      BY <3>4, <3>5, <3>6 DEF KnownRight
    <3>8. PcRight(s) /\ ScriptRight(s) /\ StoredRight(s)
      BY <1>1, <3>4 DEF PcRight, ScriptRight, StoredRight, Script
    <3> QED
      BY <1>1, <1>2, <3>3, <3>4, <3>7, <3>8, EmptyMoves
  <2> QED
    BY <1>3, <2>2, <2>3 DEF project_start, RefusedFirst
<1>4. CASE find_existing_import(t)
  <2>1. task[t].pc = "find" /\ Go(t, IF Imported(t) THEN "commit" ELSE "insert")
    BY <1>4 DEF find_existing_import
  <2>2. CASE ~Imported(t)
    <3>1. ~task[t].known
      BY <1>0, <1>1, <2>2 DEF KnownRight, Imported, Has
    <3>2. Go(t, "insert")
      BY <2>1, <2>2
    <3> QED
      BY <1>0, <1>1, <1>2, <2>1, <3>1, <3>2, Goes DEF Plain, Ended
  <2>3. CASE Imported(t)
    <3>1. PICK s : s = [task[t] EXCEPT !.pc = "commit"]
      OBVIOUS
    <3>2. task' = [task EXCEPT ![t] = s]
      BY <1>0, <2>1, <2>3, <3>1 DEF Go
    <3>3. /\ IsTask(s) /\ s.pc = "commit" /\ s.tx = {} /\ s.code = task[t].code /\ s.kind = task[t].kind
          /\ s.doc = task[t].doc /\ s.new = task[t].new /\ s.known = task[t].known
      BY <1>0, <1>2, <3>1 DEF IsTask
    <3>4. KnownRight(s)
      BY <1>0, <3>3 DEF KnownRight
    <3>5. PcRight(s) /\ ScriptRight(s) /\ StoredRight(s)
      BY <1>1, <3>3 DEF PcRight, ScriptRight, StoredRight, Script
    <3> QED
      BY <1>1, <1>2, <3>2, <3>3, <3>4, <3>5, EmptyMoves
  <2> QED
    BY <2>2, <2>3
<1> QED
  BY <1>3, <1>4

(* The four times the archive is opened. *)
LEMMA ReadingSteps ==
    ASSUME IngInv, NEW t \in Tasks,
           \/ import_start(t) \/ observe_source_file(t) \/ fingerprint_read(t)
           \/ fingerprint_source_file(t) \/ extract_family_archive(t)
    PROVE  IngInv'
PROOF
<1>0. /\ TaskRight(t, task[t]) /\ IsTask(task[t]) /\ PcRight(task[t]) /\ t \in DOMAIN task
      /\ task = [u \in Tasks |-> task[u]] /\ ScriptRight(task[t]) /\ task[t].kind \in Kinds
      /\ file \in [Docs -> {"absent", "bare", "whole"}] /\ source.mtime \in Nat /\ source.doc \in Docs
  BY TaskFacts DEF TaskRight, IngInv, FilesRight
<1>1. /\ file' = file /\ temps' = temps /\ source' = source /\ Script(task[t])
      /\ task[t].pc \in {"start", "observe", "read", "reread", "extract"}
  BY <1>0 DEF import_start, observe_source_file, fingerprint_read, fingerprint_source_file,
              extract_family_archive, PcRight, Ended, Scripts, Script
<1>2. /\ Written(task[t].pc) = {} /\ task[t].tx = {} /\ temps \ {t} = temps
      /\ task[t].pc \notin Ended \cup {"publish", "meta"}
  BY <1>1, NothingWritten, NoTemp DEF Ended
<1>3. ASSUME NEW s, task' = [task EXCEPT ![t] = s], IsTask(s), s.tx = {}, s.kind = task[t].kind,
             s.doc = task[t].doc, s.code = task[t].code, db' = db,
             s.pc \in {"read", "reread", "extract", "system"},
             s.pc = "reread" => s.got = source,
             s.pc \in {"extract", "system"} => s.got \in Docs
      PROVE  IngInv'
  <2>1. Script(s) /\ KnownRight(s) /\ StoredRight(s) /\ PcRight(s)
    BY <1>1, <1>3 DEF Script, KnownRight, StoredRight, PcRight
  <2>2. ScriptRight(s)
    BY <1>0, <1>3 DEF ScriptRight
  <2> QED
    BY <1>1, <1>2, <1>3, <2>1, <2>2, EmptyMoves DEF Plain
<1>4. CASE import_start(t)
  <2>1. task[t].pc = "start" /\ Plain
    BY <1>4 DEF import_start, Plain
  <2>2. CASE RefusedFirst(t, 422)
    BY <2>1, <2>2, RefusedAtStart
  <2>3. CASE Go(t, "others")
    BY <1>0, <1>1, <1>2, <2>1, <2>3, Goes DEF Plain, Ended
  <2> QED
    BY <1>4, <2>2, <2>3 DEF import_start, RefusedFirst
<1>5. CASE observe_source_file(t)
  <2>1. PICK size : size = Traits[source.doc].size
    OBVIOUS
  <2>2. PICK s : s = [task[t] EXCEPT !.pc = "read", !.stat = size]
    OBVIOUS
  <2>3. task' = [task EXCEPT ![t] = s] /\ db' = db
    BY <1>0, <1>5, <2>1, <2>2 DEF observe_source_file
  <2>4. /\ IsTask(s) /\ s.tx = {} /\ s.kind = task[t].kind /\ s.doc = task[t].doc
        /\ s.code = task[t].code /\ s.pc = "read"
    BY <1>0, <1>2, <2>2 DEF IsTask
  <2> QED
    BY <1>3, <2>3, <2>4
<1>6. CASE fingerprint_read(t)
  <2>1. PICK s : s = [task[t] EXCEPT !.pc = "reread", !.got = source]
    OBVIOUS
  <2>2. task' = [task EXCEPT ![t] = s] /\ db' = db
    BY <1>0, <1>6, <2>1 DEF fingerprint_read
  <2>3. /\ IsTask(s) /\ s.tx = {} /\ s.kind = task[t].kind /\ s.doc = task[t].doc
        /\ s.code = task[t].code /\ s.pc = "reread" /\ s.got = source
    BY <1>0, <1>2, <2>1 DEF IsTask
  <2> QED
    BY <1>3, <2>2, <2>3
<1>7. CASE fingerprint_source_file(t)
  <2>1. CASE Refuses(t, 500)
    BY <1>1, <1>2, <2>1, RefusesKeeps
  <2>2. CASE ~Refuses(t, 500)
    <3>1. /\ task[t].pc = "reread" /\ task[t].got.mtime = source.mtime /\ db' = db
          /\ task' = [task EXCEPT ![t].pc = "extract", ![t].got = Digest(task[t].got)]
      BY <1>7, <2>2 DEF fingerprint_source_file, SameIdentity
    <3>2. task[t].got = source
      BY <1>0, <1>1, <3>1 DEF ScriptRight
    <3>3. PICK doc \in Docs : doc = Digest(task[t].got)
      BY <1>0, <3>2 DEF Digest
    <3>4. PICK s : s = [task[t] EXCEPT !.pc = "extract", !.got = doc]
      OBVIOUS
    <3>5. task' = [task EXCEPT ![t] = s]
      <4>1. task' = [task EXCEPT ![t].pc = "extract", ![t].got = doc]
        BY <3>1, <3>3
      <4> QED
        BY <1>0, <3>4, <4>1
    <3>6. /\ IsTask(s) /\ s.tx = {} /\ s.kind = task[t].kind /\ s.doc = task[t].doc
          /\ s.code = task[t].code /\ s.pc = "extract" /\ s.got = doc
      BY <1>0, <1>2, <3>4 DEF IsTask
    <3> QED
      BY <1>3, <3>1, <3>5, <3>6
  <2> QED
    BY <2>1, <2>2
<1>8. CASE extract_family_archive(t)
  <2>1. CASE Refuses(t, 422)
    BY <1>1, <1>2, <2>1, RefusesKeeps
  <2>2. CASE ~Refuses(t, 422)
    <3>1. /\ task[t].pc = "extract" /\ db' = db
          /\ task' = [task EXCEPT ![t].pc = "system", ![t].stat = source.doc]
      BY <1>8, <2>2 DEF extract_family_archive
    <3>2. PICK s : s = [task[t] EXCEPT !.pc = "system", !.stat = source.doc]
      OBVIOUS
    <3>3. task' = [task EXCEPT ![t] = s]
      BY <1>0, <3>1, <3>2
    <3>4. /\ IsTask(s) /\ s.tx = {} /\ s.kind = task[t].kind /\ s.doc = task[t].doc
          /\ s.code = task[t].code /\ s.pc = "system" /\ s.got = task[t].got
      BY <1>0, <1>2, <3>2 DEF IsTask
    <3>5. task[t].got \in Docs
      BY <1>0, <1>1, <3>1 DEF ScriptRight
    <3> QED
      BY <1>3, <3>1, <3>3, <3>4, <3>5
  <2> QED
    BY <2>1, <2>2
<1> QED
  BY <1>4, <1>5, <1>6, <1>7, <1>8

-----------------------------------------------------------------------------
(* What ends a task, from inside and from outside. *)

(* The tables and the store at the end of a step that only ends transactions: rows that *)
(* stay are those that were there.                                                     *)
LEMMA FewerRows ==
    ASSUME NEW S, NEW R, Unique(S), R \subseteq S
    PROVE  Unique(R)
PROOF
  BY DEF Unique

(* A task holds only its own rows, and until it has ended none is committed. *)
LEMMA OwnRows ==
    ASSUME IngInv, NEW t \in Tasks
    PROVE  /\ \A r \in task[t].tx : RowRight(r) /\ r.by = t /\ r.table \in Written(task[t].pc)
           /\ task[t].pc \notin Ended => \A r \in db : r.by # t
           /\ \A r \in AllRows : r.by = t => r \in db \/ r \in task[t].tx
           /\ \A r \in AllRows : RowRight(r)
PROOF
<1>1. ASSUME NEW u \in Tasks PROVE \A r \in task[u].tx : RowRight(r) /\ r.by = u /\ r.table \in Written(task[u].pc)
  BY DEF IngInv, TaskRight, TxRight
<1>2. \A r \in db : RowRight(r) /\ CommittedRow(r, task[r.by])
  BY DEF IngInv, DbRight
<1>3. task[t].pc \notin Ended => \A r \in db : r.by # t
  BY <1>2 DEF CommittedRow, Ended
<1> QED
  BY <1>1, <1>2, <1>3 DEF AllRows

LEMMA CommitKeeps ==
    ASSUME IngInv, NEW t \in Tasks, commit(t)
    PROVE  IngInv'
PROOF
<1>0. /\ TaskRight(t, task[t]) /\ IsTask(task[t]) /\ t \in DOMAIN task /\ DOMAIN task = Tasks
      /\ task = [u \in Tasks |-> task[u]]
  BY TaskFacts DEF IngInv
<1>1. /\ task[t].pc = "commit" /\ file' = file /\ temps' = temps /\ source' = source
      /\ task' = [task EXCEPT ![t].pc = "done", ![t].tx = {}, ![t].code = 200]
      /\ db' = IF task[t].kind = "dry-run" THEN db ELSE db \cup task[t].tx
  BY DEF commit
<1>2. PICK s : s = [task[t] EXCEPT !.pc = "done", !.tx = {}, !.code = 200]
  OBVIOUS
<1>3. task' = [task EXCEPT ![t] = s]
  BY <1>0, <1>1, <1>2
<1>4. /\ IsTask(s) /\ s.pc = "done" /\ s.tx = {} /\ s.code = 200 /\ s.kind = task[t].kind
      /\ s.doc = task[t].doc /\ s.new = task[t].new /\ s.known = task[t].known
  BY <1>0, <1>2 DEF IsTask
<1>5. /\ DOMAIN task' = Tasks /\ task' = [u \in Tasks |-> task'[u]] /\ task'[t] = s
      /\ \A u \in Tasks : u # t => task'[u] = task[u]
  BY <1>0, <1>3
<1>6. TaskRight(t, s)
  <2>1. PcRight(s) /\ TxRight(t, s) /\ ScriptRight(s) /\ StoredRight(s)
    BY <1>4 DEF PcRight, TxRight, ScriptRight, StoredRight, Ended
  <2>2. KnownRight(s)
    BY <1>0, <1>4 DEF TaskRight, KnownRight
  <2> QED
    BY <1>0, <1>4, <2>1, <2>2 DEF TaskRight
<1>7. ASSUME NEW u \in Tasks PROVE TaskRight(u, task[u])'
  <2>1. PICK q : q = IF u = t THEN s ELSE task[u]
    OBVIOUS
  <2>2. TaskRight(u, q)
    BY <1>6, <2>1 DEF IngInv
  <2>3. TaskRight(u, q)'
    BY <1>1, <2>2, RightKept
  <2>4. task'[u] = q
    BY <1>5, <2>1
  <2> QED
    BY <2>3, <2>4 DEF TaskRight, IsTask, PcRight, TxRight, KnownRight, ScriptRight, StoredRight, RowRight
<1>8. DbRight'
  <2>1. ASSUME NEW r \in db' PROVE RowRight(r)' /\ CommittedRow(r, task'[r.by])
    <3>1. CASE r \in db
      <4>1. RowRight(r) /\ CommittedRow(r, task[r.by]) /\ r.by \in Tasks
        BY <3>1 DEF IngInv, DbRight, RowRight
      <4>2. r.by # t
        BY <1>1, <3>1, OwnRows DEF Ended
      <4>3. RowRight(r)'
        BY <1>1, <4>1 DEF RowRight
      <4> QED
        BY <1>5, <4>1, <4>2, <4>3
    <3>2. CASE r \notin db
      <4>1. r \in task[t].tx /\ task[t].kind # "dry-run"
        BY <1>1, <2>1, <3>2
      <4>2. RowRight(r) /\ r.by = t
        BY <4>1, OwnRows
      <4>3. RowRight(r)'
        BY <1>1, <4>2 DEF RowRight
      <4>4. Script(s) => PinnedRow(r)
        BY <1>0, <1>1, <1>4, <4>1 DEF TaskRight, ScriptRight, PinnedRow, Script
      <4>5. CommittedRow(r, s)
        BY <1>4, <4>1, <4>4 DEF CommittedRow
      <4> QED
        BY <1>5, <4>2, <4>3, <4>5
    <3> QED
      BY <3>1, <3>2
  <2> QED
    BY <2>1 DEF DbRight, CommittedRow, PinnedRow, Script
<1>9. Unique(AllRows)'
  <2>1. AllRows' \subseteq AllRows
    BY <1>1, <1>4, <1>5 DEF AllRows
  <2>2. PICK R : R = AllRows'
    OBVIOUS
  <2>3. Unique(R)
    BY <2>1, <2>2, FewerRows DEF IngInv
  <2> QED
    BY <2>2, <2>3 DEF Unique, SameKey
<1>10. FilesRight'
  <2>1. t \notin temps
    BY <1>1 DEF IngInv, FilesRight, TempsRemoved
  <2>2. TempsRemoved'
    BY <1>1, <1>5, <2>1 DEF IngInv, FilesRight, TempsRemoved
  <2> QED
    BY <1>1, <2>2 DEF IngInv, FilesRight
<1> QED
  BY <1>5, <1>7, <1>8, <1>9, <1>10 DEF IngInv

LEMMA AuditKeeps ==
    ASSUME IngInv, NEW t \in Tasks, _record_failure_audit(t)
    PROVE  IngInv'
PROOF
<1>0. /\ TaskRight(t, task[t]) /\ IsTask(task[t]) /\ t \in DOMAIN task /\ DOMAIN task = Tasks
      /\ task = [u \in Tasks |-> task[u]] /\ PcRight(task[t])
  BY TaskFacts DEF IngInv
<1>1. /\ task[t].pc = "audit" /\ file' = file /\ temps' = temps /\ source' = source /\ Go(t, "refused")
      /\ \/ db' = db \cup {Row("audit", <<t, FailureEvent(t)>>, task[t].code, t)}
         \/ db' = db
  BY DEF _record_failure_audit
<1>2. PICK s : s = [task[t] EXCEPT !.pc = "refused"]
  OBVIOUS
<1>3. task' = [task EXCEPT ![t] = s]
  BY <1>0, <1>1, <1>2 DEF Go
<1>4. task[t].tx = {} /\ task[t].kind \in {"forestry", "project"}
  <2>1. task[t].tx = {}
    BY <1>1, NothingWritten
  <2> QED
    BY <1>0, <1>1, <2>1 DEF PcRight, Ended
<1>5. /\ IsTask(s) /\ s.pc = "refused" /\ s.tx = {} /\ s.code = task[t].code /\ s.kind = task[t].kind
      /\ s.doc = task[t].doc /\ s.new = task[t].new /\ s.known = task[t].known
  BY <1>0, <1>2, <1>4 DEF IsTask
<1>6. /\ DOMAIN task' = Tasks /\ task' = [u \in Tasks |-> task'[u]] /\ task'[t] = s
      /\ \A u \in Tasks : u # t => task'[u] = task[u]
  BY <1>0, <1>3
<1>7. TaskRight(t, s)
  <2>1. PcRight(s) /\ TxRight(t, s) /\ ScriptRight(s) /\ StoredRight(s)
    BY <1>5 DEF PcRight, TxRight, ScriptRight, StoredRight, Ended
  <2>2. KnownRight(s)
    BY <1>0, <1>5 DEF TaskRight, KnownRight
  <2> QED
    BY <1>0, <1>5, <2>1, <2>2 DEF TaskRight
<1>8. ASSUME NEW u \in Tasks PROVE TaskRight(u, task[u])'
  <2>1. PICK q : q = IF u = t THEN s ELSE task[u]
    OBVIOUS
  <2>2. TaskRight(u, q)
    BY <1>7, <2>1 DEF IngInv
  <2>3. db \subseteq db'
    BY <1>1
  <2>4. TaskRight(u, q)'
    BY <1>1, <2>2, <2>3, RightKept
  <2>5. task'[u] = q
    BY <1>6, <2>1
  <2> QED
    BY <2>4, <2>5 DEF TaskRight, IsTask, PcRight, TxRight, KnownRight, ScriptRight, StoredRight, RowRight
<1> DEFINE new == Row("audit", <<t, FailureEvent(t)>>, task[t].code, t)
<1>9. /\ new.table = "audit" /\ new.by = t /\ new.key[1] = t /\ new.key[2] = FailureEvent(t)
      /\ FailureEvent(t) \in {"import.validation.failed", "forestry.snapshot.upload_rejected"}
  BY DEF Row, FailureEvent
<1>10. RowRight(new)
  BY <1>9 DEF RowRight, Tables
<1>11. CommittedRow(new, s)
  BY <1>4, <1>5, <1>9 DEF CommittedRow, Script
<1> HIDE DEF new
<1>12. DbRight'
  <2>1. ASSUME NEW r \in db' PROVE RowRight(r)' /\ CommittedRow(r, task'[r.by])
    <3>1. CASE r \in db
      <4>1. RowRight(r) /\ CommittedRow(r, task[r.by]) /\ r.by \in Tasks
        BY <3>1 DEF IngInv, DbRight, RowRight
      <4>2. r.by # t
        BY <1>1, <3>1, OwnRows DEF Ended
      <4>3. RowRight(r)'
        BY <1>1, <4>1 DEF RowRight
      <4> QED
        BY <1>6, <4>1, <4>2, <4>3
    <3>2. CASE r \notin db
      <4>1. r = new
        BY <1>1, <2>1, <3>2 DEF new
      <4>2. RowRight(r)'
        BY <1>1, <1>10, <4>1 DEF RowRight
      <4> QED
        BY <1>6, <1>9, <1>11, <4>1, <4>2
    <3> QED
      BY <3>1, <3>2
  <2> QED
    BY <2>1 DEF DbRight, CommittedRow, PinnedRow, Script
<1>13. \A q \in AllRows : ~SameKey(new, q)
  <2>1. ASSUME NEW q \in AllRows, SameKey(new, q) PROVE FALSE
    <3>1. q.by = t
      BY <1>9, <2>1, OwnRows DEF SameKey, RowRight
    <3> QED
      BY <1>1, <1>4, <3>1, OwnRows DEF Ended
  <2> QED
    BY <2>1
<1>14. Unique(AllRows)'
  <2>1. AllRows' \subseteq AllRows \cup {new}
    <3>1. db' \subseteq db \cup {new}
      BY <1>1 DEF new
    <3> QED
      BY <1>5, <1>6, <3>1 DEF AllRows
  <2>2. ASSUME NEW r \in AllRows', NEW q \in AllRows', SameKey(r, q) PROVE r = q
    <3>1. SameKey(q, r)
      BY <2>2 DEF SameKey
    <3>2. CASE r \in AllRows /\ q \in AllRows
      BY <2>2, <3>2 DEF IngInv, Unique
    <3>3. CASE r = new \/ q = new
      BY <1>13, <2>1, <2>2, <3>1, <3>3
    <3> QED
      BY <2>1, <3>2, <3>3
  <2> QED
    BY <2>2 DEF Unique, SameKey
<1>15. FilesRight'
  <2>1. t \notin temps
    BY <1>1 DEF IngInv, FilesRight, TempsRemoved
  <2>2. TempsRemoved'
    BY <1>1, <1>6, <2>1 DEF IngInv, FilesRight, TempsRemoved
  <2> QED
    BY <1>1, <2>2 DEF IngInv, FilesRight
<1> QED
  BY <1>6, <1>8, <1>12, <1>14, <1>15 DEF IngInv

LEMMA FaultKeeps ==
    ASSUME IngInv, NEW t \in Tasks, Fault(t)
    PROVE  IngInv'
PROOF
<1>1. /\ Refuses(t, 500) /\ file' = file /\ source' = source /\ temps' = temps \ {t}
      /\ task[t].pc \notin Ended
  BY DEF Fault, Ended
<1> QED
  BY <1>1, RefusesKeeps

(* The process of some tasks is killed: they are over, and their temporary files stay. *)
LEMMA KillKeeps ==
    ASSUME IngInv, NEW procs, Kill(procs)
    PROVE  IngInv'
PROOF
<1>1. /\ file' = file /\ temps' = temps /\ source' = source /\ db' = db
      /\ task' = [t \in Tasks |-> IF t \in procs /\ task[t].pc \notin Ended \cup {"start"}
                                  THEN [task[t] EXCEPT !.pc = "killed", !.tx = {}] ELSE task[t]]
  BY DEF Kill
<1>2. DOMAIN task' = Tasks /\ task' = [t \in Tasks |-> task'[t]]
  BY <1>1
<1>3. ASSUME NEW t \in Tasks
      PROVE  \/ task'[t] = task[t]
             \/ /\ task'[t] = [task[t] EXCEPT !.pc = "killed", !.tx = {}] /\ task[t].pc \notin Ended
                /\ task'[t].pc = "killed" /\ task'[t].tx = {}
  <2>1. IsTask(task[t])
    BY TaskFacts
  <2> QED
    BY <1>1, <2>1 DEF IsTask
<1>4. ASSUME NEW t \in Tasks PROVE TaskRight(t, task[t])'
  <2>0. TaskRight(t, task[t])
    BY DEF IngInv
  <2>1. PICK s : s = task'[t]
    OBVIOUS
  <2>2. TaskRight(t, s)
    <3>1. CASE s = task[t]
      BY <2>0, <3>1
    <3>2. CASE s = [task[t] EXCEPT !.pc = "killed", !.tx = {}]
      <4>1. /\ IsTask(s) /\ s.pc = "killed" /\ s.tx = {} /\ s.code = task[t].code /\ s.kind = task[t].kind
            /\ s.doc = task[t].doc /\ s.new = task[t].new /\ s.known = task[t].known
        BY <2>0, <3>2 DEF TaskRight, IsTask
      <4>2. PcRight(s) /\ TxRight(t, s) /\ ScriptRight(s) /\ StoredRight(s)
        BY <4>1 DEF PcRight, TxRight, ScriptRight, StoredRight, Ended
      <4>3. KnownRight(s)
        BY <2>0, <4>1 DEF TaskRight, KnownRight
      <4> QED
        BY <2>0, <4>1, <4>2, <4>3 DEF TaskRight
    <3> QED
      BY <1>3, <2>1, <3>1, <3>2
  <2>3. TaskRight(t, s)'
    BY <1>1, <2>2, RightKept
  <2> QED
    BY <2>1, <2>3 DEF TaskRight, IsTask, PcRight, TxRight, KnownRight, ScriptRight, StoredRight, RowRight
<1>5. DbRight'
  <2>1. ASSUME NEW r \in db PROVE RowRight(r)' /\ CommittedRow(r, task'[r.by])
    <3>1. RowRight(r) /\ CommittedRow(r, task[r.by]) /\ r.by \in Tasks
      BY DEF IngInv, DbRight, RowRight
    <3>2. task'[r.by] = task[r.by]
      BY <1>3, <3>1, OwnRows
    <3>3. RowRight(r)'
      BY <1>1, <3>1 DEF RowRight
    <3> QED
      BY <3>1, <3>2, <3>3
  <2> QED
    BY <1>1, <2>1 DEF DbRight, CommittedRow, PinnedRow, Script
<1>6. Unique(AllRows)'
  <2>1. ASSUME NEW r \in AllRows' PROVE r \in AllRows
    <3>1. CASE r \in db
      BY <3>1 DEF AllRows
    <3>2. CASE r \notin db
      <4>1. PICK t \in Tasks : r \in task'[t].tx
        BY <1>1, <2>1, <3>2 DEF AllRows
      <4>2. r \in task[t].tx
        BY <1>3, <4>1
      <4> QED
        BY <4>2 DEF AllRows
    <3> QED
      BY <3>1, <3>2
  <2>2. PICK R : R = AllRows'
    OBVIOUS
  <2>3. Unique(R)
    BY <2>1, <2>2, FewerRows DEF IngInv
  <2> QED
    BY <2>2, <2>3 DEF Unique, SameKey
<1>7. FilesRight'
  <2>1. TempsRemoved'
    BY <1>1, <1>3 DEF IngInv, FilesRight, TempsRemoved
  <2> QED
    BY <1>1, <2>1 DEF IngInv, FilesRight
<1> QED
  BY <1>2, <1>4, <1>5, <1>6, <1>7 DEF IngInv

(* The archive changes: its time is new, so whoever has read it will see it. *)
LEMMA SourceKeeps ==
    ASSUME IngInv, NEW c \in Docs, SourceChanges(c)
    PROVE  IngInv'
PROOF
<1>1. /\ file' = file /\ temps' = temps /\ db' = db /\ task' = task
      /\ source' = [doc |-> c, mtime |-> source.mtime + 1] /\ source.mtime \in Nat
  BY DEF SourceChanges, IngInv, FilesRight
<1>2. source'.mtime = source.mtime + 1 /\ source'.doc = c
  BY <1>1
<1>3. ASSUME NEW t \in Tasks PROVE TaskRight(t, task[t])'
  <2>1. PICK s : s = task[t]
    OBVIOUS
  <2>2. TaskRight(t, s)
    BY <2>1 DEF IngInv
  <2>3. ASSUME NEW r, RowRight(r) PROVE RowRight(r)'
    BY <1>1, <2>3 DEF RowRight
  <2>4. TxRight(t, s)' /\ KnownRight(s)' /\ StoredRight(s)'
    BY <1>1, <2>2, <2>3 DEF TaskRight, TxRight, KnownRight, StoredRight
  <2>5. ScriptRight(s)'
    <3>1. ASSUME Script(s), s.pc = "reread"
          PROVE  /\ s.got.mtime \in Nat /\ s.got.mtime <= source'.mtime
                 /\ ~(s.got.mtime = source'.mtime)
      <4>1. s.got.mtime \in Nat /\ s.got.mtime <= source.mtime
        BY <2>2, <3>1 DEF TaskRight, ScriptRight
      <4> QED
        BY <1>1, <1>2, <4>1
    <3>2. ScriptRight(s)
      BY <2>2 DEF TaskRight
    <3> QED
      BY <3>1, <3>2 DEF ScriptRight
  <2>6. TaskRight(t, s)'
    BY <2>2, <2>4, <2>5 DEF TaskRight
  <2> QED
    BY <1>1, <2>1, <2>6 DEF TaskRight, IsTask, PcRight, TxRight, KnownRight, ScriptRight, StoredRight, RowRight
<1>4. DbRight'
  BY <1>1 DEF IngInv, DbRight, RowRight, CommittedRow, PinnedRow
<1>5. Unique(AllRows)'
  BY <1>1 DEF IngInv, Unique, AllRows, SameKey
<1>6. FilesRight'
  BY <1>1, <1>2 DEF IngInv, FilesRight, TempsRemoved
<1>7. (DOMAIN task = Tasks /\ task = [t \in Tasks |-> task[t]])'
  BY <1>1 DEF IngInv
<1> QED
  BY <1>3, <1>4, <1>5, <1>6, <1>7 DEF IngInv

-----------------------------------------------------------------------------
(* What a transaction writes *)

LEMMA FreshKey ==
    ASSUME IngInv, NEW t \in Tasks, NEW table, NEW key, ~Has(t, table, key), ~Waits(t, table, key)
    PROVE  \A q \in AllRows : ~(q.table = table /\ q.key = key)
PROOF
<1>1. ASSUME NEW q \in AllRows, q.table = table, q.key = key PROVE FALSE
  <2>1. CASE q \in db
    BY <1>1, <2>1 DEF Has
  <2>2. CASE q \notin db
    <3>1. PICK u \in Tasks : q \in task[u].tx
      BY <2>2 DEF AllRows
    <3>2. CASE u = t
      BY <1>1, <3>1, <3>2 DEF Has
    <3>3. CASE u # t
      BY <1>1, <3>1, <3>3 DEF Waits
    <3> QED
      BY <3>2, <3>3
  <2> QED
    BY <2>1, <2>2
<1> QED
  BY <1>1

(* Before a task has written a table, nobody has a row of that table with its key. *)
LEMMA OwnKey ==
    ASSUME IngInv, NEW t \in Tasks, task[t].pc \notin Ended
    PROVE  /\ \A table \in {"observation", "run", "job", "upload"} : table \notin Written(task[t].pc) =>
                 \A q \in AllRows : ~(q.table = table /\ q.key = t)
           /\ "audit" \notin Written(task[t].pc) => \A q \in AllRows : ~(q.table = "audit" /\ q.key[1] = t)
PROOF
<1>1. ASSUME NEW q \in AllRows, q.by = t PROVE q.table \in Written(task[t].pc)
  BY <1>1, OwnRows
<1>2. \A q \in AllRows : RowRight(q)
  BY OwnRows
<1> QED
  BY <1>1, <1>2 DEF RowRight

LEMMA Writes ==
    ASSUME IngInv, NEW t \in Tasks, NEW s, NEW rows, task' = [task EXCEPT ![t] = s], IsTask(s), Plain,
           s.kind = task[t].kind, s.doc = task[t].doc, s.code = task[t].code,
           s.tx = task[t].tx \cup rows,
           task[t].pc \in {"system", "snapshot", "family", "rows", "insert", "verify"},
           Written(task[t].pc) \subseteq Written(s.pc), Unique(rows),
           \A r \in rows : RowRight(r) /\ r.by = t /\ r.table \in Written(s.pc),
           \A r \in rows : \A q \in AllRows : ~SameKey(r, q),
           PcRight(s), KnownRight(s), ScriptRight(s), StoredRight(s)
    PROVE  IngInv'
PROOF
<1>1. TaskRight(t, task[t])
  BY TaskFacts
<1>2. TxRight(t, s)
  BY <1>1 DEF TaskRight, TxRight
<1>3. TaskRight(t, s)
  BY <1>1, <1>2 DEF TaskRight
<1>4. TaskRight(t, s)'
  BY <1>3, RightKept DEF Plain
<1>5. t \notin temps /\ task[t].pc \notin Ended
  BY DEF IngInv, FilesRight, TempsRemoved, Ended
<1>6. file \in [Docs -> {"absent", "bare", "whole"}]
  BY TaskFacts
<1>7. ASSUME NEW r \in s.tx \ task[t].tx, NEW q \in AllRows \cup s.tx, SameKey(r, q) PROVE r = q
  <2>1. r \in rows
    OBVIOUS
  <2>2. task[t].tx \subseteq AllRows
    BY DEF AllRows
  <2>3. q \in rows
    BY <1>7, <2>1, <2>2
  <2> QED
    BY <1>7, <2>1, <2>3 DEF Unique
<1> QED
  BY <1>4, <1>5, <1>6, <1>7, TaskMoves DEF Plain

(* A set of at most one row has each key once. *)
LEMMA OneRow ==
    ASSUME NEW rows, NEW row, rows \subseteq {row}
    PROVE  Unique(rows)
PROOF
  BY DEF Unique

LEMMA SystemKeeps ==
    ASSUME IngInv, NEW t \in Tasks, _resolve_source_system(t)
    PROVE  IngInv'
PROOF
<1>0. /\ TaskRight(t, task[t]) /\ IsTask(task[t]) /\ t \in DOMAIN task /\ PcRight(task[t])
      /\ task = [u \in Tasks |-> task[u]] /\ KnownRight(task[t]) /\ ScriptRight(task[t])
      /\ StoredRight(task[t])
  BY TaskFacts DEF TaskRight
<1>1. task[t].pc = "system" /\ Plain /\ task[t].tx = {} /\ task[t].kind # "project"
  <2>1. task[t].pc = "system" /\ Plain
    BY DEF _resolve_source_system, Plain
  <2>2. task[t].tx = {}
    BY <2>1, NothingWritten
  <2>3. task[t].kind # "project"
    BY <1>0, <2>1 DEF PcRight, Ended, Script
  <2> QED
    BY <2>1, <2>2, <2>3
<1>2. PICK row : row = Row("system", SystemKey(t), Unset, t)
  OBVIOUS
<1>3. row.table = "system" /\ row.key = SystemKey(t) /\ row.by = t
  BY <1>2 DEF Row
<1>4. PICK rows : rows = IF Has(t, row.table, row.key) THEN {} ELSE {row}
  OBVIOUS
<1>5. ~Waits(t, row.table, row.key) /\ task' = [task EXCEPT ![t].pc = "snapshot", ![t].tx = rows]
  <2>1. Resolve(t, row, "snapshot")
    BY <1>2 DEF _resolve_source_system
  <2>2. /\ ~Waits(t, row.table, row.key)
        /\ task' = [task EXCEPT ![t].pc = "snapshot",
                                ![t].tx = IF Has(t, row.table, row.key) THEN task[t].tx
                                          ELSE task[t].tx \cup {row}]
    BY <1>0, <2>1 DEF Resolve
  <2>3. rows = IF Has(t, row.table, row.key) THEN task[t].tx ELSE task[t].tx \cup {row}
    BY <1>1, <1>4
  <2> QED
    BY <2>2, <2>3
<1>6. PICK s : s = [task[t] EXCEPT !.pc = "snapshot", !.tx = rows]
  OBVIOUS
<1>7. task' = [task EXCEPT ![t] = s]
  BY <1>0, <1>5, <1>6
<1>8. /\ IsTask(s) /\ s.pc = "snapshot" /\ s.tx = task[t].tx \cup rows /\ s.code = task[t].code
      /\ s.kind = task[t].kind /\ s.doc = task[t].doc /\ s.got = task[t].got
  BY <1>0, <1>1, <1>6 DEF IsTask
<1>9. /\ Unique(rows) /\ Written(task[t].pc) \subseteq Written(s.pc)
      /\ \A r \in rows : RowRight(r) /\ r.by = t /\ r.table \in Written(s.pc) /\ r.table = "system"
  <2>1. RowRight(row)
    BY <1>3 DEF RowRight, Tables
  <2>2. Written("system") = {} /\ Written("snapshot") = {"system"}
    BY DEF Written
  <2>3. Unique(rows)
    BY <1>4, OneRow
  <2> QED
    BY <1>1, <1>3, <1>4, <1>8, <2>1, <2>2, <2>3
<1>10. ASSUME NEW r \in rows, NEW q \in AllRows PROVE ~SameKey(r, q)
  <2>1. r = row /\ ~Has(t, row.table, row.key)
    BY <1>4
  <2> QED
    BY <1>5, <2>1, FreshKey DEF SameKey
<1>11. PcRight(s) /\ KnownRight(s) /\ StoredRight(s)
  BY <1>0, <1>1, <1>8 DEF PcRight, KnownRight, StoredRight, Script, Ended
<1>12. ScriptRight(s)
  BY <1>0, <1>1, <1>8, <1>9 DEF ScriptRight, Script
<1> QED
  BY <1>1, <1>7, <1>8, <1>9, <1>10, <1>11, <1>12, Writes

(* Rows of different tables have different keys. *)
LEMMA ThreeRows ==
    ASSUME NEW rows, NEW a, NEW b, NEW c, rows \subseteq {a, b, c},
           a.table # b.table, a.table # c.table, b.table # c.table
    PROVE  Unique(rows)
PROOF
  BY DEF Unique, SameKey

LEMMA ProvenanceKeeps ==
    ASSUME IngInv, NEW t \in Tasks, persist_source_provenance(t)
    PROVE  IngInv'
PROOF
<1>0. /\ TaskRight(t, task[t]) /\ IsTask(task[t]) /\ t \in DOMAIN task /\ PcRight(task[t])
      /\ task = [u \in Tasks |-> task[u]] /\ KnownRight(task[t]) /\ ScriptRight(task[t])
      /\ StoredRight(task[t]) /\ task[t].doc \in Docs /\ task[t].kind \in Kinds
      /\ TxRight(t, task[t])
  BY TaskFacts DEF TaskRight
<1>1. /\ task[t].pc = "snapshot" /\ Plain /\ ~Waits(t, "asset", AssetKey(t))
      /\ ~Waits(t, "snapshot", <<AssetKey(t), Content(t)>>)
  BY DEF persist_source_provenance, Plain
<1>2. task[t].kind # "project"
  BY <1>0, <1>1 DEF PcRight, Ended, Script
<1>3. t \in Scripts <=> Script(task[t])
  BY DEF Scripts, Script
<1>4. PICK content \in Docs : content = Content(t)
  BY <1>0, <1>1, <1>3 DEF Content, ScriptRight
<1>5. PICK held : /\ held = IF t \in Scripts THEN Unset ELSE task[t].doc
                  /\ held # Unset => held \in Docs /\ file[held] = "whole"
  BY <1>0, <1>1, <1>3 DEF StoredRight
<1>6. PICK asset : asset = Row("asset", AssetKey(t), Unset, t)
  OBVIOUS
<1>7. PICK snap : snap = Row("snapshot", <<AssetKey(t), content>>, held, t)
  OBVIOUS
<1>8. PICK obs : obs = Row("observation", t, content, t)
  OBVIOUS
<1>9. /\ asset.table = "asset" /\ asset.key = AssetKey(t) /\ asset.by = t
      /\ snap.table = "snapshot" /\ snap.key = <<AssetKey(t), content>> /\ snap.key[2] = content
      /\ snap.val = held /\ snap.by = t
      /\ obs.table = "observation" /\ obs.key = t /\ obs.by = t
  BY <1>6, <1>7, <1>8 DEF Row
<1>10. content # Unset
  BY IngestionAssumption
<1>11. RowRight(asset) /\ RowRight(snap) /\ RowRight(obs)
  <2>1. {"asset", "snapshot", "observation"} \subseteq Tables
    BY DEF Tables
  <2>2. RowRight(asset)
    BY <1>9, <2>1 DEF RowRight
  <2>3. RowRight(snap)
    BY <1>5, <1>9, <1>10, <2>1 DEF RowRight
  <2>4. RowRight(obs)
    BY <1>9, <2>1 DEF RowRight
  <2> QED
    BY <2>2, <2>3, <2>4
<1>12. PICK rows : rows = (IF Has(t, "asset", asset.key) THEN {} ELSE {asset})
                           \cup (IF Has(t, "snapshot", snap.key) THEN {} ELSE {snap}) \cup {obs}
  OBVIOUS
<1>13. PICK pc : pc = IF task[t].kind = "upload" THEN "rows" ELSE "family"
  OBVIOUS
<1>14. PICK tx : tx = task[t].tx \cup rows
  OBVIOUS
<1>15. task' = [task EXCEPT ![t].pc = pc, ![t].tx = tx]
  <2>1. rows = IF t \in Scripts THEN persist_filesystem_source_provenance(t)
               ELSE persist_uploaded_source_provenance(t)
    <3>1. _resolve_source_asset(t) = IF Has(t, "asset", asset.key) THEN {} ELSE {asset}
      BY <1>6, <1>9 DEF _resolve_source_asset
    <3>2. _resolve_source_snapshot(t, held) = IF Has(t, "snapshot", snap.key) THEN {} ELSE {snap}
      BY <1>4, <1>7, <1>9, Zenon DEF _resolve_source_snapshot
    <3>3. Observation(t) = obs
      BY <1>4, <1>8 DEF Observation
    <3>4. rows = _resolve_source_asset(t) \cup _resolve_source_snapshot(t, held) \cup {Observation(t)}
      BY <1>12, <3>1, <3>2, <3>3, Zenon
    <3>5. CASE t \in Scripts
      BY <1>5, <3>4, <3>5, Zenon DEF persist_filesystem_source_provenance
    <3>6. CASE t \notin Scripts
      BY <1>5, <3>4, <3>6, Zenon DEF persist_uploaded_source_provenance
    <3> QED
      BY <3>5, <3>6, Zenon
  <2>2. task' = [task EXCEPT
          ![t].pc = IF task[t].kind = "upload" THEN "rows" ELSE "family",
          ![t].tx = task[t].tx \cup IF t \in Scripts THEN persist_filesystem_source_provenance(t)
                                    ELSE persist_uploaded_source_provenance(t)]
    BY <1>0 DEF persist_source_provenance
  <2> QED
    BY <1>13, <1>14, <2>1, <2>2
<1>16. PICK s : s = [task[t] EXCEPT !.pc = pc, !.tx = tx]
  OBVIOUS
<1>17. task' = [task EXCEPT ![t] = s]
  BY <1>0, <1>15, <1>16
<1>18. /\ IsTask(s) /\ s.pc = pc /\ s.tx = task[t].tx \cup rows /\ s.code = task[t].code
       /\ s.kind = task[t].kind /\ s.doc = task[t].doc
  BY <1>0, <1>14, <1>16 DEF IsTask
<1>19. /\ Written("snapshot") = {"system"}
       /\ {"system", "asset", "snapshot", "observation"} \subseteq Written(pc)
  BY <1>13 DEF Written
<1>20. Unique(rows) /\ rows \subseteq {asset, snap, obs}
  <2>1. rows \subseteq {asset, snap, obs}
    BY <1>12
  <2> QED
    BY <1>9, <2>1, ThreeRows
<1>21. \A r \in rows : RowRight(r) /\ r.by = t /\ r.table \in Written(s.pc)
  BY <1>9, <1>11, <1>18, <1>19, <1>20
<1>22. \A r \in s.tx : r.table # "family"
  BY <1>0, <1>1, <1>9, <1>18, <1>19, <1>20 DEF TxRight
<1>23. ASSUME NEW r \in rows, NEW q \in AllRows PROVE ~SameKey(r, q)
  <2>1. CASE r = asset
    <3>1. ~Has(t, "asset", asset.key)
      BY <1>9, <1>12, <2>1
    <3> QED
      BY <1>1, <1>9, <2>1, <3>1, FreshKey DEF SameKey
  <2>2. CASE r = snap
    <3>1. ~Has(t, "snapshot", snap.key)
      BY <1>9, <1>12, <2>2
    <3> QED
      BY <1>1, <1>4, <1>9, <2>2, <3>1, FreshKey DEF SameKey
  <2>3. CASE r = obs
    <3>1. "observation" \notin Written(task[t].pc) /\ task[t].pc \notin Ended
      BY <1>1, <1>19 DEF Ended
    <3> QED
      BY <1>9, <2>3, <3>1, OwnKey DEF SameKey
  <2> QED
    BY <1>20, <2>1, <2>2, <2>3
<1>24. PcRight(s) /\ KnownRight(s) /\ StoredRight(s)
  BY <1>0, <1>2, <1>13, <1>18 DEF PcRight, KnownRight, StoredRight, Script, Kinds
<1>25. ScriptRight(s)
  BY <1>13, <1>18, <1>22 DEF ScriptRight
<1> QED
  BY <1>1, <1>17, <1>18, <1>19, <1>20, <1>21, <1>23, <1>24, <1>25, Writes

(* The rows that end a transaction have the task in their keys. *)
LEMMA LastRows ==
    ASSUME IngInv, NEW t \in Tasks, task[t].pc \in {"rows", "insert", "verify"}, NEW r,
           r.by = t,
           \/ r.table \in {"run", "job", "upload"} /\ r.key = t
           \/ r.table = "audit" /\ r.key[1] = t
    PROVE  RowRight(r) /\ r.table \in Written("commit") /\ \A q \in AllRows : ~SameKey(r, q)
PROOF
<1>1. /\ \A table \in {"run", "job", "upload", "audit"} : table \notin Written(task[t].pc)
      /\ task[t].pc \notin Ended /\ Written("commit") = Tables
  BY DEF Written, Ended
<1>2. RowRight(r) /\ r.table \in Written("commit")
  BY <1>1 DEF RowRight, Tables
<1>3. CASE r.table \in {"run", "job", "upload"} /\ r.key = t
  BY <1>1, <1>2, <1>3, OwnKey DEF SameKey
<1>4. CASE r.table = "audit" /\ r.key[1] = t
  BY <1>1, <1>2, <1>4, OwnKey DEF SameKey
<1> QED
  BY <1>2, <1>3, <1>4

LEMMA EverythingWritten ==
    ASSUME NEW pc, pc \in {"snapshot", "family", "rows", "insert", "verify"}
    PROVE  Written(pc) \subseteq Written("commit")
PROOF
  BY DEF Written, Tables

LEMMA EnqueueKeeps ==
    ASSUME IngInv, NEW t \in Tasks, enqueue_processing_job(t)
    PROVE  IngInv'
PROOF
<1>0. /\ IsTask(task[t]) /\ t \in DOMAIN task /\ task = [u \in Tasks |-> task[u]]
  BY TaskFacts
<1>1. task[t].pc = "rows" /\ task[t].kind = "upload" /\ Plain
  BY DEF enqueue_processing_job, Plain
<1>2. PICK a : a = ingestion_run(t)
  OBVIOUS
<1>3. PICK b : b = Row("job", t, task[t].product, t)
  OBVIOUS
<1>4. PICK c : c = Row("audit", <<t, "upload.completed">>, task[t].doc, t)
  OBVIOUS
<1>5. PICK d : d = Row("audit", <<t, "processing.requested">>, t, t)
  OBVIOUS
<1>6. PICK rows : rows = {a, b, c, d}
  OBVIOUS
<1>7. PICK tx : tx = task[t].tx \cup rows
  OBVIOUS
<1>8. task' = [task EXCEPT ![t].pc = "commit", ![t].tx = tx]
  BY <1>0, <1>2, <1>3, <1>4, <1>5, <1>6, <1>7 DEF enqueue_processing_job
<1>9. PICK s : s = [task[t] EXCEPT !.pc = "commit", !.tx = tx]
  OBVIOUS
<1>10. task' = [task EXCEPT ![t] = s]
  BY <1>0, <1>8, <1>9
<1>11. /\ IsTask(s) /\ s.pc = "commit" /\ s.tx = task[t].tx \cup rows /\ s.code = task[t].code
       /\ s.kind = task[t].kind /\ s.doc = task[t].doc
  BY <1>0, <1>7, <1>9 DEF IsTask
<1>12. /\ a.table = "run" /\ a.key = t /\ a.by = t /\ b.table = "job" /\ b.key = t /\ b.by = t
       /\ c.table = "audit" /\ c.key[1] = t /\ c.key[2] = "upload.completed" /\ c.by = t
       /\ d.table = "audit" /\ d.key[1] = t /\ d.key[2] = "processing.requested" /\ d.by = t
  BY <1>2, <1>3, <1>4, <1>5 DEF ingestion_run, Row
<1>13. Unique(rows)
  BY <1>6, <1>12 DEF Unique, SameKey
<1>14. \A r \in rows : /\ RowRight(r) /\ r.by = t /\ r.table \in Written(s.pc)
                       /\ \A q \in AllRows : ~SameKey(r, q)
  BY <1>1, <1>6, <1>11, <1>12, LastRows
<1>15. PcRight(s) /\ KnownRight(s) /\ ScriptRight(s) /\ StoredRight(s)
  BY <1>1, <1>11 DEF PcRight, KnownRight, ScriptRight, StoredRight, Script
<1> QED
  BY <1>1, <1>10, <1>11, <1>13, <1>14, <1>15, EverythingWritten, Writes

LEMMA RecordKeeps ==
    ASSUME IngInv, NEW t \in Tasks, record_upload(t)
    PROVE  IngInv'
PROOF
<1>0. /\ IsTask(task[t]) /\ t \in DOMAIN task /\ task = [u \in Tasks |-> task[u]]
  BY TaskFacts
<1>1. task[t].pc = "rows" /\ task[t].kind = "forestry" /\ Plain
  BY DEF record_upload, Plain
<1>2. PICK a : a = snapshot_upload(t)
  OBVIOUS
<1>3. PICK b : b = Row("audit", <<t, "forestry.snapshot.uploaded">>, task[t].new, t)
  OBVIOUS
<1>4. PICK rows : rows = {a, b}
  OBVIOUS
<1>5. PICK tx : tx = task[t].tx \cup rows
  OBVIOUS
<1>6. task' = [task EXCEPT ![t].pc = "commit", ![t].tx = tx]
  BY <1>0, <1>2, <1>3, <1>4, <1>5 DEF record_upload
<1>7. PICK s : s = [task[t] EXCEPT !.pc = "commit", !.tx = tx]
  OBVIOUS
<1>8. task' = [task EXCEPT ![t] = s]
  BY <1>0, <1>6, <1>7
<1>9. /\ IsTask(s) /\ s.pc = "commit" /\ s.tx = task[t].tx \cup rows /\ s.code = task[t].code
      /\ s.kind = task[t].kind /\ s.doc = task[t].doc
  BY <1>0, <1>5, <1>7 DEF IsTask
<1>10. /\ a.table = "upload" /\ a.key = t /\ a.by = t
       /\ b.table = "audit" /\ b.key[1] = t /\ b.by = t
  BY <1>2, <1>3 DEF snapshot_upload, Row
<1>11. Unique(rows)
  BY <1>4, <1>10 DEF Unique, SameKey
<1>12. \A r \in rows : /\ RowRight(r) /\ r.by = t /\ r.table \in Written(s.pc)
                       /\ \A q \in AllRows : ~SameKey(r, q)
  BY <1>1, <1>4, <1>9, <1>10, LastRows
<1>13. PcRight(s) /\ KnownRight(s) /\ ScriptRight(s) /\ StoredRight(s)
  BY <1>1, <1>9 DEF PcRight, KnownRight, ScriptRight, StoredRight, Script
<1> QED
  BY <1>1, <1>8, <1>9, <1>11, <1>12, <1>13, EverythingWritten, Writes

LEMMA InsertKeeps ==
    ASSUME IngInv, NEW t \in Tasks, insert_import(t)
    PROVE  IngInv'
PROOF
<1>0. /\ IsTask(task[t]) /\ t \in DOMAIN task /\ task = [u \in Tasks |-> task[u]]
      /\ PcRight(task[t]) /\ KnownRight(task[t])
  BY TaskFacts DEF TaskRight
<1>1. /\ task[t].pc = "insert" /\ task[t].kind = "project" /\ ~Waits(t, "import", task[t].doc)
      /\ file' = file /\ temps' = temps /\ source' = source
  BY <1>0 DEF insert_import, PcRight, Ended
<1>2. temps \ {t} = temps /\ task[t].pc \notin Ended
  BY <1>1, NoTemp DEF Ended
<1>3. CASE Refuses(t, 500)
  BY <1>1, <1>2, <1>3, RefusesKeeps
<1>4. CASE ~Refuses(t, 500)
  <2>1. PICK a : a = _insert_import(t)
    OBVIOUS
  <2>2. PICK b : b = Row("audit", <<t, "import.validated">>, task[t].doc, t)
    OBVIOUS
  <2>3. PICK rows : rows = {a, b}
    OBVIOUS
  <2>4. PICK tx : tx = task[t].tx \cup rows
    OBVIOUS
  <2>5. /\ ~Has(t, "import", task[t].doc) /\ Plain
        /\ task' = [task EXCEPT ![t].pc = "commit", ![t].new = TRUE, ![t].tx = tx]
    BY <1>0, <1>1, <1>4, <2>1, <2>2, <2>3, <2>4 DEF insert_import, Plain
  <2>6. PICK s : s = [task[t] EXCEPT !.pc = "commit", !.new = TRUE, !.tx = tx]
    OBVIOUS
  <2>7. task' = [task EXCEPT ![t] = s]
    BY <1>0, <2>5, <2>6
  <2>8. /\ IsTask(s) /\ s.pc = "commit" /\ s.tx = task[t].tx \cup rows /\ s.code = task[t].code
        /\ s.kind = task[t].kind /\ s.doc = task[t].doc /\ s.known = task[t].known
    BY <1>0, <2>4, <2>6 DEF IsTask
  <2>9. /\ a.table = "import" /\ a.key = task[t].doc /\ a.by = t
        /\ b.table = "audit" /\ b.key[1] = t /\ b.by = t
    BY <2>1, <2>2 DEF _insert_import, Row
  <2>10. Unique(rows)
    BY <2>3, <2>9 DEF Unique, SameKey
  <2>11. RowRight(a) /\ a.table \in Written("commit") /\ \A q \in AllRows : ~SameKey(a, q)
    <3>1. \A q \in AllRows : ~SameKey(a, q)
      BY <1>1, <2>5, <2>9, FreshKey DEF SameKey
    <3> QED
      BY <2>9, <3>1 DEF RowRight, Written, Tables
  <2>12. RowRight(b) /\ b.table \in Written("commit") /\ \A q \in AllRows : ~SameKey(b, q)
    BY <1>1, <2>9, LastRows
  <2>13. \A r \in rows : /\ RowRight(r) /\ r.by = t /\ r.table \in Written(s.pc)
                         /\ \A q \in AllRows : ~SameKey(r, q)
    BY <2>3, <2>8, <2>9, <2>11, <2>12
  <2>14. ~s.known
    BY <1>0, <1>1, <2>8 DEF KnownRight
  <2>15. KnownRight(s)
    BY <2>8, <2>14 DEF KnownRight
  <2>16. PcRight(s) /\ ScriptRight(s) /\ StoredRight(s)
    BY <1>1, <2>8 DEF PcRight, ScriptRight, StoredRight, Script
  <2> QED
    BY <1>1, <2>5, <2>7, <2>8, <2>10, <2>13, <2>15, <2>16, EverythingWritten, Writes
<1> QED
  BY <1>3, <1>4

LEMMA FamilyKeeps ==
    ASSUME IngInv, NEW t \in Tasks, persist_parsed_family(t)
    PROVE  IngInv'
PROOF
<1>0. /\ IsTask(task[t]) /\ t \in DOMAIN task /\ task = [u \in Tasks |-> task[u]]
      /\ PcRight(task[t]) /\ TxRight(t, task[t]) /\ task[t].kind \in Kinds
  BY TaskFacts DEF TaskRight
<1> DEFINE f == Traits[Parsed(t)].family
<1>1. /\ task[t].pc = "family" /\ ~Waits(t, "family", f) /\ task[t].kind \in {"forestry", "import", "dry-run"}
      /\ file' = file /\ temps' = temps /\ source' = source
  BY <1>0 DEF persist_parsed_family, PcRight, Ended, Script
<1>2. temps \ {t} = temps /\ task[t].pc \notin Ended
  BY <1>1, NoTemp DEF Ended
<1>3. CASE Refuses(t, 409)
  BY <1>1, <1>2, <1>3, RefusesKeeps
<1>4. CASE ~Refuses(t, 409)
  <2>0. t \in Scripts <=> Script(task[t])
    BY DEF Scripts, Script
  <2>1. PICK a : a = _insert_shapefile_snapshot(t)
    OBVIOUS
  <2>2. PICK rows : rows = IF Has(t, "family", f) THEN {} ELSE {a}
    OBVIOUS
  <2>3. PICK pc : pc = IF t \in Scripts THEN "verify" ELSE "rows"
    OBVIOUS
  <2>4. PICK new : new = ~Has(t, "family", f)
    OBVIOUS
  <2>5. PICK tx : tx = task[t].tx \cup rows
    OBVIOUS
  <2>6. Plain /\ task' = [task EXCEPT ![t].pc = pc, ![t].new = new, ![t].tx = tx]
    <3>1. /\ db' = db
          /\ task' = [task EXCEPT ![t].pc = IF t \in Scripts THEN "verify" ELSE "rows",
                   ![t].new = ~Has(t, "family", f),
                   ![t].tx = task[t].tx \cup IF Has(t, "family", f) THEN {}
                                             ELSE {_insert_shapefile_snapshot(t)}]
      BY <1>0, <1>4 DEF persist_parsed_family
    <3>2. tx = task[t].tx \cup IF Has(t, "family", f) THEN {} ELSE {_insert_shapefile_snapshot(t)}
      BY <2>1, <2>2, <2>5
    <3> HIDE DEF f
    <3> QED
      BY <1>1, <2>3, <2>4, <3>1, <3>2 DEF Plain
  <2>7. PICK s : s = [task[t] EXCEPT !.pc = pc, !.new = new, !.tx = tx]
    OBVIOUS
  <2>8. task' = [task EXCEPT ![t] = s]
    BY <1>0, <2>6, <2>7
  <2>9. /\ IsTask(s) /\ s.pc = pc /\ s.tx = task[t].tx \cup rows /\ s.code = task[t].code
        /\ s.kind = task[t].kind /\ s.doc = task[t].doc /\ s.stat = task[t].stat
    BY <1>0, <2>5, <2>7 DEF IsTask
  <2>10. /\ a.table = "family" /\ a.key = f /\ a.by = t /\ a.val.layer = Traits[Parsed(t)].layer
    BY <2>1 DEF _insert_shapefile_snapshot, Row
  <2>11. Unique(rows)
    BY <2>2, OneRow
  <2>12. Written("family") = {"system", "asset", "snapshot", "observation"}
         /\ Written(pc) = {"system", "asset", "snapshot", "observation", "family"}
    BY <2>3 DEF Written
  <2>13. RowRight(a)
    BY <2>10 DEF RowRight, Tables
  <2>14. \A r \in rows : r = a /\ RowRight(r) /\ r.by = t /\ r.table \in Written(s.pc)
    BY <2>2, <2>9, <2>10, <2>12, <2>13
  <2>15. ASSUME NEW r \in rows, NEW q \in AllRows PROVE ~SameKey(r, q)
    <3>1. ~Has(t, "family", f) /\ r = a
      BY <2>2
    <3> HIDE DEF f
    <3> QED
      BY <1>1, <2>10, <3>1, FreshKey DEF SameKey
  <2>16. PcRight(s) /\ KnownRight(s) /\ StoredRight(s)
    BY <1>1, <2>0, <2>3, <2>9 DEF PcRight, KnownRight, StoredRight, Script
  <2>17. ScriptRight(s)
    <3>1. ASSUME Script(s), NEW r \in s.tx, r.table = "family"
          PROVE  r.key = Traits[s.stat].family /\ r.val.layer = Traits[s.stat].layer
      <4>1. r \in rows
        BY <1>0, <1>1, <2>9, <2>12, <3>1 DEF TxRight
      <4>2. Parsed(t) = s.stat
        BY <2>0, <2>9, <3>1 DEF Parsed, Script
      <4> QED
        BY <2>10, <2>14, <4>1, <4>2
    <3>2. s.pc \in {"verify", "rows"}
      BY <2>3, <2>9
    <3> QED
      BY <3>1, <3>2 DEF ScriptRight
  <2>18. Written(task[t].pc) \subseteq Written(s.pc)
    BY <1>1, <2>9, <2>12
  <2> QED
    BY <1>1, <2>6, <2>8, <2>9, <2>11, <2>14, <2>15, <2>16, <2>17, <2>18, Writes
<1> QED
  BY <1>3, <1>4

LEMMA ImportKeeps ==
    ASSUME IngInv, NEW t \in Tasks, run_import(t)
    PROVE  IngInv'
PROOF
<1>0. /\ IsTask(task[t]) /\ t \in DOMAIN task /\ task = [u \in Tasks |-> task[u]]
      /\ PcRight(task[t]) /\ TxRight(t, task[t]) /\ ScriptRight(task[t])
  BY TaskFacts DEF TaskRight
<1>1. /\ task[t].pc = "verify" /\ ~Waits(t, "published", 1) /\ Script(task[t])
      /\ file' = file /\ temps' = temps /\ source' = source
  BY <1>0 DEF run_import, PcRight, Ended
<1>2. temps \ {t} = temps /\ task[t].pc \notin Ended
  BY <1>1, NoTemp DEF Ended
<1>3. CASE Refuses(t, 422)
  BY <1>1, <1>2, <1>3, RefusesKeeps
<1>4. CASE ~Refuses(t, 422)
  <2>0. Parsed(t) = task[t].stat
    BY <1>1 DEF Parsed, Scripts, Script
  <2>1. PICK family : family = Traits[task[t].stat].family
    OBVIOUS
  <2>2. PICK a : a = Row("published", 1, family, t)
    OBVIOUS
  <2>3. PICK b : b = Row("audit", <<t, "forestry.snapshot.imported">>, family, t)
    OBVIOUS
  <2>4. PICK rows : rows = (IF Has(t, "published", 1) THEN {} ELSE {a})
                           \cup (IF task[t].kind = "import" /\ task[t].new THEN {b} ELSE {})
    OBVIOUS
  <2>5. PICK tx : tx = task[t].tx \cup rows
    OBVIOUS
  <2>6. /\ Plain /\ observed_checks(t)
        /\ task' = [task EXCEPT ![t].pc = "commit", ![t].tx = tx]
    <3>1. /\ db' = db /\ observed_checks(t)
          /\ task' = [task EXCEPT ![t].pc = "commit", ![t].tx = task[t].tx
                  \cup (IF Has(t, "published", 1) THEN {}
                        ELSE {Row("published", 1, Traits[Parsed(t)].family, t)})
                  \cup (IF task[t].kind = "import" /\ task[t].new
                        THEN {Row("audit", <<t, "forestry.snapshot.imported">>, Traits[Parsed(t)].family, t)}
                        ELSE {})]
      BY <1>0, <1>4 DEF run_import
    <3>2. tx = task[t].tx
                  \cup (IF Has(t, "published", 1) THEN {}
                        ELSE {Row("published", 1, Traits[Parsed(t)].family, t)})
                  \cup (IF task[t].kind = "import" /\ task[t].new
                        THEN {Row("audit", <<t, "forestry.snapshot.imported">>, Traits[Parsed(t)].family, t)}
                        ELSE {})
      BY <2>0, <2>1, <2>2, <2>3, <2>4, <2>5
    <3> QED
      BY <1>1, <3>1, <3>2 DEF Plain
  <2>7. PICK s : s = [task[t] EXCEPT !.pc = "commit", !.tx = tx]
    OBVIOUS
  <2>8. task' = [task EXCEPT ![t] = s]
    BY <1>0, <2>6, <2>7
  <2>9. /\ IsTask(s) /\ s.pc = "commit" /\ s.tx = task[t].tx \cup rows /\ s.code = task[t].code
        /\ s.kind = task[t].kind /\ s.doc = task[t].doc /\ s.stat = task[t].stat
    BY <1>0, <2>5, <2>7 DEF IsTask
  <2>10. /\ a.table = "published" /\ a.key = 1 /\ a.by = t /\ a.val = family
         /\ b.table = "audit" /\ b.key[1] = t /\ b.by = t
    BY <2>2, <2>3 DEF Row
  <2>11. Unique(rows)
    BY <2>4, <2>10 DEF Unique, SameKey
  <2>12. RowRight(a) /\ a.table \in Written("commit")
    BY <2>10 DEF RowRight, Written, Tables
  <2>13. ~Has(t, "published", 1) => \A q \in AllRows : ~SameKey(a, q)
    BY <1>1, <2>10, FreshKey DEF SameKey
  <2>14. RowRight(b) /\ b.table \in Written("commit") /\ \A q \in AllRows : ~SameKey(b, q)
    BY <1>1, <2>10, LastRows
  <2>15. \A r \in rows : /\ r = a \/ r = b
                         /\ RowRight(r) /\ r.by = t /\ r.table \in Written(s.pc)
                         /\ \A q \in AllRows : ~SameKey(r, q)
    BY <2>4, <2>9, <2>10, <2>12, <2>13, <2>14
  <2>16. PcRight(s) /\ KnownRight(s) /\ StoredRight(s) /\ Script(s)
    BY <1>1, <2>9 DEF PcRight, KnownRight, StoredRight, Script
  <2>17. /\ Traits[s.stat].family = Traits[Pinned].family /\ Traits[s.stat].layer = Traits[Pinned].layer
    BY <2>0, <2>6, <2>9 DEF observed_checks
  <2>18. "published" \notin Written("verify")
    BY DEF Written
  <2>19. \A r \in s.tx : r.table = "published" => r.val = Traits[Pinned].family
    BY <1>0, <1>1, <2>1, <2>9, <2>10, <2>15, <2>17, <2>18 DEF TxRight
  <2>20. \A r \in s.tx : r.table = "family" =>
           r.key = Traits[s.stat].family /\ r.val.layer = Traits[s.stat].layer
    <3>1. ASSUME NEW r \in s.tx, r.table = "family" PROVE r \in task[t].tx
      BY <2>9, <2>10, <2>15, <3>1
    <3> QED
      BY <1>0, <1>1, <2>9, <3>1 DEF ScriptRight
  <2>21. ScriptRight(s)
    BY <2>9, <2>17, <2>19, <2>20 DEF ScriptRight
  <2> QED
    BY <1>1, <2>6, <2>8, <2>9, <2>11, <2>15, <2>16, <2>21, EverythingWritten, Writes
<1> QED
  BY <1>3, <1>4

LEMMA IngStep == IngInv /\ [IngestNext]_ingestVars => IngInv'
PROOF
<1> SUFFICES ASSUME IngInv, [IngestNext]_ingestVars PROVE IngInv'
  OBVIOUS
<1>1. ASSUME NEW t \in Tasks, TaskStep(t) PROVE IngInv'
  BY <1>1, StoreSteps, CheckSteps, ProjectSteps, ReadingSteps, CommitKeeps, AuditKeeps, SystemKeeps,
     ProvenanceKeeps, EnqueueKeeps, RecordKeeps, InsertKeeps, FamilyKeeps, ImportKeeps
     DEF TaskStep, ProvenanceStep, ProjectStep, ImportStep
<1>2. ASSUME UNCHANGED ingestVars PROVE IngInv'
  <2>1. IngInv' <=> IngInv
    BY <1>2 DEF ingestVars, IngInv, TaskRight, IsTask, PcRight, TxRight, KnownRight, ScriptRight,
                StoredRight, RowRight, DbRight, CommittedRow, PinnedRow, Unique, AllRows, SameKey,
                FilesRight, TempsRemoved
  <2> QED
    BY <2>1
<1> QED
  BY <1>1, <1>2, FaultKeeps, KillKeeps, SourceKeeps DEF IngestNext, Quiet

(* The tables and the object store agree whatever fails, is killed or overlaps *)
(* (RecordedIsTrue: LocalObjectStore.put, the provenance inserts, the upload and *)
(* projection routes, and the controlled import).                               *)
THEOREM RecordedCorrect == IngestSpec => []RecordedIsTrue
PROOF
<1>1. IngestInit => IngInv
  <2> SUFFICES ASSUME IngestInit PROVE IngInv
    OBVIOUS
  <2>1. PICK c \in Casts :
          /\ task = [t \in Tasks |-> [kind |-> c.is[t].kind, product |-> c.is[t].product,
                                      doc |-> c.is[t].doc, pc |-> "start", tx |-> {}, code |-> 0,
                                      new |-> FALSE, known |-> FALSE, stat |-> Unset, got |-> Unset]]
          /\ source = [doc |-> c.source, mtime |-> 0]
    BY DEF IngestInit
  <2>2. /\ c.source \in Docs
        /\ c.is \in [Tasks -> [kind : Kinds, product : {"transelect", "forestry"}, doc : Docs]]
    BY IngestionAssumption
  <2>3. ASSUME NEW t \in Tasks
        PROVE  /\ IsTask(task[t]) /\ task[t].kind \in Kinds /\ task[t].doc \in Docs /\ task[t].code = 0
               /\ task[t].pc = "start" /\ task[t].tx = {} /\ ~task[t].new /\ ~task[t].known
    <3>1. c.is[t].kind \in Kinds /\ c.is[t].doc \in Docs
      BY <2>2
    <3> QED
      BY <2>1, <3>1 DEF IsTask
  <2>4. ASSUME NEW t \in Tasks PROVE TaskRight(t, task[t])
    BY <2>3 DEF TaskRight, PcRight, TxRight, KnownRight, ScriptRight, StoredRight
  <2>5. DbRight /\ AllRows = {} /\ Unique(AllRows)
    BY <2>3 DEF IngestInit, DbRight, AllRows, Unique
  <2>6. FilesRight
    BY <2>1, <2>2 DEF IngestInit, FilesRight, TempsRemoved
  <2>7. DOMAIN task = Tasks /\ task = [t \in Tasks |-> task[t]]
    BY <2>1
  <2> QED
    BY <2>4, <2>5, <2>6, <2>7 DEF IngInv
<1> QED
  BY <1>1, IngStep, InvGives, PTL DEF IngestSpec

-----------------------------------------------------------------------------
(* Security events: the invariant *)

Empty == noted = <<>> /\ refused = <<>>

(* The five places of a note, one by one. *)
Apart ==
    /\ IsInjective(noted) /\ Once(batch) /\ Once(stored) /\ Once(lost)
    /\ Range(noted) \cap (Named(batch) \cup Named(stored) \cup Named(lost)) = {}
    /\ Named(batch) \cap (Named(stored) \cup Named(lost)) = {}
    /\ Named(stored) \cap Named(lost) = {}
    /\ dropped.notes \cap (Range(noted) \cup Named(batch) \cup Named(stored) \cup Named(lost)) = {}

(* Once the task was asked to stop in its sleep, it only has its last round before it. *)
LastRound == stop = "waiting" /\ loop # "waiting" => Empty

SecInv ==
    /\ SecTypeOK /\ IsFiniteSet(DOMAIN refused)
    /\ Apart /\ OnlyBadRowsLost /\ LastRound
    /\ (loop \in {"waiting", "purge"} => batch = <<>>)

LEMMA RowsJoined ==
    ASSUME NEW s \in Seq(EventRow), NEW t \in Seq(EventRow)
    PROVE  /\ s \o t \in Seq(EventRow)
           /\ Range(s \o t) = Range(s) \cup Range(t)
           /\ Named(s \o t) = Named(s) \cup Named(t)
           /\ Once(s \o t) <=> Once(s) /\ Once(t) /\ Named(s) \cap Named(t) = {}
<1>1. /\ s \o t \in Seq(EventRow) /\ Len(s \o t) = Len(s) + Len(t) /\ Len(s) \in Nat /\ Len(t) \in Nat
      /\ DOMAIN s = 1..Len(s) /\ DOMAIN t = 1..Len(t) /\ DOMAIN (s \o t) = 1..(Len(s) + Len(t))
      /\ \A i \in 1..Len(s) : (s \o t)[i] = s[i]
      /\ \A i \in 1..Len(t) : (s \o t)[Len(s) + i] = t[i]
  OBVIOUS
<1> DEFINE st == s \o t
<1>2. \A i \in DOMAIN st : \/ i \in DOMAIN s /\ st[i] = s[i]
                           \/ i - Len(s) \in DOMAIN t /\ st[i] = t[i - Len(s)]
  <2> SUFFICES ASSUME NEW i \in DOMAIN st
               PROVE  \/ i \in DOMAIN s /\ st[i] = s[i]
                      \/ i - Len(s) \in DOMAIN t /\ st[i] = t[i - Len(s)]
    OBVIOUS
  <2>1. CASE i <= Len(s)
    BY <1>1, <2>1
  <2>2. CASE i > Len(s)
    <3>1. i - Len(s) \in 1..Len(t) /\ Len(s) + (i - Len(s)) = i
      BY <1>1, <2>2
    <3> QED
      BY <1>1, <3>1
  <2> QED
    BY <1>1, <2>1, <2>2
<1>3. \A i \in DOMAIN s : i \in DOMAIN st /\ st[i] = s[i]
  BY <1>1
<1>4. \A i \in DOMAIN t : Len(s) + i \in DOMAIN st /\ st[Len(s) + i] = t[i]
  BY <1>1
<1>5. st \in Seq(EventRow)
  BY <1>1
<1> HIDE DEF st
<1>6. Range(st) = Range(s) \cup Range(t)
  BY <1>2, <1>3, <1>4 DEF Range
<1>7. Named(st) = Named(s) \cup Named(t)
  BY <1>6 DEF Named
<1>8. ASSUME Once(st)
      PROVE  Once(s) /\ Once(t) /\ Named(s) \cap Named(t) = {}
  <2>1. Once(s)
    BY <1>3, <1>8 DEF Once
  <2>2. Once(t)
    <3> SUFFICES ASSUME NEW i \in DOMAIN t, NEW j \in DOMAIN t, t[i].kind = "note", t[i] = t[j]
                 PROVE  i = j
      BY DEF Once
    <3>1. Len(s) + i = Len(s) + j
      BY <1>4, <1>8 DEF Once
    <3> QED
      BY <1>1, <3>1
  <2>3. ASSUME NEW n \in Named(s), n \in Named(t)
        PROVE  FALSE
    <3>1. PICK i \in DOMAIN s : s[i].kind = "note" /\ s[i].note = n
      BY <2>3 DEF Named, Range
    <3>2. PICK j \in DOMAIN t : t[j].kind = "note" /\ t[j].note = n
      BY <2>3 DEF Named, Range
    <3>3. s[i] \in EventRow /\ t[j] \in EventRow
      BY <1>1
    <3>4. s[i] = [kind |-> "note", note |-> n] /\ t[j] = [kind |-> "note", note |-> n]
      BY <3>1, <3>2, <3>3 DEF EventRow
    <3>5. i = Len(s) + j
      BY <1>3, <1>4, <1>8, <3>1, <3>4 DEF Once
    <3> QED
      BY <1>1, <3>5
  <2> QED
    BY <2>1, <2>2, <2>3
<1>9. ASSUME Once(s), Once(t), Named(s) \cap Named(t) = {}
      PROVE  Once(st)
  <2> SUFFICES ASSUME NEW i \in DOMAIN st, NEW j \in DOMAIN st, st[i].kind = "note", st[i] = st[j]
               PROVE  i = j
    BY DEF Once
  <2>1. CASE i \in DOMAIN s /\ st[i] = s[i]
    <3>1. CASE j \in DOMAIN s /\ st[j] = s[j]
      BY <1>9, <2>1, <3>1 DEF Once
    <3>2. CASE j - Len(s) \in DOMAIN t /\ st[j] = t[j - Len(s)]
      <4>1. st[i].note \in Named(s)
        BY <2>1 DEF Named, Range
      <4>2. st[i].note \in Named(t)
        BY <3>2 DEF Named, Range
      <4> QED
        BY <1>9, <4>1, <4>2
    <3> QED
      BY <1>2, <3>1, <3>2
  <2>2. CASE i - Len(s) \in DOMAIN t /\ st[i] = t[i - Len(s)]
    <3>1. CASE j \in DOMAIN s /\ st[j] = s[j]
      <4>1. st[i].note \in Named(t)
        BY <2>2 DEF Named, Range
      <4>2. st[i].note \in Named(s)
        BY <3>1 DEF Named, Range
      <4> QED
        BY <1>9, <4>1, <4>2
    <3>2. CASE j - Len(s) \in DOMAIN t /\ st[j] = t[j - Len(s)]
      <4>1. i - Len(s) = j - Len(s)
        BY <1>9, <2>2, <3>2 DEF Once
      <4>2. i \in Int /\ j \in Int /\ Len(s) \in Int
        BY <1>1 DEF st
      <4> QED
        BY <4>1, <4>2
    <3> QED
      BY <1>2, <3>1, <3>2
  <2> QED
    BY <1>2, <2>1, <2>2
<1> QED
  BY <1>5, <1>6, <1>7, <1>8, <1>9 DEF st

(* No rows. *)
LEMMA NoRows ==
    <<>> \in Seq(EventRow) /\ Named(<<>>) = {} /\ Once(<<>>) /\ Range(<<>>) = {} /\ IsInjective(<<>>)
<1>1. <<>> \in Seq(EventRow) /\ DOMAIN <<>> = {}
  OBVIOUS
<1> QED
  BY <1>1 DEF Named, Once, Range, IsInjective

(* One row. *)
LEMMA OneRowOnly ==
    ASSUME NEW r \in EventRow
    PROVE  /\ <<r>> \in Seq(EventRow) /\ Once(<<r>>) /\ Range(<<r>>) = {r}
           /\ Named(<<r>>) = IF r.kind = "note" THEN {r.note} ELSE {}
<1>1. <<r>> \in Seq(EventRow) /\ DOMAIN <<r>> = {1} /\ <<r>>[1] = r
  OBVIOUS
<1> DEFINE s == <<r>>
<1>2. s \in Seq(EventRow) /\ DOMAIN s = {1} /\ s[1] = r
  BY <1>1
<1> HIDE DEF s
<1>3. Range(s) = {r}
  BY <1>2 DEF Range
<1>4. Once(s) /\ (Named(s) = IF r.kind = "note" THEN {r.note} ELSE {})
  BY <1>2, <1>3 DEF Once, Named
<1> QED
  BY <1>2, <1>3, <1>4 DEF s

(* Rows that are there are the first of them and the others. *)
LEMMA FirstRow ==
    ASSUME NEW s \in Seq(EventRow), s # <<>>
    PROVE  Head(s) \in EventRow /\ Tail(s) \in Seq(EventRow) /\ s = <<Head(s)>> \o Tail(s)
<1>1. Head(s) \in EventRow /\ Tail(s) \in Seq(EventRow)
  BY HeadTailProperties
<1>2. Len(s) \in 1..Len(s) /\ 1 \in 1..Len(s)
  BY EmptySeq
<1>3. SubSeq(s, 1, Len(s)) = <<s[1]>> \o SubSeq(s, 2, Len(s))
  <2>1. SubSeq(s, 1, Len(s)) = <<s[1]>> \o SubSeq(s, 1 + 1, Len(s))
    BY <1>2, SubSeqRecursiveFirst, Zenon
  <2> QED
    BY <2>1
<1>4. SubSeq(s, 1, Len(s)) = s
  OBVIOUS
<1>5. Tail(s) = SubSeq(s, 2, Len(s))
  BY TailIsSubSeq, Zenon
<1>6. Head(s) = s[1]
  OBVIOUS
<1> QED
  BY <1>1, <1>3, <1>4, <1>5, <1>6, Zenon

(* What the rows of a drain are: a note each, and counts without one. *)
LEMMA NoteRows ==
    ASSUME NEW s \in Seq(Notes), IsInjective(s)
    PROVE  LET rows == [i \in DOMAIN s |-> NoteRow(s[i])] IN
           rows \in Seq(EventRow) /\ Once(rows) /\ Named(rows) = Range(s)
<1> DEFINE rows == [i \in DOMAIN s |-> NoteRow(s[i])]
<1>1. Len(s) \in Nat /\ DOMAIN s = 1..Len(s) /\ \A i \in DOMAIN s : s[i] \in Notes
  OBVIOUS
<1>2. \A i \in DOMAIN s : NoteRow(s[i]) \in EventRow /\ NoteRow(s[i]).kind = "note" /\ NoteRow(s[i]).note = s[i]
  BY <1>1 DEF NoteRow, EventRow
<1>3. rows \in Seq(EventRow)
  BY <1>1, <1>2
<1>4. DOMAIN rows = DOMAIN s /\ \A i \in DOMAIN s : rows[i] = NoteRow(s[i])
  OBVIOUS
<1> HIDE DEF rows
<1>5. \A i \in DOMAIN s : rows[i].kind = "note" /\ rows[i].note = s[i]
  BY <1>2, <1>4
<1>6. Once(rows)
  BY <1>4, <1>5 DEF Once, IsInjective
<1>7. Named(rows) = Range(s)
  BY <1>4, <1>5 DEF Named, Range
<1> QED
  BY <1>3, <1>6, <1>7 DEF rows

LEMMA CountRows ==
    ASSUME NEW f, IsFiniteSet(DOMAIN f), DOMAIN f \subseteq Keys, \A k \in DOMAIN f : f[k] \in Nat \ {0}
    PROVE  LET rows == SetToSeq({CountRow(k, f[k]) : k \in DOMAIN f}) IN
           rows \in Seq(EventRow) /\ Once(rows) /\ Named(rows) = {}
<1> DEFINE C == {CountRow(k, f[k]) : k \in DOMAIN f}
           g == [k \in DOMAIN f |-> CountRow(k, f[k])]
           rows == SetToSeq(C)
<1>1. IsFiniteSet(C)
  <2>1. g \in Surjection(DOMAIN f, C)
    BY DEF Surjection
  <2> HIDE DEF g, C
  <2> QED
    BY <2>1, FS_Surjection
<1>2. \A r \in C : r \in EventRow /\ r.kind = "count"
  BY DEF CountRow, EventRow
<1> HIDE DEF C
<1>3. Cardinality(C) \in Nat /\ ExistsBijection(1..Cardinality(C), C)
  BY <1>1, FS_CardinalityType
<1>4. PICK h \in [1..Cardinality(C) -> C] : IsInjective(h)
  BY <1>3 DEF ExistsBijection, Bijection, Injection
<1>5. rows \in [1..Cardinality(C) -> C]
  BY <1>3, <1>4 DEF SetToSeq
<1> HIDE DEF rows
<1>6. rows \in Seq(EventRow) /\ \A i \in DOMAIN rows : rows[i].kind = "count"
  BY <1>2, <1>3, <1>5
<1>7. Once(rows) /\ Named(rows) = {}
  BY <1>6 DEF Once, Named, Range
<1> QED
  BY <1>6, <1>7 DEF rows, C

(* What the invariant says, one by one. *)
LEMMA SecGives ==
    ASSUME SecInv
    PROVE  /\ noted \in Seq(Notes) /\ Len(noted) <= MaxBuffered
           /\ DOMAIN refused \subseteq Keys /\ Cardinality(DOMAIN refused) <= MaxBuffered
           /\ IsFiniteSet(DOMAIN refused) /\ \A k \in DOMAIN refused : refused[k] \in Nat \ {0}
           /\ dropped \in [notes : SUBSET Notes, refused : Nat]
           /\ batch \in Seq(EventRow) /\ stored \in Seq(EventRow) /\ lost \in Seq(EventRow)
           /\ minute \in 0..MaxMinute
           /\ loop \in {"waiting", "batch", "rows", "purge", "ended"}
           /\ stop \in {"no", "waiting", "batch", "rows", "purge", "ended"}
           /\ IsInjective(noted) /\ Once(batch) /\ Once(stored) /\ Once(lost)
           /\ Range(noted) \cap (Named(batch) \cup Named(stored) \cup Named(lost)) = {}
           /\ Named(batch) \cap (Named(stored) \cup Named(lost)) = {}
           /\ Named(stored) \cap Named(lost) = {}
           /\ dropped.notes \cap (Range(noted) \cup Named(batch) \cup Named(stored) \cup Named(lost)) = {}
           /\ ~outage => \A r \in Range(lost) : IsBad(r)
           /\ stop = "waiting" /\ loop # "waiting" => Empty
           /\ loop \in {"waiting", "purge"} => batch = <<>>
BY DEF SecInv, SecTypeOK, Apart, OnlyBadRowsLost, LastRound

LEMMA SecInitInv == SecInit => SecInv
<1> SUFFICES ASSUME SecInit
             PROVE  SecInv
  OBVIOUS
<1>1. Cardinality(DOMAIN refused) = 0 /\ IsFiniteSet(DOMAIN refused) /\ DOMAIN refused = {}
  <2>1. DOMAIN refused = {}
    BY DEF SecInit
  <2> QED
    BY <2>1, FS_EmptySet
<1>2. noted \in Seq(Notes) /\ Len(noted) = 0
  BY DEF SecInit
<1>3. 0 <= MaxBuffered /\ 0 \in 0..MaxMinute
  BY SecurityAssumption DEF SecurityAssumption
<1>4. SecTypeOK
  BY <1>1, <1>2, <1>3, NoRows DEF SecTypeOK, SecInit
<1>5. Apart
  BY NoRows DEF Apart, SecInit
<1> QED
  BY <1>1, <1>4, <1>5, NoRows DEF SecInv, OnlyBadRowsLost, LastRound, SecInit

(* Rows of three places. *)
LEMMA RowsTogether ==
    ASSUME NEW a \in Seq(EventRow), NEW b \in Seq(EventRow), NEW c \in Seq(EventRow)
    PROVE  /\ Named(a \o b \o c) = Named(a) \cup Named(b) \cup Named(c)
           /\ Once(a \o b \o c)
                <=> /\ Once(a) /\ Once(b) /\ Once(c)
                    /\ Named(a) \cap (Named(b) \cup Named(c)) = {}
                    /\ Named(b) \cap Named(c) = {}
<1>1. /\ a \o b \in Seq(EventRow)
      /\ Named(a \o b) = Named(a) \cup Named(b)
      /\ Once(a \o b) <=> Once(a) /\ Once(b) /\ Named(a) \cap Named(b) = {}
  BY RowsJoined
<1>2. /\ Named((a \o b) \o c) = Named(a \o b) \cup Named(c)
      /\ Once((a \o b) \o c) <=> Once(a \o b) /\ Once(c) /\ Named(a \o b) \cap Named(c) = {}
  BY <1>1, RowsJoined
<1> HIDE DEF Named, Once
<1> QED
  BY <1>1, <1>2

LEMMA SecAccounts == SecInv => NotesAccounted
<1> SUFFICES ASSUME SecInv
             PROVE  NotesAccounted
  OBVIOUS
<1>1. InOnePlace
  BY SecGives, RowsTogether DEF InOnePlace
<1>2. StopFlushes
  BY SecGives DEF StopFlushes, Empty
<1> QED
  BY <1>1, <1>2 DEF NotesAccounted, SecInv

LEMMA RowsLater ==
    ASSUME batch' \in Seq(EventRow), stored' \in Seq(EventRow), lost' \in Seq(EventRow)
    PROVE  Named(batch' \o stored' \o lost') = Named(batch') \cup Named(stored') \cup Named(lost')
BY RowsTogether

(* A note is buffered or dropped, and it is a new one. *)
LEMMA NoteKeeps ==
    ASSUME SecInv, NEW n \in Notes, observe_note(n)
    PROVE  SecInv' /\ Seen \subseteq Seen'
<1>1. /\ stop = "no" /\ n \notin Range(noted) /\ n \notin dropped.notes
      /\ n \notin Named(batch) /\ n \notin Named(stored) /\ n \notin Named(lost)
  BY SecGives, RowsTogether DEF observe_note, Seen
<1>2. /\ UNCHANGED <<refused, minute, loop, batch, stored, lost, outage, stop>>
  BY DEF observe_note
<1>3. OnlyBadRowsLost' /\ LastRound' /\ (loop \in {"waiting", "purge"} => batch = <<>>)' /\ IsFiniteSet(DOMAIN refused)'
  BY <1>1, <1>2, SecGives DEF OnlyBadRowsLost, LastRound, SecInv
<1>4. CASE NoRoom
  <2>1. dropped' = [dropped EXCEPT !.notes = @ \cup {n}] /\ noted' = noted
    BY <1>4 DEF observe_note
  <2>2. dropped'.notes = dropped.notes \cup {n} /\ dropped' \in [notes : SUBSET Notes, refused : Nat]
    BY <2>1, SecGives
  <2>3. SecTypeOK'
    BY <1>2, <2>1, <2>2, SecGives DEF SecTypeOK
  <2>4. Apart'
    BY <1>1, <1>2, <2>1, <2>2, SecGives DEF Apart
  <2>5. Seen \subseteq Seen'
    BY <1>2, <2>1, <2>2 DEF Seen
  <2> QED
    BY <1>3, <2>3, <2>4, <2>5 DEF SecInv
<1>5. CASE ~NoRoom
  <2>1. noted' = Append(noted, n) /\ dropped' = dropped
    BY <1>5 DEF observe_note
  <2>2. /\ noted' \in Seq(Notes) /\ Len(noted') = Len(noted) + 1 /\ Len(noted) \in Nat
        /\ DOMAIN noted = 1..Len(noted) /\ DOMAIN noted' = 1..(Len(noted) + 1)
        /\ \A i \in 1..Len(noted) : noted'[i] = noted[i]
        /\ noted'[Len(noted) + 1] = n
    BY <2>1, SecGives
  <2>3. Range(noted') = Range(noted) \cup {n}
    BY <2>2 DEF Range
  <2>4. \A i \in DOMAIN noted : noted[i] # n
    BY <1>1 DEF Range
  <2>5. IsInjective(noted')
    <3> SUFFICES ASSUME NEW i \in DOMAIN noted', NEW j \in DOMAIN noted', noted'[i] = noted'[j]
                 PROVE  i = j
      BY DEF IsInjective
    <3>1. CASE i \in DOMAIN noted /\ j \in DOMAIN noted
      BY <2>2, <3>1, SecGives DEF IsInjective
    <3>2. CASE i \notin DOMAIN noted \/ j \notin DOMAIN noted
      BY <2>2, <2>4, <3>2
    <3> QED
      BY <3>1, <3>2
  <2>6. Len(noted') <= MaxBuffered
    BY <1>5, <2>2, SecGives, SecurityAssumption DEF NoRoom, SecurityAssumption
  <2>7. SecTypeOK'
    BY <1>2, <2>1, <2>2, <2>6, SecGives DEF SecTypeOK
  <2>8. Apart'
    BY <1>1, <1>2, <2>1, <2>3, <2>5, SecGives DEF Apart
  <2>9. Seen \subseteq Seen'
    BY <1>2, <2>1, <2>3 DEF Seen
  <2> QED
    BY <1>3, <2>7, <2>8, <2>9 DEF SecInv
<1> QED
  BY <1>4, <1>5

(* A 401 answer is counted or dropped. *)
LEMMA RefusalKeeps ==
    ASSUME SecInv, NEW c \in Callers, observe_refusal(c)
    PROVE  SecInv' /\ Seen \subseteq Seen'
<1> DEFINE slot == <<c, minute>>
<1>1. stop = "no" /\ UNCHANGED <<noted, minute, loop, batch, stored, lost, outage, stop>>
  BY DEF observe_refusal
<1>2. slot \in Keys
  BY SecGives DEF Keys
<1>3. OnlyBadRowsLost' /\ LastRound' /\ (loop \in {"waiting", "purge"} => batch = <<>>)'
  BY <1>1, SecGives DEF OnlyBadRowsLost, LastRound
<1>4. CASE slot \notin DOMAIN refused /\ Cardinality(DOMAIN refused) >= MaxBuffered
  <2>1. dropped' = [dropped EXCEPT !.refused = @ + 1] /\ refused' = refused
    BY <1>4 DEF observe_refusal
  <2>2. dropped'.notes = dropped.notes /\ dropped' \in [notes : SUBSET Notes, refused : Nat]
    BY <2>1, SecGives
  <2>3. SecTypeOK' /\ Apart'
    BY <1>1, <2>1, <2>2, SecGives DEF SecTypeOK, Apart
  <2>4. Seen \subseteq Seen'
    BY <1>1, <2>2 DEF Seen
  <2> QED
    BY <1>3, <2>1, <2>3, <2>4 DEF SecInv
<1>5. CASE ~(slot \notin DOMAIN refused /\ Cardinality(DOMAIN refused) >= MaxBuffered)
  <2>1. /\ refused' = [k \in DOMAIN refused \cup {slot} |->
                          IF k # slot THEN refused[k]
                          ELSE IF slot \in DOMAIN refused THEN refused[slot] + 1 ELSE 1]
        /\ dropped' = dropped
    BY <1>5 DEF observe_refusal
  <2> HIDE DEF slot
  <2>2. DOMAIN refused' = DOMAIN refused \cup {slot}
    BY <2>1
  <2>3. \A k \in DOMAIN refused' : refused'[k] \in Nat \ {0}
    BY <2>1, SecGives
  <2>4. /\ IsFiniteSet(DOMAIN refused \cup {slot})
        /\ Cardinality(DOMAIN refused \cup {slot})
             = IF slot \in DOMAIN refused THEN Cardinality(DOMAIN refused) ELSE Cardinality(DOMAIN refused) + 1
    BY SecGives, FS_AddElement
  <2>5. Cardinality(DOMAIN refused) \in Nat
    BY SecGives, FS_CardinalityType
  <2>6. IsFiniteSet(DOMAIN refused') /\ Cardinality(DOMAIN refused') <= MaxBuffered
    BY <1>5, <2>2, <2>4, <2>5, SecGives, SecurityAssumption DEF SecurityAssumption
  <2>7. SecTypeOK'
    BY <1>1, <1>2, <2>1, <2>2, <2>3, <2>6, SecGives DEF SecTypeOK
  <2>8. Apart' /\ Seen \subseteq Seen'
    BY <1>1, <2>1, SecGives DEF Apart, Seen
  <2> QED
    BY <1>3, <2>6, <2>7, <2>8 DEF SecInv
<1> QED
  BY <1>4, <1>5

(* A round begins: what was buffered is the rows to write. *)
LEMMA WakeKeeps ==
    ASSUME SecInv, wake
    PROVE  SecInv' /\ Seen \subseteq Seen'
<1>1. /\ loop = "waiting" /\ loop' = "batch" /\ batch = <<>> /\ noted' = <<>> /\ refused' = <<>>
      /\ UNCHANGED <<dropped, minute, stored, lost, outage, stop>>
  BY SecGives DEF wake, Drained
<1> DEFINE notes == [i \in DOMAIN noted |-> NoteRow(noted[i])]
           counts == SetToSeq({CountRow(k, refused[k]) : k \in DOMAIN refused})
<1>2. notes \in Seq(EventRow) /\ Once(notes) /\ Named(notes) = Range(noted)
  BY SecGives, NoteRows
<1>3. counts \in Seq(EventRow) /\ Once(counts) /\ Named(counts) = {}
  BY SecGives, CountRows
<1>4. batch' = notes \o counts
  BY DEF wake, Drained
<1> HIDE DEF notes, counts
<1>5. batch' \in Seq(EventRow) /\ Once(batch') /\ Named(batch') = Range(noted)
  <2>1. /\ notes \o counts \in Seq(EventRow)
        /\ Named(notes \o counts) = Named(notes) \cup Named(counts)
        /\ Once(notes \o counts) <=> Once(notes) /\ Once(counts) /\ Named(notes) \cap Named(counts) = {}
    BY <1>2, <1>3, RowsJoined
  <2> QED
    BY <1>2, <1>3, <1>4, <2>1, Zenon
<1>6. DOMAIN refused' = {} /\ IsFiniteSet(DOMAIN refused') /\ Cardinality(DOMAIN refused') = 0
  BY <1>1, FS_EmptySet
<1>7. noted' \in Seq(Notes) /\ Len(noted') = 0 /\ 0 <= MaxBuffered
  BY <1>1, SecurityAssumption DEF SecurityAssumption
<1>8. SecTypeOK'
  BY <1>1, <1>5, <1>6, <1>7, SecGives DEF SecTypeOK
<1>9. Range(noted') = {} /\ IsInjective(noted')
  BY <1>1, NoRows
<1>10. Apart'
  BY <1>1, <1>5, <1>9, SecGives DEF Apart
<1>11. Seen \subseteq Seen'
  <2>1. Named(batch \o stored \o lost) = Named(stored) \cup Named(lost)
    <3>1. Named(batch \o stored \o lost) = Named(batch) \cup Named(stored) \cup Named(lost)
      BY SecGives, RowsTogether
    <3>2. Named(batch) = {}
      BY <1>1, NoRows
    <3> QED
      BY <3>1, <3>2
  <2>2. batch' \in Seq(EventRow) /\ stored' \in Seq(EventRow) /\ lost' \in Seq(EventRow)
    BY <1>1, <1>5, SecGives
  <2>3. Named(batch' \o stored' \o lost') = Named(batch') \cup Named(stored') \cup Named(lost')
    BY <2>2, RowsTogether
  <2> QED
    BY <1>1, <1>5, <1>9, <2>1, <2>3 DEF Seen
<1>12. OnlyBadRowsLost' /\ LastRound' /\ (loop \in {"waiting", "purge"} => batch = <<>>)'
  BY <1>1, SecGives DEF OnlyBadRowsLost, LastRound, Empty
<1> QED
  BY <1>6, <1>8, <1>10, <1>11, <1>12 DEF SecInv

(* Rows go from the batch to the table or are lost; what is noted stays. *)
LEMMA RowsMove ==
    ASSUME SecInv, NEW kept \in Seq(EventRow), NEW given_up \in Seq(EventRow), NEW rest \in Seq(EventRow),
           Named(batch) = Named(kept) \cup Named(given_up) \cup Named(rest),
           Once(kept), Once(given_up), Once(rest),
           Named(kept) \cap (Named(given_up) \cup Named(rest)) = {}, Named(given_up) \cap Named(rest) = {},
           stored' = stored \o kept, lost' = lost \o given_up, batch' = rest,
           UNCHANGED <<noted, refused, dropped, minute, stop>>,
           loop' \in {"rows", "purge"}, loop # "waiting", loop' = "purge" => rest = <<>>,
           ~outage' => ~outage /\ \A r \in Range(given_up) : IsBad(r)
    PROVE  SecInv' /\ Seen \subseteq Seen'
<1>1. /\ stored' \in Seq(EventRow) /\ Named(stored') = Named(stored) \cup Named(kept)
      /\ Once(stored') <=> Once(stored) /\ Once(kept) /\ Named(stored) \cap Named(kept) = {}
  <2>1. stored \in Seq(EventRow)
    BY SecGives
  <2> QED
    BY <2>1, RowsJoined
<1>2. /\ lost' \in Seq(EventRow) /\ Named(lost') = Named(lost) \cup Named(given_up)
      /\ Range(lost') = Range(lost) \cup Range(given_up)
      /\ Once(lost') <=> Once(lost) /\ Once(given_up) /\ Named(lost) \cap Named(given_up) = {}
  <2>1. lost \in Seq(EventRow)
    BY SecGives
  <2> QED
    BY <2>1, RowsJoined
<1>3. Apart'
  <2> HIDE DEF Named, Once, Range, IsInjective
  <2>1. IsInjective(noted') /\ Once(batch') /\ Once(stored') /\ Once(lost')
    BY <1>1, <1>2, SecGives
  <2>2. /\ Range(noted') = Range(noted) /\ dropped'.notes = dropped.notes /\ Named(batch') = Named(rest)
        /\ Named(stored') = Named(stored) \cup Named(kept) /\ Named(lost') = Named(lost) \cup Named(given_up)
    BY <1>1, <1>2
  <2>3. /\ Range(noted) \cap (Named(batch) \cup Named(stored) \cup Named(lost)) = {}
        /\ Named(batch) \cap (Named(stored) \cup Named(lost)) = {}
        /\ Named(stored) \cap Named(lost) = {}
        /\ dropped.notes \cap (Range(noted) \cup Named(batch) \cup Named(stored) \cup Named(lost)) = {}
    BY SecGives
  <2> QED
    BY <2>1, <2>2, <2>3 DEF Apart
<1>4. SecTypeOK' /\ IsFiniteSet(DOMAIN refused)'
  BY <1>1, <1>2, SecGives DEF SecTypeOK
<1>5. OnlyBadRowsLost'
  BY <1>2, SecGives DEF OnlyBadRowsLost
<1>6. LastRound' /\ (loop \in {"waiting", "purge"} => batch = <<>>)'
  BY SecGives DEF LastRound, Empty
<1>7. Seen \subseteq Seen'
  <2>1. Named(batch \o stored \o lost) = Named(batch) \cup Named(stored) \cup Named(lost)
    BY SecGives, RowsTogether
  <2>2. batch' \in Seq(EventRow)
    OBVIOUS
  <2>3. Named(batch' \o stored' \o lost') = Named(batch') \cup Named(stored') \cup Named(lost')
    <3>1. stored' \in Seq(EventRow) /\ lost' \in Seq(EventRow)
      BY <1>1, <1>2
    <3> QED
      BY <2>2, <3>1, RowsLater
  <2>4. Named(batch \o stored \o lost) \subseteq Named(batch' \o stored' \o lost')
    BY <1>1, <1>2, <2>1, <2>3
  <2> QED
    BY <2>4 DEF Seen
<1> QED
  BY <1>3, <1>4, <1>5, <1>6, <1>7 DEF SecInv

(* A batch is stored, lost, or left to be written row by row. *)
LEMMA BatchKeeps ==
    ASSUME SecInv, write_batch
    PROVE  SecInv' /\ Seen \subseteq Seen'
<1>1. loop = "batch" /\ UNCHANGED <<noted, refused, dropped, minute, stop>>
  BY DEF write_batch
<1>2. /\ batch \in Seq(EventRow) /\ Once(batch) /\ stored \in Seq(EventRow) /\ lost \in Seq(EventRow)
      /\ <<>> \in Seq(EventRow) /\ Named(<<>>) = {} /\ Once(<<>>) /\ Range(<<>>) = {}
      /\ stored \o <<>> = stored /\ lost \o <<>> = lost
  <2>1. batch \in Seq(EventRow) /\ Once(batch) /\ stored \in Seq(EventRow) /\ lost \in Seq(EventRow)
    BY SecGives
  <2> QED
    BY <2>1, NoRows, ConcatEmptySeq
<1>3. CASE ~Rejected(Range(batch)) /\ stored' = stored \o batch /\ batch' = <<>> /\ loop' = "purge"
           /\ UNCHANGED <<lost, outage>>
  <2>1. lost' = lost \o <<>>
    BY <1>2, <1>3
  <2> QED
    BY <1>1, <1>2, <1>3, <2>1, RowsMove
<1>4. CASE Rejected(Range(batch)) /\ stored' = stored \o LeftByRejection(batch) /\ loop' = "rows"
           /\ UNCHANGED <<batch, lost, outage>>
  <2>1. lost' = lost \o <<>> /\ stored' = stored \o <<>>
    BY <1>2, <1>4 DEF LeftByRejection
  <2> QED
    BY <1>1, <1>2, <1>4, <2>1, RowsMove
<1>5. CASE Rejected(Range(batch)) /\ ~RetriesByRow(Range(batch)) /\ lost' = lost \o batch
           /\ batch' = <<>> /\ loop' = "purge" /\ UNCHANGED <<stored, outage>>
  <2>1. Len(batch) <= 1
    BY <1>2, <1>5 DEF RetriesByRow
  <2>2. \A r \in Range(batch) : IsBad(r)
    <3>1. PICK r \in Range(batch) : IsBad(r)
      BY <1>5 DEF Rejected
    <3>2. \A q \in Range(batch) : q = r
      BY <1>2, <2>1, <3>1 DEF Range
    <3> QED
      BY <3>1, <3>2
  <2>3. stored' = stored \o <<>>
    BY <1>2, <1>5
  <2> QED
    BY <1>1, <1>2, <1>5, <2>2, <2>3, RowsMove
<1>6. CASE Range(batch) # {} /\ lost' = lost \o batch /\ outage' = TRUE
           /\ batch' = <<>> /\ loop' = "purge" /\ UNCHANGED stored
  <2>1. stored' = stored \o <<>>
    BY <1>2, <1>6
  <2> QED
    BY <1>1, <1>2, <1>6, <2>1, RowsMove
<1> QED
  BY <1>3, <1>4, <1>5, <1>6 DEF write_batch

(* The first row left is stored or lost. *)
LEMMA RowKeeps ==
    ASSUME SecInv, write_row
    PROVE  SecInv' /\ Seen \subseteq Seen'
<1> DEFINE r == Head(batch)
<1>1. /\ loop = "rows" /\ batch # <<>> /\ batch' = Tail(batch) /\ loop' \in {"rows", "purge"}
      /\ UNCHANGED <<noted, refused, dropped, minute, stop>>
  BY DEF write_row
<1>2. batch \in Seq(EventRow) /\ Once(batch) /\ stored \in Seq(EventRow) /\ lost \in Seq(EventRow)
  BY SecGives
<1>10. loop' = "purge" => Tail(batch) = <<>>
  <2>1. loop' = "purge" => Len(batch) = 1
    BY DEF write_row
  <2>2. Tail(batch) \in Seq(EventRow) /\ Len(Tail(batch)) = Len(batch) - 1
    BY <1>1, <1>2, HeadTailProperties
  <2> QED
    BY <2>1, <2>2, EmptySeq
<1>3. r \in EventRow /\ Tail(batch) \in Seq(EventRow) /\ batch = <<r>> \o Tail(batch)
  BY <1>1, <1>2, FirstRow
<1>4. <<r>> \in Seq(EventRow) /\ Once(<<r>>) /\ Range(<<r>>) = {r}
  BY <1>3, OneRowOnly
<1>5. /\ Named(batch) = Named(<<r>>) \cup Named(Tail(batch))
      /\ Once(Tail(batch)) /\ Named(<<r>>) \cap Named(Tail(batch)) = {}
  <2>1. /\ Named(<<r>> \o Tail(batch)) = Named(<<r>>) \cup Named(Tail(batch))
        /\ Once(<<r>> \o Tail(batch))
             <=> Once(<<r>>) /\ Once(Tail(batch)) /\ Named(<<r>>) \cap Named(Tail(batch)) = {}
    BY <1>3, <1>4, RowsJoined
  <2> QED
    BY <1>2, <1>3, <2>1, Zenon
<1>6. /\ <<>> \in Seq(EventRow) /\ Named(<<>>) = {} /\ Once(<<>>) /\ Range(<<>>) = {}
      /\ stored \o <<>> = stored /\ lost \o <<>> = lost
      /\ Append(stored, r) = stored \o <<r>> /\ Append(lost, r) = lost \o <<r>>
  BY <1>2, <1>3, NoRows, ConcatEmptySeq, AppendIsConcat
<1> DEFINE t == Tail(batch)
<1> HIDE DEF r, t
<1>7. CASE stored' = Append(stored, r) /\ UNCHANGED <<lost, outage>>
  <2>1. stored' = stored \o <<r>> /\ lost' = lost \o <<>>
    BY <1>6, <1>7
  <2> QED
    BY <1>10, <1>1, <1>3, <1>4, <1>5, <1>6, <1>7, <2>1, RowsMove
<1>8. CASE lost' = Append(lost, r) /\ UNCHANGED stored /\ (outage' = TRUE \/ (IsBad(r) /\ outage' = outage))
  <2>1. lost' = lost \o <<r>> /\ stored' = stored \o <<>>
    BY <1>6, <1>8
  <2>2. ~outage' => ~outage /\ \A q \in Range(<<r>>) : IsBad(q)
    BY <1>4, <1>8
  <2> QED
    BY <1>10, <1>1, <1>3, <1>4, <1>5, <1>6, <2>1, <2>2, RowsMove
<1>9. \/ stored' = Append(stored, r) /\ UNCHANGED <<lost, outage>>
      \/ lost' = Append(lost, r) /\ UNCHANGED stored /\ (outage' = TRUE \/ (IsBad(r) /\ outage' = outage))
  BY DEF write_row, Rejected, r
<1> QED
  BY <1>7, <1>8, <1>9

(* Every step keeps the invariant and loses sight of no note. *)
LEMMA SecNextInv == SecInv /\ [SecNext]_secVars => SecInv' /\ Seen \subseteq Seen'
<1> SUFFICES ASSUME SecInv, [SecNext]_secVars
             PROVE  SecInv' /\ Seen \subseteq Seen'
  OBVIOUS
<1>1. ASSUME NEW n \in Notes, observe_note(n)
      PROVE  SecInv' /\ Seen \subseteq Seen'
  BY <1>1, NoteKeeps
<1>2. ASSUME NEW c \in Callers, observe_refusal(c)
      PROVE  SecInv' /\ Seen \subseteq Seen'
  BY <1>2, RefusalKeeps
<1>3. ASSUME UNCHANGED <<noted, refused, dropped, batch, stored, lost, outage>>,
             minute' \in 0..MaxMinute,
             loop' \in {"waiting", "batch", "rows", "purge", "ended"},
             stop' \in {"no", "waiting", "batch", "rows", "purge", "ended"},
             (stop = "waiting" /\ loop # "waiting" => Empty) => (stop' = "waiting" /\ loop' # "waiting" => Empty),
             loop' \in {"waiting", "purge"} => batch = <<>>
      PROVE  SecInv' /\ Seen \subseteq Seen'
  <2>1. SecTypeOK' /\ IsFiniteSet(DOMAIN refused)'
    BY <1>3, SecGives DEF SecTypeOK
  <2>2. Apart' /\ OnlyBadRowsLost' /\ Seen \subseteq Seen'
    BY <1>3, SecGives DEF Apart, OnlyBadRowsLost, Seen
  <2>3. LastRound'
    BY <1>3, SecGives DEF LastRound, Empty
  <2> QED
    BY <1>3, <2>1, <2>2, <2>3 DEF SecInv
<1>4. CASE wake
  BY <1>4, WakeKeeps
<1>5. CASE write_batch
  BY <1>5, BatchKeeps
<1>6. CASE write_row
  BY <1>6, RowKeeps
<1>7. CASE purge
  BY <1>3, <1>7, SecGives DEF purge, AfterPurge
<1>8. CASE stop_maintenance
  BY <1>3, <1>8, SecGives DEF stop_maintenance
<1>9. CASE NextMinute
  BY <1>3, <1>9, SecGives, SecurityAssumption DEF NextMinute, SecurityAssumption
<1>10. CASE UNCHANGED secVars
  BY <1>3, <1>10, SecGives DEF secVars
<1> QED
  BY <1>1, <1>2, <1>4, <1>5, <1>6, <1>7, <1>8, <1>9, <1>10 DEF SecNext, run_maintenance

(* Whatever the database rejects or misses and whenever the application stops, a note *)
(* is in one place, only bad rows are lost while the database answers, and a stop in  *)
(* the task's sleep leaves nothing buffered (SecurityEventRecorder, run_maintenance). *)
THEOREM NotesCorrect == SecSpec => []NotesAccounted
<1>1. SecInit => SecInv
  BY SecInitInv
<1>2. SecInv /\ [SecNext]_secVars => SecInv'
  BY SecNextInv
<1>3. SecInv => NotesAccounted
  BY SecAccounts
<1> QED
  BY <1>1, <1>2, <1>3, PTL DEF SecSpec

(* No note that was raised ever disappears without a trace: it stays buffered, in the *)
(* batch, stored, counted as dropped or among the lost rows of a logged failure.      *)
THEOREM NotesNeverVanish == SecSpec => NotesKept
<1>1. SecInit => SecInv
  BY SecInitInv
<1>2. SecInv /\ [SecNext]_secVars => SecInv' /\ [Seen \subseteq Seen']_secVars
  BY SecNextInv
<1> QED
  BY <1>1, <1>2, PTL DEF SecSpec, NotesKept

=============================================================================
