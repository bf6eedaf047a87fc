------------------------------ MODULE JobQueue ------------------------------
(***************************************************************************)
(* The durable job queue of the ingestion platform: the tables             *)
(* platform.processing_job, processing_attempt and generated_artifact, and *)
(* everything that writes them:                                            *)
(*                                                                         *)
(*   - app/jobs.py        the queue operations (each a few SQL statements) *)
(*   - app/worker.py      run_one_job, the loop of a standalone worker     *)
(*   - app/execution.py   the in-process staging loop and its guard        *)
(*   - routers/ingestion.py   upload (which enqueues) and retry_job        *)
(*                                                                         *)
(* PostgreSQL runs at READ COMMITTED: every statement sees what is         *)
(* committed when it starts, an UPDATE waits for the row lock of another   *)
(* transaction, and a plain SELECT takes no lock.  A handler is therefore  *)
(* cut where it reads without a lock and writes later, and where it        *)
(* commits; everything between is one action.                              *)
(*                                                                         *)
(* A process is one operating system process.  It dies for good (Crash); a *)
(* restarted worker is another member of Procs.  WorkerId says which       *)
(* worker_id a process writes: a standalone worker draws a fresh one       *)
(* (worker.py:139), every staging process writes the same one              *)
(* (execution.py:24).                                                      *)
(***************************************************************************)
EXTENDS Integers, FiniteSets

CONSTANTS
    Jobs,               \* job ids, numbered by created_at
    Procs,              \* worker processes
    StagingProcs,       \* those that run the staging loop
    WorkerIds,          \* the values of worker_id
    WorkerId,           \* which of them each process writes
    Refused,            \* jobs the staging guard refuses (LiDAR, too large)
    Retriers,           \* in-flight calls of retry_job
    CanCrash,           \* processes that may die
    SlowWorkers,        \* processes that may outlive their 120 s lease
    DefaultMaxAttempts, \* column default of max_attempts
    RetryBound,         \* bound: no retry beyond this max_attempts
    ClaimBound          \* bound: no claim beyond this attempt_count

ASSUME JobsAssumption == Jobs \subseteq Nat \ {0}

ASSUME ProcsAssumption ==
    /\ StagingProcs \subseteq Procs
    /\ CanCrash \subseteq Procs
    /\ SlowWorkers \subseteq Procs
    /\ WorkerId \in [Procs -> WorkerIds]

ASSUME BoundsAssumption ==
    /\ Refused \subseteq Jobs
    /\ DefaultMaxAttempts \in Nat \ {0}
    /\ RetryBound \in Nat
    /\ ClaimBound \in Nat

NoJob == 0

NoOwner == "no owner"

NoHolder == "no holder"

ASSUME DistinguishedAssumption ==
    /\ NoOwner \notin WorkerIds
    /\ NoHolder \notin Procs

VARIABLES
    job,        \* platform.processing_job, and whether now() is past the lease
    attempts,   \* platform.processing_attempt
    artifacts,  \* platform.generated_artifact, by job and the claimed attempt
    rowLock,    \* the process whose uncommitted claim holds the job's row
    proc,       \* where each process is in its loop
    retry       \* the job each retry_job call has read as failed

vars == <<job, attempts, artifacts, rowLock, proc, retry>>

----------------------------------------------------------------------------
(* Types *)

JobStatus == {"absent", "queued", "running", "succeeded", "failed"}

JobRow ==
    [status : JobStatus,
     attempt_count : Nat,
     max_attempts : Nat,
     lease_owner : WorkerIds \cup {NoOwner},
     lease_expired : BOOLEAN]

AttemptRow ==
    [job : Jobs, number : Nat, worker : WorkerIds,
     status : {"running", "succeeded", "failed"}]

(* idle: between jobs.  guarded, rejecting: after the staging guard's read. *)
(* claiming: the claim UPDATE ran, its commit did not.  working: claimed.   *)
(* failing: fail_job has read the counters and not written yet.             *)
ProcState ==
    [pc : {"idle", "guarded", "rejecting", "claiming", "working", "failing", "dead"},
     job : Jobs \cup {NoJob},
     attempt : Nat,
     next : {"queued", "failed"}]

Idle == [pc |-> "idle", job |-> NoJob, attempt |-> 0, next |-> "queued"]

(* The type invariant: every row and every process state is well formed. *)
TypeOK ==
    /\ job \in [Jobs -> JobRow]
    /\ attempts \subseteq AttemptRow
    /\ artifacts \subseteq Jobs \X Nat
    /\ rowLock \in [Jobs -> Procs \cup {NoHolder}]
    /\ proc \in [Procs -> ProcState]
    /\ retry \in [Retriers -> Jobs \cup {NoJob}]

Init ==
    /\ job = [j \in Jobs |->
                [status |-> "absent", attempt_count |-> 0,
                 max_attempts |-> DefaultMaxAttempts,
                 lease_owner |-> NoOwner, lease_expired |-> FALSE]]
    /\ attempts = {}
    /\ artifacts = {}
    /\ rowLock = [j \in Jobs |-> NoHolder]
    /\ proc = [p \in Procs |-> Idle]
    /\ retry = [r \in Retriers |-> NoJob]

----------------------------------------------------------------------------
(* The SQL statements of jobs.py *)

(* UPDATE processing_job: a new status, and the lease columns cleared. *)
Unlease(j, status) ==
    [job EXCEPT ![j].status = status,
                ![j].lease_owner = NoOwner,
                ![j].lease_expired = FALSE]

(* Fault: the attempt update forgets worker_id. *)
CloseAttemptsOfAnyWorker(j, w, status) ==
    {IF a.job = j /\ a.status = "running"
        THEN [a EXCEPT !.status = status]
        ELSE a : a \in attempts}

(* UPDATE processing_attempt ... WHERE processing_job_id AND worker_id AND *)
(* status = 'running': every such row, not only the caller's own attempt.  *)
CloseAttempts(j, w, status) ==
    {IF a.job = j /\ a.worker = w /\ a.status = "running"
        THEN [a EXCEPT !.status = status]
        ELSE a : a \in attempts}

(* INSERT ... ON CONFLICT (processing_job_id, attempt_number) DO NOTHING *)
InsertAttempt(j, n, w) ==
    IF \E a \in attempts : a.job = j /\ a.number = n
    THEN attempts
    ELSE attempts \cup {[job |-> j, number |-> n, worker |-> w, status |-> "running"]}

(* Fault: a lease is never reclaimed. *)
ClaimableQueuedOnly(j) == job[j].status = "queued"

(* Fault: running jobs are claimed without looking at the lease. *)
ClaimableIgnoringLease(j) == job[j].status \in {"queued", "running"}

(* The claim's WHERE clause: queued, or running on an expired lease. *)
Claimable(j) ==
    \/ job[j].status = "queued"
    \/ job[j].status = "running" /\ job[j].lease_expired

(* Fault: no FOR UPDATE; row locks are not looked at. *)
UnlockedAlways(j) == TRUE

Unlocked(j) == rowLock[j] = NoHolder

(* FOR UPDATE SKIP LOCKED passes over a row another transaction holds: an  *)
(* uncommitted claim, or a write to the row that is about to commit.       *)
MayBeLocked(j) ==
    \/ ~Unlocked(j)
    \/ \E p \in Procs : /\ proc[p].pc \in {"working", "failing", "rejecting"}
                        /\ proc[p].job = j
    \/ \E r \in Retriers : retry[r] = j

----------------------------------------------------------------------------
(* Upload and retry *)

(* upload: the snapshot, the ingestion run and the queued job commit       *)
(* together.  created_at is the start of the transaction, so a job may     *)
(* appear after a younger one.                                             *)
Enqueue(j) ==
    /\ job[j].status = "absent"
    /\ job' = [job EXCEPT ![j].status = "queued"]
    /\ UNCHANGED <<attempts, artifacts, rowLock, proc, retry>>

(* retry_job: the status is read without a lock; a job that is not failed  *)
(* is answered 409 and nothing changes.                                    *)
RetryRead(r, j) ==
    /\ retry[r] = NoJob
    /\ job[j].status = "failed"
    /\ job[j].max_attempts < RetryBound
    /\ retry' = [retry EXCEPT ![r] = j]
    /\ UNCHANGED <<job, attempts, artifacts, rowLock, proc>>

(* Fault: a retry starts counting attempts again. *)
RetryWriteResettingCount(r) ==
    LET j == retry[r] IN
    /\ j # NoJob
    /\ Unlocked(j)
    /\ job' = [job EXCEPT ![j].status = "queued",
                          ![j].attempt_count = 0,
                          ![j].max_attempts = @ + 1]
    /\ retry' = [retry EXCEPT ![r] = NoJob]
    /\ UNCHANGED <<attempts, artifacts, rowLock, proc>>

(* ... and the UPDATE names the job only: whatever its status is by then,  *)
(* it becomes queued, with its lease columns as they are.                  *)
RetryWrite(r) ==
    LET j == retry[r] IN
    /\ j # NoJob
    /\ Unlocked(j)
    /\ job' = [job EXCEPT ![j].status = "queued",
                          ![j].max_attempts = @ + 1]
    /\ retry' = [retry EXCEPT ![r] = NoJob]
    /\ UNCHANGED <<attempts, artifacts, rowLock, proc>>

----------------------------------------------------------------------------
(* The worker loop *)

(* _run_one_guarded: an unlocked look at the oldest queued job. *)
Oldest(S) == CHOOSE j \in S : \A k \in S : j <= k

QueuedJobs == {j \in Jobs : job[j].status = "queued"}

GuardRead(p) ==
    /\ p \in StagingProcs
    /\ proc[p].pc = "idle"
    /\ proc' = [proc EXCEPT ![p] =
          IF QueuedJobs # {} /\ Oldest(QueuedJobs) \in Refused
          THEN [Idle EXCEPT !.pc = "rejecting", !.job = Oldest(QueuedJobs)]
          ELSE [Idle EXCEPT !.pc = "guarded"]]
    /\ UNCHANGED <<job, attempts, artifacts, rowLock, retry>>

(* The guard refuses its candidate: fail_job_terminal, by job id alone. *)
GuardReject(p) ==
    LET j == proc[p].job IN
    /\ proc[p].pc = "rejecting"
    /\ Unlocked(j)
    /\ job' = Unlease(j, "failed")
    /\ attempts' = CloseAttempts(j, WorkerId[p], "failed")
    /\ proc' = [proc EXCEPT ![p] = Idle]
    /\ UNCHANGED <<artifacts, rowLock, retry>>

(* A standalone worker claims directly, a staging process after its guard. *)
ReadyToClaim(p) ==
    proc[p].pc = IF p \in StagingProcs THEN "guarded" ELSE "idle"

(* claim_next_job, the UPDATE: the oldest claimable row not locked by      *)
(* another transaction is locked; the new column values are not yet        *)
(* visible to anyone.                                                      *)
ClaimSelect(p, j) ==
    /\ ReadyToClaim(p)
    /\ Claimable(j)
    /\ Unlocked(j)
    /\ \A k \in Jobs : k < j /\ Claimable(k) => MayBeLocked(k)
    /\ job[j].attempt_count < ClaimBound
    /\ rowLock' = [rowLock EXCEPT ![j] = p]
    /\ proc' = [proc EXCEPT ![p] = [Idle EXCEPT !.pc = "claiming", !.job = j]]
    /\ UNCHANGED <<job, attempts, artifacts, retry>>

(* Nothing to claim: run_one_job returns False. *)
ClaimNothing(p) ==
    /\ proc[p].pc = "guarded"
    /\ \A k \in Jobs : Claimable(k) => MayBeLocked(k)
    /\ proc' = [proc EXCEPT ![p] = Idle]
    /\ UNCHANGED <<job, attempts, artifacts, rowLock, retry>>

(* ... the attempt row, and the commit that publishes the claim. *)
ClaimCommit(p) ==
    LET j == proc[p].job
        n == job[j].attempt_count + 1 IN
    /\ proc[p].pc = "claiming"
    /\ job' = [job EXCEPT ![j].status = "running",
                          ![j].lease_owner = WorkerId[p],
                          ![j].lease_expired = FALSE,
                          ![j].attempt_count = n]
    /\ attempts' = InsertAttempt(j, n, WorkerId[p])
    /\ rowLock' = [rowLock EXCEPT ![j] = NoHolder]
    /\ proc' = [proc EXCEPT ![p].pc = "working", ![p].attempt = n]
    /\ UNCHANGED <<artifacts, retry>>

(* The source object is gone: fail_job_terminal.  Whether the store still  *)
(* has it is the environment's choice (the staging filesystem is cycled on *)
(* a redeploy, and another upload of the same bytes puts it back).         *)
FailTerminal(p) ==
    LET j == proc[p].job IN
    /\ proc[p].pc = "working"
    /\ Unlocked(j)
    /\ job' = Unlease(j, "failed")
    /\ attempts' = CloseAttempts(j, WorkerId[p], "failed")
    /\ proc' = [proc EXCEPT ![p] = Idle]
    /\ UNCHANGED <<artifacts, rowLock, retry>>

(* The inspection succeeded: the artifact row, complete_job and the audit  *)
(* event are one transaction.  complete_job names the job only.            *)
Complete(p) ==
    LET j == proc[p].job IN
    /\ proc[p].pc = "working"
    /\ Unlocked(j)
    /\ artifacts' = artifacts \cup {<<j, proc[p].attempt>>}
    /\ job' = Unlease(j, "succeeded")
    /\ attempts' = CloseAttempts(j, WorkerId[p], "succeeded")
    /\ proc' = [proc EXCEPT ![p] = Idle]
    /\ UNCHANGED <<rowLock, retry>>

(* Fault: one attempt too many. *)
FailReadOffByOne(p) ==
    LET row == job[proc[p].job] IN
    /\ proc[p].pc = "working"
    /\ proc' = [proc EXCEPT
          ![p].pc = "failing",
          ![p].next = IF row.attempt_count > row.max_attempts
                      THEN "failed" ELSE "queued"]
    /\ UNCHANGED <<job, attempts, artifacts, rowLock, retry>>

(* The inspection raised: fail_job reads the counters without a lock ...   *)
FailRead(p) ==
    LET row == job[proc[p].job] IN
    /\ proc[p].pc = "working"
    /\ proc' = [proc EXCEPT
          ![p].pc = "failing",
          ![p].next = IF row.attempt_count >= row.max_attempts
                      THEN "failed" ELSE "queued"]
    /\ UNCHANGED <<job, attempts, artifacts, rowLock, retry>>

(* ... and writes the status it derived from them. *)
FailWrite(p) ==
    LET j == proc[p].job IN
    /\ proc[p].pc = "failing"
    /\ Unlocked(j)
    /\ job' = Unlease(j, proc[p].next)
    /\ attempts' = CloseAttempts(j, WorkerId[p], "failed")
    /\ proc' = [proc EXCEPT ![p] = Idle]
    /\ UNCHANGED <<artifacts, rowLock, retry>>

----------------------------------------------------------------------------
(* The environment *)

(* p is a live process that has not finished the current attempt of j. *)
Holds(p, j) ==
    /\ proc[p].pc \in {"working", "failing"}
    /\ proc[p].job = j
    /\ proc[p].attempt = job[j].attempt_count

(* now() passes lease_expires_at.  A worker outside SlowWorkers is done    *)
(* with its attempt before that.                                           *)
LeaseExpires(j) ==
    /\ job[j].status = "running"
    /\ ~job[j].lease_expired
    /\ \A p \in Procs \ SlowWorkers : ~Holds(p, j)
    /\ job' = [job EXCEPT ![j].lease_expired = TRUE]
    /\ UNCHANGED <<attempts, artifacts, rowLock, proc, retry>>

(* The process dies, or a database error ends its loop; its open           *)
(* transaction is rolled back.                                             *)
Crash(p) ==
    /\ p \in CanCrash
    /\ proc[p].pc # "dead"
    /\ proc' = [proc EXCEPT ![p] = [Idle EXCEPT !.pc = "dead"]]
    /\ rowLock' = [j \in Jobs |-> IF rowLock[j] = p THEN NoHolder ELSE rowLock[j]]
    /\ UNCHANGED <<job, attempts, artifacts, retry>>

----------------------------------------------------------------------------

WorkerStep(p) ==
    \/ GuardRead(p)
    \/ GuardReject(p)
    \/ \E j \in Jobs : ClaimSelect(p, j)
    \/ ClaimNothing(p)
    \/ ClaimCommit(p)
    \/ FailTerminal(p)
    \/ Complete(p)
    \/ FailRead(p)
    \/ FailWrite(p)

Next ==
    \/ \E j \in Jobs : Enqueue(j)
    \/ \E r \in Retriers, j \in Jobs : RetryRead(r, j)
    \/ \E r \in Retriers : RetryWrite(r)
    \/ \E p \in Procs : WorkerStep(p)
    \/ \E j \in Jobs : LeaseExpires(j)
    \/ \E p \in Procs : Crash(p)

Spec == Init /\ [][Next]_vars

(* A live process keeps looping (worker.py:144, execution.py:98), an open  *)
(* request finishes, and time passes.                                      *)
Fairness ==
    /\ \A p \in Procs : WF_vars(WorkerStep(p))
    /\ \A r \in Retriers : WF_vars(RetryWrite(r))
    /\ \A j \in Jobs : WF_vars(LeaseExpires(j))

FairSpec == Spec /\ Fairness

----------------------------------------------------------------------------
(* Properties *)

(* No attempt is lost or recorded twice: the attempt rows of a job are     *)
(* numbered 1 .. attempt_count, one each.  ON CONFLICT DO NOTHING          *)
(* (jobs.py:110) would silently drop a row if claims, crashes, retries and *)
(* reclaimed leases could ever make attempt_count repeat a value.          *)
AttemptLedger ==
    \A j \in Jobs :
        /\ {a.number : a \in {b \in attempts : b.job = j}} = 1 .. job[j].attempt_count
        /\ \A a, b \in attempts :
              a.job = j /\ b.job = j /\ a.number = b.number => a = b

(* Every process writes a worker_id of its own, as standalone workers do. *)
OwnIds == \A p, q \in Procs : WorkerId[p] = WorkerId[q] => p = q

(* The attempts recorded as succeeded are exactly those that produced an   *)
(* artifact: complete_job (jobs.py:130) closes the caller's own attempt    *)
(* even when the lease was lost meanwhile and the job is in other hands.   *)
ArtifactPerAttempt ==
    artifacts = {<<a.job, a.number>> : a \in {b \in attempts : b.status = "succeeded"}}

(* The deployment the queue is written for: standalone workers that finish *)
(* an attempt within its lease, and one manual retry at a time.            *)
TimelyWorkers ==
    /\ SlowWorkers = {}
    /\ StagingProcs = {}
    /\ \A r, q \in Retriers : r = q

(* Claim exclusivity: between its claim and its last write a process is    *)
(* the only one working on the job, the job is running under its worker_id *)
(* and its attempt is the current one.                                     *)
OneWorkerPerJob ==
    \A p \in Procs :
        proc[p].pc \in {"working", "failing"} =>
            /\ job[proc[p].job].status = "running"
            /\ job[proc[p].job].lease_owner = WorkerId[p]
            /\ Holds(p, proc[p].job)
            /\ \A q \in Procs \ {p} :
                  proc[q].pc \in {"working", "failing"} => proc[q].job # proc[p].job

(* Automatic retries are bounded: an attempt fails at most max_attempts    *)
(* times, manual grants included, although reclaimed leases also add to    *)
(* the attempt_count that fail_job (jobs.py:168) compares with it.         *)
BoundedFailures ==
    \A j \in Jobs :
        Cardinality({a \in attempts : a.job = j /\ a.status = "failed"})
            <= job[j].max_attempts

(* A job once succeeded stays succeeded: no handler takes a finished job   *)
(* out of that status.                                                     *)
SucceededIsFinal ==
    [][\A j \in Jobs : job[j].status = "succeeded" => job'[j].status = "succeeded"]_vars

(* The staging loop never works on a job its guard refuses.                *)
StagingNeverRunsRefused ==
    \A p \in StagingProcs :
        proc[p].pc \in {"working", "failing"} => proc[p].job \notin Refused

(* Every queued job is eventually decided: it succeeds or fails, although  *)
(* workers die, leases have to expire and other jobs are served first.     *)
EveryJobSettles ==
    \A j \in Jobs :
        job[j].status = "queued" ~> job[j].status \in {"succeeded", "failed"}

(* The promise of the queue to its users, JobLifecycle: while leases       *)
(* outlive their workers, a job moves through its statuses as documented,  *)
(* produces its artifact with its success, and success is final.           *)
Lifecycle == INSTANCE JobLifecycle WITH
    status <- [j \in Jobs |-> job[j].status],
    produced <- {j \in Jobs : \E n \in 1 .. job[j].attempt_count : <<j, n>> \in artifacts}

LifecycleSpec == Lifecycle!Spec

=============================================================================
