--------------------------- MODULE JobQueueProofs ---------------------------
(***************************************************************************)
(* Theorems about JobQueue, for every set of jobs, processes and retries   *)
(* and every value of the bounds.                                          *)
(*                                                                         *)
(*   TypeCorrect       the type invariant                                  *)
(*   LedgerCorrect     AttemptLedger, with no assumption on timing         *)
(*   ArtifactsCorrect  ArtifactPerAttempt, when worker ids are unique      *)
(*   ExclusiveClaims   OneWorkerPerJob, for timely standalone workers      *)
(*   LifecycleCorrect  the refinement of JobLifecycle, for the same        *)
(*   FailuresBounded   BoundedFailures, for the same with ids of their own *)
(***************************************************************************)
EXTENDS JobQueue, FiniteSetTheorems, TLAPS

USE JobsAssumption, ProcsAssumption, BoundsAssumption, DistinguishedAssumption

----------------------------------------------------------------------------
(* Type correctness *)

(* A process that is past its claim, or about to reject, names a job. *)
ProcJob ==
    \A p \in Procs :
        proc[p].pc \in {"rejecting", "claiming", "working", "failing"} => proc[p].job \in Jobs

Types == TypeOK /\ ProcJob

(* What CloseAttempts may change of an attempt row is its status. *)
LEMMA CloseAttemptsType ==
    ASSUME NEW j, NEW w, NEW s \in {"succeeded", "failed"}, attempts \subseteq AttemptRow
    PROVE  CloseAttempts(j, w, s) \subseteq AttemptRow
BY DEF CloseAttempts, AttemptRow

(* Unlease keeps the job table well typed. *)
LEMMA UnleaseType ==
    ASSUME NEW j \in Jobs, NEW s \in JobStatus, job \in [Jobs -> JobRow]
    PROVE  Unlease(j, s) \in [Jobs -> JobRow]
BY DEF Unlease, JobRow

(* Every action keeps Types. *)
LEMMA TypesStep == Types /\ [Next]_vars => Types'
<1> SUFFICES ASSUME Types, [Next]_vars PROVE Types'
    OBVIOUS
<1> USE DEF Types, TypeOK, ProcJob
<1>1. ASSUME NEW j \in Jobs, Enqueue(j) PROVE Types'
  BY <1>1 DEF Enqueue, JobRow, JobStatus
<1>2. ASSUME NEW r \in Retriers, NEW j \in Jobs, RetryRead(r, j) PROVE Types'
  BY <1>2 DEF RetryRead
<1>3. ASSUME NEW r \in Retriers, RetryWrite(r) PROVE Types'
  BY <1>3 DEF RetryWrite, JobRow, JobStatus, NoJob
<1>4. ASSUME NEW p \in Procs, GuardRead(p) PROVE Types'
  BY <1>4 DEF GuardRead, ProcState, Idle, NoJob
<1>5. ASSUME NEW p \in Procs, GuardReject(p) PROVE Types'
  <2>1. proc[p].job \in Jobs
    BY <1>5 DEF GuardReject
  <2> QED BY <1>5, <2>1, UnleaseType, CloseAttemptsType DEF GuardReject, ProcState, Idle, JobStatus
<1>6. ASSUME NEW p \in Procs, NEW j \in Jobs, ClaimSelect(p, j) PROVE Types'
  BY <1>6 DEF ClaimSelect, ProcState, Idle
<1>7. ASSUME NEW p \in Procs, ClaimNothing(p) PROVE Types'
  BY <1>7 DEF ClaimNothing, ProcState, Idle
<1>8. ASSUME NEW p \in Procs, ClaimCommit(p) PROVE Types'
  <2>1. proc[p].job \in Jobs
    BY <1>8 DEF ClaimCommit
  <2>2. job[proc[p].job].attempt_count + 1 \in Nat
    <3>1. job[proc[p].job] \in JobRow
      BY <2>1
    <3> QED BY <3>1 DEF JobRow
  <2>3. WorkerId[p] \in WorkerIds
    OBVIOUS
  <2>4. job' \in [Jobs -> JobRow]
    BY <1>8, <2>1, <2>2, <2>3 DEF ClaimCommit, JobRow, JobStatus
  <2>5. attempts' \subseteq AttemptRow
    BY <1>8, <2>1, <2>2, <2>3 DEF ClaimCommit, InsertAttempt, AttemptRow
  <2>6. rowLock' \in [Jobs -> Procs \cup {NoHolder}]
    BY <1>8 DEF ClaimCommit
  <2>7. proc[p] \in ProcState
    OBVIOUS
  <2>8. [proc[p] EXCEPT !.pc = "working", !.attempt = job[proc[p].job].attempt_count + 1] \in ProcState
    BY <2>2, <2>7 DEF ProcState
  <2>9. proc' = [proc EXCEPT ![p] = [proc[p] EXCEPT !.pc = "working",
                                     !.attempt = job[proc[p].job].attempt_count + 1]]
    BY <1>8 DEF ClaimCommit
  <2>10. proc' \in [Procs -> ProcState]
    BY <2>8, <2>9
  <2>11. ProcJob'
    BY <1>8, <2>1 DEF ClaimCommit, ProcState
  <2> QED BY <1>8, <2>4, <2>5, <2>6, <2>10, <2>11 DEF ClaimCommit
<1>9. ASSUME NEW p \in Procs, FailTerminal(p) PROVE Types'
  <2>1. proc[p].job \in Jobs
    BY <1>9 DEF FailTerminal
  <2> QED BY <1>9, <2>1, UnleaseType, CloseAttemptsType DEF FailTerminal, ProcState, Idle, JobStatus
<1>10. ASSUME NEW p \in Procs, Complete(p) PROVE Types'
  <2>1. proc[p].job \in Jobs /\ proc[p].attempt \in Nat
    BY <1>10 DEF Complete, ProcState
  <2>2. job' \in [Jobs -> JobRow] /\ attempts' \subseteq AttemptRow
    BY <1>10, <2>1, UnleaseType, CloseAttemptsType DEF Complete, JobStatus
  <2>3. artifacts' \subseteq Jobs \X Nat
    BY <1>10, <2>1 DEF Complete
  <2>4. proc' \in [Procs -> ProcState] /\ ProcJob'
    BY <1>10 DEF Complete, ProcState, Idle
  <2> QED BY <1>10, <2>2, <2>3, <2>4 DEF Complete
<1>11. ASSUME NEW p \in Procs, FailRead(p) PROVE Types'
  <2>1. PICK s \in {"queued", "failed"} :
            proc' = [proc EXCEPT ![p] = [proc[p] EXCEPT !.pc = "failing", !.next = s]]
    BY <1>11 DEF FailRead
  <2>2. proc[p] \in ProcState /\ proc[p].job \in Jobs
    BY <1>11 DEF FailRead
  <2>3. [proc[p] EXCEPT !.pc = "failing", !.next = s] \in ProcState
    BY <2>2 DEF ProcState
  <2>4. proc' \in [Procs -> ProcState]
    BY <2>1, <2>3
  <2>5. ProcJob'
    BY <2>1, <2>2 DEF ProcState
  <2> QED BY <1>11, <2>4, <2>5 DEF FailRead
<1>12. ASSUME NEW p \in Procs, FailWrite(p) PROVE Types'
  <2>1. proc[p].job \in Jobs /\ proc[p].next \in JobStatus
    BY <1>12 DEF FailWrite, ProcState, JobStatus
  <2> QED BY <1>12, <2>1, UnleaseType, CloseAttemptsType DEF FailWrite, ProcState, Idle
<1>13. ASSUME NEW j \in Jobs, LeaseExpires(j) PROVE Types'
  BY <1>13 DEF LeaseExpires, JobRow
<1>14. ASSUME NEW p \in Procs, Crash(p) PROVE Types'
  BY <1>14 DEF Crash, ProcState, Idle
<1>15. CASE UNCHANGED vars
  BY <1>15 DEF vars
<1> QED BY <1>1, <1>2, <1>3, <1>4, <1>5, <1>6, <1>7, <1>8, <1>9, <1>10, <1>11, <1>12, <1>13,
           <1>14, <1>15 DEF Next, WorkerStep

LEMMA TypesInit == Init => Types
BY DEF Init, Types, TypeOK, ProcJob, JobRow, JobStatus, ProcState, Idle, AttemptRow

LEMMA TypesInvariant == Spec => []Types
BY TypesInit, TypesStep, PTL DEF Spec

(* TypeCorrect: the statements of jobs.py, worker.py and execution.py only *)
(* write well-formed rows, and no process works on a job that is not there.*)
THEOREM TypeCorrect == Spec => []TypeOK
<1>1. Types => TypeOK
  BY DEF Types
<1> QED BY <1>1, TypesInvariant, PTL

----------------------------------------------------------------------------
(* The attempt ledger *)

(* AttemptLedger in the form the induction uses: no number above the       *)
(* counter, none below it missing, none twice.                             *)
LedgerInv ==
    /\ \A a \in attempts : a.number \in 1 .. job[a.job].attempt_count
    /\ \A j \in Jobs : \A n \in 1 .. job[j].attempt_count :
          \E a \in attempts : a.job = j /\ a.number = n
    /\ \A a, b \in attempts : a.job = b.job /\ a.number = b.number => a = b

LEMMA LedgerInvImplies == TypeOK /\ LedgerInv => AttemptLedger
<1> SUFFICES ASSUME TypeOK, LedgerInv, NEW j \in Jobs
             PROVE  /\ {a.number : a \in {b \in attempts : b.job = j}} = 1 .. job[j].attempt_count
                    /\ \A a, b \in attempts :
                          a.job = j /\ b.job = j /\ a.number = b.number => a = b
    BY DEF AttemptLedger
<1>1. \A a \in attempts : a.job = j => a.number \in 1 .. job[j].attempt_count
  BY DEF LedgerInv
<1>2. \A n \in 1 .. job[j].attempt_count : \E a \in attempts : a.job = j /\ a.number = n
  BY DEF LedgerInv
<1>3. \A a, b \in attempts : a.job = j /\ b.job = j /\ a.number = b.number => a = b
  BY DEF LedgerInv
<1>4. {a.number : a \in {b \in attempts : b.job = j}} \subseteq 1 .. job[j].attempt_count
  BY <1>1
<1>5. 1 .. job[j].attempt_count \subseteq {a.number : a \in {b \in attempts : b.job = j}}
  <2> SUFFICES ASSUME NEW n \in 1 .. job[j].attempt_count
               PROVE  n \in {a.number : a \in {b \in attempts : b.job = j}}
      OBVIOUS
  <2>1. PICK a \in attempts : a.job = j /\ a.number = n
    BY <1>2
  <2>2. a \in {b \in attempts : b.job = j}
    BY <2>1
  <2> QED BY <2>1, <2>2
<1>6. {a.number : a \in {b \in attempts : b.job = j}} = 1 .. job[j].attempt_count
  BY <1>4, <1>5
<1> QED BY <1>3, <1>6

(* What closing attempts makes of one row. *)
Closed(a, j, w, s) ==
    IF a.job = j /\ a.worker = w /\ a.status = "running" THEN [a EXCEPT !.status = s] ELSE a

(* Closing attempts changes statuses only: rows before and after correspond. *)
LEMMA CloseAttemptsRows ==
    ASSUME attempts \subseteq AttemptRow, NEW j, NEW w, NEW s
    PROVE  /\ \A c \in CloseAttempts(j, w, s) : \E a \in attempts :
                /\ c.job = a.job /\ c.number = a.number /\ c.worker = a.worker
                /\ c = Closed(a, j, w, s)
           /\ \A a \in attempts : \E c \in CloseAttempts(j, w, s) :
                /\ c.job = a.job /\ c.number = a.number /\ c.worker = a.worker
                /\ c = Closed(a, j, w, s)
BY DEF CloseAttempts, AttemptRow, Closed

(* Steps that leave every attempt_count alone. *)
LEMMA LedgerKept ==
    ASSUME TypeOK, TypeOK', LedgerInv,
           \A k \in Jobs : job'[k].attempt_count = job[k].attempt_count,
           \/ attempts' = attempts
           \/ \E j, w, s : attempts' = CloseAttempts(j, w, s)
    PROVE  LedgerInv'
<1>1. CASE attempts' = attempts
  <2>1. \A a \in attempts : a.job \in Jobs
    BY DEF TypeOK, AttemptRow
  <2>2. \A a \in attempts' : a.number \in 1 .. job'[a.job].attempt_count
    BY <1>1, <2>1 DEF LedgerInv
  <2>3. \A k \in Jobs : \A n \in 1 .. job'[k].attempt_count :
          \E a \in attempts' : a.job = k /\ a.number = n
    BY <1>1 DEF LedgerInv
  <2>4. \A a, b \in attempts' : a.job = b.job /\ a.number = b.number => a = b
    BY <1>1 DEF LedgerInv
  <2> QED BY <2>2, <2>3, <2>4 DEF LedgerInv
<1>2. ASSUME NEW j, NEW w, NEW s, attempts' = CloseAttempts(j, w, s) PROVE LedgerInv'
  <2>1. attempts \subseteq AttemptRow
    BY DEF TypeOK
  <2>2. \A c \in attempts' : \E a \in attempts :
                /\ c.job = a.job /\ c.number = a.number /\ c.worker = a.worker
                /\ c = Closed(a, j, w, s)
    BY <1>2, <2>1, CloseAttemptsRows
  <2>3. \A a \in attempts : \E c \in attempts' : c.job = a.job /\ c.number = a.number
    BY <1>2, <2>1, CloseAttemptsRows
  <2>4. \A a \in attempts : a.job \in Jobs
    BY <2>1 DEF AttemptRow
  <2>5. \A c \in attempts' : c.number \in 1 .. job'[c.job].attempt_count
    <3>1. \A a \in attempts : a.number \in 1 .. job'[a.job].attempt_count
      BY <2>4 DEF LedgerInv
    <3> QED BY <2>2, <3>1
  <2>6. \A k \in Jobs : \A n \in 1 .. job'[k].attempt_count :
          \E c \in attempts' : c.job = k /\ c.number = n
    BY <2>3 DEF LedgerInv
  <2>7. \A c, d \in attempts' : c.job = d.job /\ c.number = d.number => c = d
    <3> SUFFICES ASSUME NEW c \in attempts', NEW d \in attempts',
                        c.job = d.job, c.number = d.number
                 PROVE  c = d
        OBVIOUS
    <3>1. PICK a \in attempts :
                /\ c.job = a.job /\ c.number = a.number /\ c.worker = a.worker
                /\ c = Closed(a, j, w, s)
      BY <2>2
    <3>2. PICK b \in attempts :
                /\ d.job = b.job /\ d.number = b.number
                /\ d = Closed(b, j, w, s)
      BY <2>2
    <3>3. a.job = b.job /\ a.number = b.number
      BY <3>1, <3>2
    <3>4. a = b
      BY <3>3 DEF LedgerInv
    <3> QED BY <3>1, <3>2, <3>4
  <2> QED BY <2>5, <2>6, <2>7 DEF LedgerInv
<1> QED BY <1>1, <1>2

(* Unlease touches neither counter nor grant of any job. *)
LEMMA UnleaseKeepsCounts ==
    ASSUME job \in [Jobs -> JobRow], NEW j, NEW s
    PROVE  \A k \in Jobs : /\ Unlease(j, s)[k].attempt_count = job[k].attempt_count
                           /\ Unlease(j, s)[k].max_attempts = job[k].max_attempts
BY DEF Unlease, JobRow

(* A committed claim adds one to one counter and the row of that number. *)
LEMMA LedgerClaim ==
    ASSUME TypeOK, TypeOK', LedgerInv, NEW p \in Procs, proc[p].job \in Jobs, ClaimCommit(p)
    PROVE  LedgerInv'
<1> DEFINE j == proc[p].job
           n == job[j].attempt_count + 1
           row == [job |-> j, number |-> n, worker |-> WorkerId[p], status |-> "running"]
<1>1. job[j] \in JobRow /\ job[j].attempt_count \in Nat
  <2>1. job[j] \in JobRow
    BY DEF TypeOK
  <2> QED BY <2>1 DEF JobRow
<1>2. ~ \E a \in attempts : a.job = j /\ a.number = n
  BY <1>1 DEF LedgerInv
<1>3. attempts' = attempts \cup {row}
  BY <1>2 DEF ClaimCommit, InsertAttempt
<1>4. /\ job'[j].attempt_count = n
      /\ \A k \in Jobs \ {j} : job'[k] = job[k]
  <2>1. job'[j] = [job[j] EXCEPT !.status = "running", !.lease_owner = WorkerId[p],
                                 !.lease_expired = FALSE, !.attempt_count = n]
    BY DEF ClaimCommit, TypeOK
  <2>2. job'[j].attempt_count = n
    BY <2>1, <1>1 DEF JobRow
  <2>3. \A k \in Jobs \ {j} : job'[k] = job[k]
    BY DEF ClaimCommit, TypeOK
  <2> QED BY <2>2, <2>3
<1>5. \A a \in attempts : a.job \in Jobs
  BY DEF TypeOK, AttemptRow
<1>6. \A k \in Jobs : job[k].attempt_count \in Nat
  <2>1. \A k \in Jobs : job[k] \in JobRow
    BY DEF TypeOK
  <2> QED BY <2>1 DEF JobRow
<1>7. \A a \in attempts' : a.number \in 1 .. job'[a.job].attempt_count
  <2> SUFFICES ASSUME NEW a \in attempts' PROVE a.number \in 1 .. job'[a.job].attempt_count
      OBVIOUS
  <2>1. CASE a = row
    BY <2>1, <1>1, <1>4
  <2>2. CASE a \in attempts /\ a.job = j
    BY <2>2, <1>1, <1>4 DEF LedgerInv
  <2>3. CASE a \in attempts /\ a.job # j
    BY <2>3, <1>4, <1>5 DEF LedgerInv
  <2> QED BY <1>3, <2>1, <2>2, <2>3
<1>8. \A k \in Jobs : \A i \in 1 .. job'[k].attempt_count :
          \E a \in attempts' : a.job = k /\ a.number = i
  <2> SUFFICES ASSUME NEW k \in Jobs, NEW i \in 1 .. job'[k].attempt_count
               PROVE  \E a \in attempts' : a.job = k /\ a.number = i
      OBVIOUS
  <2>1. CASE k = j /\ i = n
    <3>1. row.job = k /\ row.number = i /\ row \in attempts'
      BY <2>1, <1>3
    <3> QED BY <3>1
  <2>2. CASE i \in 1 .. job[k].attempt_count
    <3>1. PICK a \in attempts : a.job = k /\ a.number = i
      BY <2>2 DEF LedgerInv
    <3> QED BY <3>1, <1>3
  <2> QED BY <2>1, <2>2, <1>4, <1>1, <1>6
<1>9. \A a, b \in attempts' : a.job = b.job /\ a.number = b.number => a = b
  <2>1. \A a \in attempts : ~(a.job = row.job /\ a.number = row.number)
    BY <1>2
  <2> QED BY <2>1, <1>3 DEF LedgerInv
<1> QED BY <1>7, <1>8, <1>9 DEF LedgerInv

LEMMA LedgerStep == Types /\ Types' /\ LedgerInv /\ [Next]_vars => LedgerInv'
<1> SUFFICES ASSUME Types, Types', LedgerInv, [Next]_vars PROVE LedgerInv'
    OBVIOUS
<1>0. TypeOK /\ TypeOK'
  BY DEF Types
<1>a. job \in [Jobs -> JobRow]
  BY DEF Types, TypeOK
<1>1. ASSUME NEW j \in Jobs, Enqueue(j) PROVE LedgerInv'
  BY <1>0, <1>a, <1>1, LedgerKept DEF Enqueue, JobRow
<1>2. ASSUME NEW r \in Retriers, NEW j \in Jobs, RetryRead(r, j) PROVE LedgerInv'
  BY <1>0, <1>2, LedgerKept DEF RetryRead
<1>3. ASSUME NEW r \in Retriers, RetryWrite(r) PROVE LedgerInv'
  <2>1. \A k \in Jobs : job'[k].attempt_count = job[k].attempt_count
    BY <1>a, <1>3 DEF RetryWrite, JobRow
  <2> QED BY <1>0, <1>3, <2>1, LedgerKept DEF RetryWrite
<1>4. ASSUME NEW p \in Procs, GuardRead(p) PROVE LedgerInv'
  BY <1>0, <1>4, LedgerKept DEF GuardRead
<1>5. ASSUME NEW p \in Procs, GuardReject(p) PROVE LedgerInv'
  BY <1>0, <1>a, <1>5, LedgerKept, UnleaseKeepsCounts DEF GuardReject
<1>6. ASSUME NEW p \in Procs, NEW j \in Jobs, ClaimSelect(p, j) PROVE LedgerInv'
  BY <1>0, <1>6, LedgerKept DEF ClaimSelect
<1>7. ASSUME NEW p \in Procs, ClaimNothing(p) PROVE LedgerInv'
  BY <1>0, <1>7, LedgerKept DEF ClaimNothing
<1>8. ASSUME NEW p \in Procs, ClaimCommit(p) PROVE LedgerInv'
  <2>1. proc[p].job \in Jobs
    BY <1>8 DEF ClaimCommit, Types, ProcJob
  <2> QED BY <1>0, <1>8, <2>1, LedgerClaim
<1>9. ASSUME NEW p \in Procs, FailTerminal(p) PROVE LedgerInv'
  BY <1>0, <1>a, <1>9, LedgerKept, UnleaseKeepsCounts DEF FailTerminal
<1>10. ASSUME NEW p \in Procs, Complete(p) PROVE LedgerInv'
  BY <1>0, <1>a, <1>10, LedgerKept, UnleaseKeepsCounts DEF Complete
<1>11. ASSUME NEW p \in Procs, FailRead(p) PROVE LedgerInv'
  BY <1>0, <1>11, LedgerKept DEF FailRead
<1>12. ASSUME NEW p \in Procs, FailWrite(p) PROVE LedgerInv'
  BY <1>0, <1>a, <1>12, LedgerKept, UnleaseKeepsCounts DEF FailWrite
<1>13. ASSUME NEW j \in Jobs, LeaseExpires(j) PROVE LedgerInv'
  <2>1. \A k \in Jobs : job'[k].attempt_count = job[k].attempt_count
    BY <1>a, <1>13 DEF LeaseExpires, JobRow
  <2> QED BY <1>0, <1>13, <2>1, LedgerKept DEF LeaseExpires
<1>14. ASSUME NEW p \in Procs, Crash(p) PROVE LedgerInv'
  BY <1>0, <1>14, LedgerKept DEF Crash
<1>15. CASE UNCHANGED vars
  BY <1>0, <1>15, LedgerKept DEF vars
<1> QED BY <1>1, <1>2, <1>3, <1>4, <1>5, <1>6, <1>7, <1>8, <1>9, <1>10, <1>11, <1>12, <1>13,
           <1>14, <1>15 DEF Next, WorkerStep

LEMMA LedgerInit == Init => LedgerInv
BY DEF Init, LedgerInv

(* LedgerCorrect: whatever the order of claims, late results, crashes,     *)
(* retries and expired leases, ON CONFLICT DO NOTHING (jobs.py:110) never  *)
(* drops an attempt row, and every attempt has exactly one.                *)
THEOREM LedgerCorrect == Spec => []AttemptLedger
<1>1. Spec => []LedgerInv
  BY LedgerInit, LedgerStep, TypesInvariant, PTL DEF Spec
<1>2. Types => TypeOK
  BY DEF Types
<1> QED BY <1>1, <1>2, TypesInvariant, LedgerInvImplies, PTL

----------------------------------------------------------------------------
(* Attempts and artifacts *)

Busy(p) == proc[p].pc \in {"working", "failing"}

OwnAttempt(p, a) ==
    /\ a.job = proc[p].job
    /\ a.number = proc[p].attempt
    /\ a.worker = WorkerId[p]
    /\ a.status = "running"

(* A busy process has its attempt row open, and a live process has no      *)
(* other open row: this is what makes CloseAttempts, which names worker    *)
(* and job only, close the one row it should.                              *)
OwnershipInv ==
    /\ \A p \in Procs : Busy(p) => \E a \in attempts : OwnAttempt(p, a)
    /\ \A p \in Procs : \A a \in attempts :
          a.status = "running" /\ a.worker = WorkerId[p] /\ proc[p].pc # "dead" =>
              Busy(p) /\ OwnAttempt(p, a)

ArtifactInv == OwnershipInv /\ ArtifactPerAttempt

(* What an idle process closes: nothing. *)
LEMMA CloseNothing ==
    ASSUME OwnershipInv, NEW p \in Procs, ~Busy(p), proc[p].pc # "dead", NEW j, NEW s
    PROVE  CloseAttempts(j, WorkerId[p], s) = attempts
<1>1. \A a \in attempts : ~(a.worker = WorkerId[p] /\ a.status = "running")
  BY DEF OwnershipInv
<1> QED BY <1>1 DEF CloseAttempts

(* What a busy process closes: its own attempt. *)
LEMMA CloseOwn ==
    ASSUME TypeOK, LedgerInv, OwnershipInv, NEW p \in Procs, Busy(p), NEW s
    PROVE  \E a \in attempts :
              /\ OwnAttempt(p, a)
              /\ CloseAttempts(proc[p].job, WorkerId[p], s) =
                    (attempts \ {a}) \cup {[a EXCEPT !.status = s]}
<1>1. PICK a \in attempts : OwnAttempt(p, a)
  BY DEF OwnershipInv
<1>2. proc[p].pc # "dead"
  BY DEF Busy
<1>3. \A b \in attempts :
         b.job = proc[p].job /\ b.worker = WorkerId[p] /\ b.status = "running" <=> b = a
  <2> SUFFICES ASSUME NEW b \in attempts
               PROVE  b.job = proc[p].job /\ b.worker = WorkerId[p] /\ b.status = "running" <=> b = a
      OBVIOUS
  <2>1. b = a => b.job = proc[p].job /\ b.worker = WorkerId[p] /\ b.status = "running"
    BY <1>1 DEF OwnAttempt
  <2>2. ASSUME b.job = proc[p].job, b.worker = WorkerId[p], b.status = "running" PROVE b = a
    <3>1. OwnAttempt(p, b)
      BY <2>2, <1>2 DEF OwnershipInv
    <3> QED BY <1>1, <3>1 DEF OwnAttempt, LedgerInv
  <2> QED BY <2>1, <2>2
<1>4. CloseAttempts(proc[p].job, WorkerId[p], s) =
         {IF b = a THEN [b EXCEPT !.status = s] ELSE b : b \in attempts}
  BY <1>3 DEF CloseAttempts
<1>5. {IF b = a THEN [b EXCEPT !.status = s] ELSE b : b \in attempts} =
         (attempts \ {a}) \cup {[a EXCEPT !.status = s]}
  OBVIOUS
<1> QED BY <1>1, <1>4, <1>5

(* Steps that touch no attempt and change no process but p, which does not *)
(* become or stop being busy unless it dies.                               *)
LEMMA ArtifactKept ==
    ASSUME TypeOK, ArtifactInv, attempts' = attempts, artifacts' = artifacts,
           \A q \in Procs :
              \/ proc'[q].pc = "dead"
              \/ ~Busy(q) /\ ~Busy(q)' /\ proc[q].pc # "dead"
              \/ /\ Busy(q) <=> Busy(q)'
                 /\ proc[q].pc = "dead" <=> proc'[q].pc = "dead"
                 /\ proc'[q].job = proc[q].job
                 /\ proc'[q].attempt = proc[q].attempt
    PROVE  ArtifactInv'
<1>1. ArtifactPerAttempt'
  BY DEF ArtifactInv, ArtifactPerAttempt
<1>2. \A q \in Procs : Busy(q)' => \E a \in attempts : OwnAttempt(q, a)'
  BY DEF ArtifactInv, OwnershipInv, OwnAttempt, Busy
<1>3. \A q \in Procs : \A a \in attempts' :
          a.status = "running" /\ a.worker = WorkerId[q] /\ proc'[q].pc # "dead" =>
              Busy(q)' /\ OwnAttempt(q, a)'
  BY DEF ArtifactInv, OwnershipInv, OwnAttempt, Busy
<1> QED BY <1>1, <1>2, <1>3 DEF ArtifactInv, OwnershipInv

(* A busy process finishes its job with status st. *)
LEMMA ArtifactFinish ==
    ASSUME TypeOK, LedgerInv, ArtifactInv, OwnIds,
           NEW p \in Procs, Busy(p), NEW st \in {"succeeded", "failed"},
           attempts' = CloseAttempts(proc[p].job, WorkerId[p], st),
           artifacts' = IF st = "succeeded"
                        THEN artifacts \cup {<<proc[p].job, proc[p].attempt>>} ELSE artifacts,
           proc' = [proc EXCEPT ![p] = Idle]
    PROVE  ArtifactInv'
<1>1. OwnershipInv /\ ArtifactPerAttempt
  BY DEF ArtifactInv
<1>2. PICK a \in attempts :
         OwnAttempt(p, a) /\ attempts' = (attempts \ {a}) \cup {[a EXCEPT !.status = st]}
  BY <1>1, CloseOwn
<1> DEFINE c == [a EXCEPT !.status = st]
<1>3. a \in AttemptRow
  BY <1>2 DEF TypeOK
<1>4. /\ c.job = a.job /\ c.number = a.number /\ c.worker = a.worker /\ c.status = st
      /\ a.status = "running" /\ a.worker = WorkerId[p]
      /\ a.job = proc[p].job /\ a.number = proc[p].attempt
  BY <1>2, <1>3 DEF AttemptRow, OwnAttempt
<1>5. /\ ~Busy(p)' /\ proc'[p].pc = "idle"
      /\ \A q \in Procs \ {p} : proc'[q] = proc[q] /\ WorkerId[q] # WorkerId[p]
  BY DEF TypeOK, Idle, OwnIds, Busy
<1>6. \A q \in Procs : Busy(q)' => \E b \in attempts' : OwnAttempt(q, b)'
  <2> SUFFICES ASSUME NEW q \in Procs, Busy(q)' PROVE \E b \in attempts' : OwnAttempt(q, b)'
      OBVIOUS
  <2>1. q # p /\ Busy(q) /\ proc'[q] = proc[q]
    BY <1>5 DEF Busy
  <2>2. PICK b \in attempts : OwnAttempt(q, b)
    BY <1>1, <2>1 DEF OwnershipInv
  <2>3. b # a
    BY <2>1, <2>2, <1>4, <1>5 DEF OwnAttempt
  <2> QED BY <1>2, <2>1, <2>2, <2>3 DEF OwnAttempt
<1>7. \A q \in Procs : \A b \in attempts' :
          b.status = "running" /\ b.worker = WorkerId[q] /\ proc'[q].pc # "dead" =>
              Busy(q)' /\ OwnAttempt(q, b)'
  <2> SUFFICES ASSUME NEW q \in Procs, NEW b \in attempts', b.status = "running",
                      b.worker = WorkerId[q], proc'[q].pc # "dead"
               PROVE  Busy(q)' /\ OwnAttempt(q, b)'
      OBVIOUS
  <2>1. b \in attempts /\ b # a
    BY <1>2, <1>4
  <2>2. q # p
    <3> SUFFICES ASSUME q = p PROVE FALSE
        OBVIOUS
    <3>1. OwnAttempt(p, b)
      BY <1>1, <2>1 DEF OwnershipInv, Busy
    <3> QED BY <3>1, <1>2, <2>1 DEF OwnAttempt, LedgerInv
  <2> QED BY <1>1, <1>5, <2>1, <2>2 DEF OwnershipInv, Busy, OwnAttempt
<1>8. ArtifactPerAttempt'
  <2>1. CASE st = "succeeded"
    <3>1. {b \in attempts' : b.status = "succeeded"} =
             {b \in attempts : b.status = "succeeded"} \cup {c}
      BY <1>2, <1>4, <2>1
    <3>2. {<<b.job, b.number>> : b \in {b \in attempts : b.status = "succeeded"} \cup {c}} =
             {<<b.job, b.number>> : b \in {b \in attempts : b.status = "succeeded"}}
                \cup {<<c.job, c.number>>}
      OBVIOUS
    <3> QED BY <1>1, <1>4, <2>1, <3>1, <3>2 DEF ArtifactPerAttempt
  <2>2. CASE st = "failed"
    <3>1. {b \in attempts' : b.status = "succeeded"} =
             {b \in attempts : b.status = "succeeded"}
      BY <1>2, <1>4, <2>2
    <3> QED BY <1>1, <2>2, <3>1 DEF ArtifactPerAttempt
  <2> QED BY <2>1, <2>2
<1> QED BY <1>6, <1>7, <1>8 DEF ArtifactInv, OwnershipInv

(* A process commits its claim and becomes busy, with a row of its own. *)
LEMMA ArtifactClaim ==
    ASSUME TypeOK, LedgerInv, ArtifactInv, OwnIds,
           NEW p \in Procs, proc[p].job \in Jobs, ClaimCommit(p)
    PROVE  ArtifactInv'
<1> DEFINE j == proc[p].job
           n == job[j].attempt_count + 1
           row == [job |-> j, number |-> n, worker |-> WorkerId[p], status |-> "running"]
<1>0. OwnershipInv /\ ArtifactPerAttempt
  BY DEF ArtifactInv
<1>1. job[j].attempt_count \in Nat
  <2>1. job[j] \in JobRow
    BY DEF TypeOK
  <2> QED BY <2>1 DEF JobRow
<1>2. attempts' = attempts \cup {row}
  BY <1>1 DEF ClaimCommit, InsertAttempt, LedgerInv
<1>3. /\ Busy(p)' /\ proc'[p].job = j /\ proc'[p].attempt = n /\ proc'[p].pc # "dead"
      /\ \A q \in Procs \ {p} : proc'[q] = proc[q] /\ WorkerId[q] # WorkerId[p]
  <2>1. proc[p] \in ProcState
    BY DEF TypeOK
  <2>2. proc'[p] = [proc[p] EXCEPT !.pc = "working", !.attempt = n]
    BY DEF ClaimCommit, TypeOK
  <2>3. \A q \in Procs \ {p} : proc'[q] = proc[q] /\ WorkerId[q] # WorkerId[p]
    BY DEF ClaimCommit, TypeOK, OwnIds
  <2> QED BY <2>1, <2>2, <2>3 DEF ProcState, Busy
<1>4. \A a \in attempts : ~(a.worker = WorkerId[p] /\ a.status = "running")
  BY <1>0 DEF ClaimCommit, OwnershipInv, Busy
<1>5. \A b : b = row => OwnAttempt(p, b)'
  BY <1>3 DEF OwnAttempt
<1>6. \A q \in Procs : Busy(q)' => \E b \in attempts' : OwnAttempt(q, b)'
  <2> SUFFICES ASSUME NEW q \in Procs, Busy(q)' PROVE \E b \in attempts' : OwnAttempt(q, b)'
      OBVIOUS
  <2>1. CASE q = p
    <3>1. PICK b \in attempts' : b = row
      BY <1>2
    <3> QED BY <2>1, <3>1, <1>5
  <2>2. CASE q # p
    <3>1. Busy(q) /\ proc'[q] = proc[q]
      BY <2>2, <1>3 DEF Busy
    <3>2. PICK b \in attempts : OwnAttempt(q, b)
      BY <1>0, <3>1 DEF OwnershipInv
    <3> QED BY <1>2, <3>1, <3>2 DEF OwnAttempt
  <2> QED BY <2>1, <2>2
<1>7. \A q \in Procs : \A b \in attempts' :
          b.status = "running" /\ b.worker = WorkerId[q] /\ proc'[q].pc # "dead" =>
              Busy(q)' /\ OwnAttempt(q, b)'
  <2> SUFFICES ASSUME NEW q \in Procs, NEW b \in attempts', b.status = "running",
                      b.worker = WorkerId[q], proc'[q].pc # "dead"
               PROVE  Busy(q)' /\ OwnAttempt(q, b)'
      OBVIOUS
  <2>1. CASE q = p
    <3>1. b = row
      BY <2>1, <1>2, <1>4
    <3> QED BY <2>1, <3>1, <1>3, <1>5
  <2>2. CASE q # p
    <3>1. b \in attempts
      BY <2>2, <1>2, <1>3
    <3> QED BY <1>0, <1>3, <2>2, <3>1 DEF OwnershipInv, Busy, OwnAttempt
  <2> QED BY <2>1, <2>2
<1>8. ArtifactPerAttempt'
  <2>1. {b \in attempts' : b.status = "succeeded"} = {b \in attempts : b.status = "succeeded"}
    BY <1>2
  <2>2. artifacts' = artifacts
    BY DEF ClaimCommit
  <2> QED BY <1>0, <2>1, <2>2 DEF ArtifactPerAttempt
<1> QED BY <1>6, <1>7, <1>8 DEF ArtifactInv, OwnershipInv

LEMMA ArtifactStep ==
    ASSUME OwnIds
    PROVE  Types /\ LedgerInv /\ ArtifactInv /\ [Next]_vars => ArtifactInv'
<1> SUFFICES ASSUME Types, LedgerInv, ArtifactInv, [Next]_vars PROVE ArtifactInv'
    OBVIOUS
<1>0. TypeOK /\ OwnershipInv /\ proc \in [Procs -> ProcState]
  BY DEF Types, TypeOK, ArtifactInv
<1>1. ASSUME NEW j \in Jobs, Enqueue(j) PROVE ArtifactInv'
  BY <1>0, <1>1, ArtifactKept DEF Enqueue, Busy
<1>2. ASSUME NEW r \in Retriers, NEW j \in Jobs, RetryRead(r, j) PROVE ArtifactInv'
  BY <1>0, <1>2, ArtifactKept DEF RetryRead, Busy
<1>3. ASSUME NEW r \in Retriers, RetryWrite(r) PROVE ArtifactInv'
  BY <1>0, <1>3, ArtifactKept DEF RetryWrite, Busy
<1>4. ASSUME NEW p \in Procs, GuardRead(p) PROVE ArtifactInv'
  BY <1>0, <1>4, ArtifactKept DEF GuardRead, Busy, Idle
<1>5. ASSUME NEW p \in Procs, GuardReject(p) PROVE ArtifactInv'
  <2>1. ~Busy(p) /\ proc[p].pc # "dead"
    BY <1>5 DEF GuardReject, Busy
  <2>2. attempts' = attempts
    BY <1>0, <1>5, <2>1, CloseNothing DEF GuardReject
  <2> QED BY <1>0, <1>5, <2>1, <2>2, ArtifactKept DEF GuardReject, Busy, Idle
<1>6. ASSUME NEW p \in Procs, NEW j \in Jobs, ClaimSelect(p, j) PROVE ArtifactInv'
  BY <1>0, <1>6, ArtifactKept DEF ClaimSelect, ReadyToClaim, Busy, Idle
<1>7. ASSUME NEW p \in Procs, ClaimNothing(p) PROVE ArtifactInv'
  BY <1>0, <1>7, ArtifactKept DEF ClaimNothing, Busy, Idle
<1>8. ASSUME NEW p \in Procs, ClaimCommit(p) PROVE ArtifactInv'
  <2>1. proc[p].job \in Jobs
    BY <1>8 DEF ClaimCommit, Types, ProcJob
  <2> QED BY <1>0, <1>8, <2>1, ArtifactClaim
<1>9. ASSUME NEW p \in Procs, FailTerminal(p) PROVE ArtifactInv'
  <2>1. Busy(p)
    BY <1>9 DEF FailTerminal, Busy
  <2> QED BY <1>0, <1>9, <2>1, ArtifactFinish DEF FailTerminal
<1>10. ASSUME NEW p \in Procs, Complete(p) PROVE ArtifactInv'
  <2>1. Busy(p)
    BY <1>10 DEF Complete, Busy
  <2> QED BY <1>0, <1>10, <2>1, ArtifactFinish DEF Complete
<1>11. ASSUME NEW p \in Procs, FailRead(p) PROVE ArtifactInv'
  <2>1. PICK s : proc' = [proc EXCEPT ![p] = [proc[p] EXCEPT !.pc = "failing", !.next = s]]
    BY <1>0, <1>11 DEF FailRead
  <2>2. \A q \in Procs :
                 /\ Busy(q) <=> Busy(q)'
                 /\ proc[q].pc = "dead" <=> proc'[q].pc = "dead"
                 /\ proc'[q].job = proc[q].job
                 /\ proc'[q].attempt = proc[q].attempt
    <3>1. /\ proc'[p] = [proc[p] EXCEPT !.pc = "failing", !.next = s]
          /\ proc[p] \in ProcState /\ proc[p].pc = "working"
      BY <1>0, <1>11, <2>1 DEF FailRead
    <3>2. \A q \in Procs \ {p} : proc'[q] = proc[q]
      BY <1>0, <2>1
    <3> QED BY <3>1, <3>2 DEF Busy, ProcState
  <2> QED BY <1>0, <1>11, <2>2, ArtifactKept DEF FailRead
<1>12. ASSUME NEW p \in Procs, FailWrite(p) PROVE ArtifactInv'
  <2>1. Busy(p)
    BY <1>12 DEF FailWrite, Busy
  <2> QED BY <1>0, <1>12, <2>1, ArtifactFinish DEF FailWrite
<1>13. ASSUME NEW j \in Jobs, LeaseExpires(j) PROVE ArtifactInv'
  BY <1>0, <1>13, ArtifactKept DEF LeaseExpires, Busy
<1>14. ASSUME NEW p \in Procs, Crash(p) PROVE ArtifactInv'
  BY <1>0, <1>14, ArtifactKept DEF Crash, Busy, Idle
<1>15. CASE UNCHANGED vars
  BY <1>0, <1>15, ArtifactKept DEF vars, Busy
<1> QED BY <1>1, <1>2, <1>3, <1>4, <1>5, <1>6, <1>7, <1>8, <1>9, <1>10, <1>11, <1>12, <1>13,
           <1>14, <1>15 DEF Next, WorkerStep

LEMMA LedgerInvariant == Spec => []LedgerInv
BY LedgerInit, LedgerStep, TypesInvariant, PTL DEF Spec

(* ArtifactsCorrect: when every process writes a worker_id of its own,     *)
(* complete_job, fail_job and fail_job_terminal close exactly the caller's *)
(* attempt, so that succeeded attempts and artifacts agree - leases lost   *)
(* and jobs requeued under a running worker included.                      *)
THEOREM ArtifactsCorrect ==
    ASSUME OwnIds
    PROVE  Spec => []ArtifactPerAttempt
<1>1. Init => ArtifactInv
  BY DEF Init, ArtifactInv, OwnershipInv, ArtifactPerAttempt, Busy, Idle
<1>2. ArtifactInv => ArtifactPerAttempt
  BY DEF ArtifactInv
<1> QED BY <1>1, <1>2, ArtifactStep, LedgerInvariant, TypesInvariant, PTL DEF Spec

----------------------------------------------------------------------------
(* Claim exclusivity and the job lifecycle, for timely workers *)

(* A busy process holds an unexpired lease on a running job, alone. *)
LeaseInv ==
    \A p \in Procs : Busy(p) =>
        /\ job[proc[p].job].status = "running"
        /\ job[proc[p].job].lease_owner = WorkerId[p]
        /\ ~job[proc[p].job].lease_expired
        /\ proc[p].attempt = job[proc[p].job].attempt_count
        /\ proc[p].attempt >= 1
        /\ \A q \in Procs : Busy(q) /\ proc[q].job = proc[p].job => q = p

(* Row locks and claims in progress are the same thing, the locked job     *)
(* stays claimable, and no process is inside the staging guard.            *)
ClaimInv ==
    /\ \A p \in Procs, j \in Jobs :
          rowLock[j] = p <=> proc[p].pc = "claiming" /\ proc[p].job = j
    /\ \A p \in Procs : proc[p].pc = "claiming" => Claimable(proc[p].job)
    /\ \A p \in Procs : proc[p].pc \notin {"guarded", "rejecting"}

(* A job whose failure a retry has read is still failed. *)
RetryInv == \A r \in Retriers : retry[r] # NoJob => job[retry[r]].status = "failed"

(* A job has an artifact if and only if it succeeded. *)
ProducedInv ==
    /\ \A j \in Jobs, n \in Nat : <<j, n>> \in artifacts => n \in 1 .. job[j].attempt_count
    /\ \A j \in Jobs : job[j].status = "succeeded" <=> \E n \in Nat : <<j, n>> \in artifacts

SafeInv == LeaseInv /\ ClaimInv /\ RetryInv /\ ProducedInv

(* The rows Unlease leaves behind. *)
LEMMA UnleaseRow ==
    ASSUME job \in [Jobs -> JobRow], NEW j \in Jobs, NEW s
    PROVE  /\ Unlease(j, s)[j].status = s
           /\ Unlease(j, s)[j].attempt_count = job[j].attempt_count
           /\ \A k \in Jobs \ {j} : Unlease(j, s)[k] = job[k]
BY DEF Unlease, JobRow

(* A busy process finishes its job. *)
LEMMA SafeFinish ==
    ASSUME Types, SafeInv, NEW p \in Procs, Busy(p), NEW st \in {"queued", "succeeded", "failed"},
           Unlocked(proc[p].job),
           job' = Unlease(proc[p].job, st),
           artifacts' = IF st = "succeeded"
                        THEN artifacts \cup {<<proc[p].job, proc[p].attempt>>} ELSE artifacts,
           proc' = [proc EXCEPT ![p] = Idle],
           UNCHANGED <<rowLock, retry>>
    PROVE  SafeInv'
<1> DEFINE j == proc[p].job
<1>0. j \in Jobs /\ job \in [Jobs -> JobRow] /\ proc[p].attempt \in Nat
  BY DEF Types, TypeOK, ProcJob, Busy, ProcState
<1>1. /\ job'[j].status = st
      /\ job'[j].attempt_count = job[j].attempt_count
      /\ \A k \in Jobs \ {j} : job'[k] = job[k]
  BY <1>0, UnleaseRow
<1>2. /\ proc'[p] = Idle
      /\ \A q \in Procs \ {p} : proc'[q] = proc[q]
  BY DEF Types, TypeOK
<1>3. \A q \in Procs \ {p} : Busy(q) => proc[q].job # j
  BY DEF SafeInv, LeaseInv
<1>4. \A q \in Procs : Busy(q) => proc[q].job \in Jobs
  BY DEF Types, ProcJob, Busy
<1>5. LeaseInv'
  <2>1. \A q \in Procs : Busy(q)' => /\ q # p /\ Busy(q) /\ proc'[q] = proc[q]
                                     /\ job'[proc[q].job] = job[proc[q].job]
    <3> SUFFICES ASSUME NEW q \in Procs, Busy(q)'
                 PROVE  /\ q # p /\ Busy(q) /\ proc'[q] = proc[q]
                        /\ job'[proc[q].job] = job[proc[q].job]
        OBVIOUS
    <3>1. q # p
      BY <1>2 DEF Busy, Idle
    <3>2. Busy(q) /\ proc'[q] = proc[q]
      BY <1>2, <3>1 DEF Busy
    <3>3. proc[q].job \in Jobs \ {j}
      BY <1>3, <1>4, <3>1, <3>2
    <3> QED BY <1>1, <3>1, <3>2, <3>3
  <2> QED BY <2>1 DEF SafeInv, LeaseInv
<1>6. ClaimInv'
  <2>1. \A q \in Procs : q # NoHolder
    OBVIOUS
  <2>2. \A q \in Procs : proc[q].pc = "claiming" => proc[q].job \in Jobs /\ proc[q].job # j
    <3>1. rowLock[j] = NoHolder
      BY DEF Unlocked
    <3>2. \A q \in Procs : ~(proc[q].pc = "claiming" /\ proc[q].job = j)
      <4> SUFFICES ASSUME NEW q \in Procs, proc[q].pc = "claiming", proc[q].job = j PROVE FALSE
          OBVIOUS
      <4>1. rowLock[j] = q
        BY <1>0 DEF SafeInv, ClaimInv
      <4> QED BY <2>1, <3>1, <4>1
    <3> QED BY <3>2 DEF Types, ProcJob
  <2>3. \A q \in Procs : proc'[q].pc = "claiming" => q # p /\ proc'[q] = proc[q]
    BY <1>2 DEF Idle
  <2>4. \A q \in Procs : proc'[q].pc = "claiming" => Claimable(proc[q].job)'
    <3> SUFFICES ASSUME NEW q \in Procs, proc'[q].pc = "claiming"
                 PROVE  Claimable(proc[q].job)'
        OBVIOUS
    <3>1. proc'[q] = proc[q] /\ job'[proc[q].job] = job[proc[q].job] /\ Claimable(proc[q].job)
      BY <1>1, <2>2, <2>3 DEF SafeInv, ClaimInv
    <3> QED BY <3>1 DEF Claimable
  <2>5. \A q \in Procs, k \in Jobs :
          rowLock'[k] = q <=> proc'[q].pc = "claiming" /\ proc'[q].job = k
    <3>1. proc[p].pc # "claiming" /\ proc'[p].pc # "claiming"
      BY <1>2 DEF Busy, Idle
    <3>2. rowLock' = rowLock /\ \A k \in Jobs : rowLock[k] # p
      BY <3>1 DEF SafeInv, ClaimInv
    <3> QED BY <1>2, <3>1, <3>2 DEF SafeInv, ClaimInv
  <2> QED BY <1>2, <2>3, <2>4, <2>5 DEF SafeInv, ClaimInv, Idle
<1>7. job[j].status = "running"
  BY DEF SafeInv, LeaseInv
<1>8. RetryInv'
  <2>1. \A r \in Retriers : retry[r] # NoJob => retry[r] \in Jobs /\ retry[r] # j
    BY <1>7 DEF Types, TypeOK, SafeInv, RetryInv
  <2> QED BY <1>1, <2>1 DEF SafeInv, RetryInv
<1>9. ProducedInv'
  <2>1. \A n \in Nat : <<j, n>> \notin artifacts
    BY <1>0, <1>7 DEF SafeInv, ProducedInv
  <2>2. proc[p].attempt \in 1 .. job[j].attempt_count
    BY <1>0 DEF SafeInv, LeaseInv
  <2>3. CASE st = "succeeded"
    BY <1>0, <1>1, <2>1, <2>2, <2>3 DEF SafeInv, ProducedInv
  <2>4. CASE st # "succeeded"
    BY <1>0, <1>1, <1>7, <2>1, <2>4 DEF SafeInv, ProducedInv
  <2> QED BY <2>3, <2>4
<1> QED BY <1>5, <1>6, <1>8, <1>9 DEF SafeInv

(* A process commits its claim. *)
LEMMA SafeClaim ==
    ASSUME Types, Types', SafeInv, NEW p \in Procs, ClaimCommit(p)
    PROVE  SafeInv'
<1> DEFINE j == proc[p].job
           n == job[j].attempt_count + 1
<1>0. /\ j \in Jobs /\ job \in [Jobs -> JobRow] /\ proc[p] \in ProcState
      /\ job[j] \in JobRow /\ job[j].attempt_count \in Nat
  <2>1. j \in Jobs /\ job \in [Jobs -> JobRow] /\ proc[p] \in ProcState
    BY DEF Types, TypeOK, ProcJob, ClaimCommit
  <2>2. job[j] \in JobRow
    BY <2>1
  <2> QED BY <2>1, <2>2 DEF JobRow
<1>1. /\ job'[j].status = "running" /\ job'[j].lease_owner = WorkerId[p]
      /\ job'[j].lease_expired = FALSE /\ job'[j].attempt_count = n
      /\ \A k \in Jobs \ {j} : job'[k] = job[k]
  <2>1. job'[j] = [job[j] EXCEPT !.status = "running", !.lease_owner = WorkerId[p],
                                 !.lease_expired = FALSE, !.attempt_count = n]
    BY <1>0 DEF ClaimCommit
  <2>2. \A k \in Jobs \ {j} : job'[k] = job[k]
    BY <1>0 DEF ClaimCommit
  <2> QED BY <1>0, <2>1, <2>2 DEF JobRow
<1>2. /\ proc'[p].pc = "working" /\ proc'[p].job = j /\ proc'[p].attempt = n
      /\ \A q \in Procs \ {p} : proc'[q] = proc[q]
  <2>1. proc'[p] = [proc[p] EXCEPT !.pc = "working", !.attempt = n]
    BY DEF ClaimCommit, Types, TypeOK
  <2>2. \A q \in Procs \ {p} : proc'[q] = proc[q]
    BY DEF ClaimCommit, Types, TypeOK
  <2> QED BY <1>0, <2>1, <2>2 DEF ProcState
<1>3. proc[p].pc = "claiming" /\ Claimable(j) /\ rowLock[j] = p
  BY <1>0 DEF ClaimCommit, SafeInv, ClaimInv
<1>4. \A q \in Procs : Busy(q) => proc[q].job \in Jobs /\ proc[q].job # j
  BY <1>3 DEF Types, ProcJob, Busy, SafeInv, LeaseInv, Claimable
<1>5. LeaseInv'
  <2>1. \A q \in Procs : Busy(q)' /\ q # p => /\ Busy(q) /\ proc'[q] = proc[q]
                                     /\ proc[q].job # j
                                     /\ job'[proc[q].job] = job[proc[q].job]
    BY <1>1, <1>2, <1>4 DEF Busy
  <2>2. n >= 1
    BY <1>0
  <2>3. ASSUME NEW q \in Procs, Busy(q)', q # p
        PROVE  /\ job'[proc'[q].job].status = "running"
               /\ job'[proc'[q].job].lease_owner = WorkerId[q]
               /\ ~job'[proc'[q].job].lease_expired
               /\ proc'[q].attempt = job'[proc'[q].job].attempt_count
               /\ proc'[q].attempt >= 1
               /\ \A o \in Procs : Busy(o)' /\ proc'[o].job = proc'[q].job => o = q
    BY <1>2, <2>1, <2>3 DEF SafeInv, LeaseInv
  <2>4. /\ job'[proc'[p].job].status = "running"
        /\ job'[proc'[p].job].lease_owner = WorkerId[p]
        /\ ~job'[proc'[p].job].lease_expired
        /\ proc'[p].attempt = job'[proc'[p].job].attempt_count
        /\ proc'[p].attempt >= 1
        /\ \A o \in Procs : Busy(o)' /\ proc'[o].job = proc'[p].job => o = p
    BY <1>1, <1>2, <2>1, <2>2
  <2> QED BY <2>3, <2>4 DEF LeaseInv
<1>6. ClaimInv'
  <2>1. \A q \in Procs \ {p} : proc[q].pc = "claiming" => proc[q].job \in Jobs /\ proc[q].job # j
    BY <1>3 DEF Types, ProcJob, SafeInv, ClaimInv
  <2>2. \A q \in Procs : proc'[q].pc = "claiming" => q # p /\ proc'[q] = proc[q]
    BY <1>2
  <2>3. \A q \in Procs : proc'[q].pc = "claiming" => Claimable(proc[q].job)'
    <3> SUFFICES ASSUME NEW q \in Procs, proc'[q].pc = "claiming"
                 PROVE  Claimable(proc[q].job)'
        OBVIOUS
    <3>1. proc'[q] = proc[q] /\ job'[proc[q].job] = job[proc[q].job] /\ Claimable(proc[q].job)
      BY <1>1, <2>1, <2>2 DEF SafeInv, ClaimInv
    <3> QED BY <3>1 DEF Claimable
  <2>4. rowLock' = [rowLock EXCEPT ![j] = NoHolder] /\ rowLock \in [Jobs -> Procs \cup {NoHolder}]
    BY DEF ClaimCommit, Types, TypeOK
  <2>5. \A q \in Procs : q # NoHolder
    OBVIOUS
  <2>6. \A q \in Procs, k \in Jobs :
          rowLock'[k] = q <=> proc'[q].pc = "claiming" /\ proc'[q].job = k
    <3> SUFFICES ASSUME NEW q \in Procs, NEW k \in Jobs
                 PROVE  rowLock'[k] = q <=> proc'[q].pc = "claiming" /\ proc'[q].job = k
        OBVIOUS
    <3>1. rowLock[k] = q <=> proc[q].pc = "claiming" /\ proc[q].job = k
      BY DEF SafeInv, ClaimInv
    <3>2. rowLock'[k] = IF k = j THEN NoHolder ELSE rowLock[k]
      BY <2>4
    <3>3. CASE q = p
      BY <1>2, <1>3, <2>5, <3>1, <3>2, <3>3
    <3>4. CASE q # p
      BY <1>2, <1>3, <2>1, <2>5, <3>1, <3>2, <3>4
    <3> QED BY <3>3, <3>4
  <2> QED BY <1>2, <2>2, <2>3, <2>6 DEF SafeInv, ClaimInv
<1>7. RetryInv'
  <2>1. \A r \in Retriers : retry[r] # NoJob => retry[r] \in Jobs /\ retry[r] # j
    BY <1>3 DEF Types, TypeOK, SafeInv, RetryInv, Claimable
  <2>2. retry' = retry
    BY DEF ClaimCommit
  <2> QED BY <1>1, <2>1, <2>2 DEF SafeInv, RetryInv
<1>8. ProducedInv'
  <2>1. artifacts' = artifacts
    BY DEF ClaimCommit
  <2>2. job[j].status # "succeeded"
    BY <1>3 DEF Claimable
  <2>3. \A i \in Nat : <<j, i>> \notin artifacts
    BY <1>0, <2>2 DEF SafeInv, ProducedInv
  <2> QED BY <1>0, <1>1, <2>1, <2>3 DEF SafeInv, ProducedInv
<1> QED BY <1>5, <1>6, <1>7, <1>8 DEF SafeInv

(* Steps that change one job row without touching a running job's lease,   *)
(* and no process or lock.                                                 *)
LEMMA SafeRowChange ==
    ASSUME Types, SafeInv, NEW j \in Jobs,
           \A k \in Jobs \ {j} : job'[k] = job[k],
           job'[j].attempt_count = job[j].attempt_count,
           job[j].status # "succeeded", job'[j].status # "succeeded",
           Claimable(j) => Claimable(j)',
           \A p \in Procs : ~(Busy(p) /\ proc[p].job = j),
           \A r \in Retriers : retry'[r] # NoJob =>
              retry'[r] = retry[r] /\ retry[r] # j,
           UNCHANGED <<proc, rowLock, artifacts>>
    PROVE  SafeInv'
<1>1. LeaseInv'
  <2>1. \A q \in Procs : Busy(q)' => /\ Busy(q) /\ proc'[q] = proc[q]
                                     /\ job'[proc[q].job] = job[proc[q].job]
    BY DEF Busy, Types, ProcJob
  <2> QED BY <2>1 DEF SafeInv, LeaseInv
<1>2. ClaimInv'
  <2>1. \A q \in Procs : proc[q].pc = "claiming" => Claimable(proc[q].job)'
    <3> SUFFICES ASSUME NEW q \in Procs, proc[q].pc = "claiming" PROVE Claimable(proc[q].job)'
        OBVIOUS
    <3>1. proc[q].job \in Jobs /\ Claimable(proc[q].job)
      BY DEF Types, ProcJob, SafeInv, ClaimInv
    <3>2. CASE proc[q].job = j
      BY <3>1, <3>2 DEF Claimable
    <3>3. CASE proc[q].job # j
      <4>1. job'[proc[q].job] = job[proc[q].job]
        BY <3>1, <3>3
      <4> QED BY <3>1, <4>1 DEF Claimable
    <3> QED BY <3>2, <3>3
  <2> QED BY <2>1 DEF SafeInv, ClaimInv
<1>3. RetryInv'
  <2> SUFFICES ASSUME NEW r \in Retriers, retry'[r] # NoJob PROVE job'[retry'[r]].status = "failed"
      BY DEF RetryInv
  <2>1. retry'[r] = retry[r] /\ retry[r] \in Jobs /\ retry[r] # j
    BY DEF Types, TypeOK
  <2>2. job'[retry[r]] = job[retry[r]]
    BY <2>1
  <2> QED BY <2>1, <2>2 DEF SafeInv, RetryInv
<1>4. ProducedInv'
  <2>1. \A k \in Jobs : /\ job'[k].attempt_count = job[k].attempt_count
                        /\ job'[k].status = "succeeded" <=> job[k].status = "succeeded"
    OBVIOUS
  <2> QED BY <2>1 DEF SafeInv, ProducedInv
<1> QED BY <1>1, <1>2, <1>3, <1>4 DEF SafeInv

LEMMA SafeStep ==
    ASSUME TimelyWorkers
    PROVE  Types /\ Types' /\ SafeInv /\ [Next]_vars => SafeInv'
<1> SUFFICES ASSUME Types, Types', SafeInv, [Next]_vars PROVE SafeInv'
    OBVIOUS
<1>0. job \in [Jobs -> JobRow] /\ proc \in [Procs -> ProcState] /\ retry \in [Retriers -> Jobs \cup {NoJob}]
      /\ rowLock \in [Jobs -> Procs \cup {NoHolder}]
  BY DEF Types, TypeOK
<1>a. StagingProcs = {} /\ SlowWorkers = {}
  BY DEF TimelyWorkers
<1>b. \A p \in Procs : Busy(p) => /\ job[proc[p].job].status = "running"
                                  /\ proc[p].attempt = job[proc[p].job].attempt_count
  BY DEF SafeInv, LeaseInv
<1>1. ASSUME NEW j \in Jobs, Enqueue(j) PROVE SafeInv'
  <2>1. /\ \A k \in Jobs \ {j} : job'[k] = job[k]
        /\ job'[j].attempt_count = job[j].attempt_count /\ job'[j].status = "queued"
        /\ job[j].status = "absent"
    BY <1>0, <1>1 DEF Enqueue, JobRow
  <2>2. \A r \in Retriers : retry'[r] # NoJob => retry'[r] = retry[r] /\ retry[r] # j
    BY <1>1, <2>1 DEF Enqueue, SafeInv, RetryInv
  <2> QED BY <1>b, <1>1, <2>1, <2>2, SafeRowChange DEF Enqueue, Claimable
<1>2. ASSUME NEW r \in Retriers, NEW j \in Jobs, RetryRead(r, j) PROVE SafeInv'
  <2>1. LeaseInv' /\ ClaimInv' /\ ProducedInv'
    BY <1>2 DEF RetryRead, SafeInv, LeaseInv, ClaimInv, ProducedInv, Busy, Claimable
  <2>2. RetryInv'
    BY <1>0, <1>2 DEF RetryRead, SafeInv, RetryInv
  <2> QED BY <2>1, <2>2 DEF SafeInv
<1>3. ASSUME NEW r \in Retriers, RetryWrite(r) PROVE SafeInv'
  <2>0. PICK j \in Jobs : j = retry[r] /\ job[j].status = "failed"
    BY <1>0, <1>3 DEF RetryWrite, SafeInv, RetryInv
  <2>1. /\ \A k \in Jobs \ {j} : job'[k] = job[k]
        /\ job'[j].attempt_count = job[j].attempt_count /\ job'[j].status = "queued"
    BY <1>0, <1>3, <2>0 DEF RetryWrite, JobRow
  <2>2. \A q \in Retriers : retry'[q] = NoJob
    BY <1>0, <1>3 DEF RetryWrite, TimelyWorkers
  <2>3. UNCHANGED <<proc, rowLock, artifacts>>
    BY <1>3 DEF RetryWrite
  <2>4. /\ Claimable(j) => Claimable(j)'
        /\ \A p \in Procs : ~(Busy(p) /\ proc[p].job = j)
    BY <1>b, <2>0 DEF Claimable
  <2>5. job[j].status # "succeeded" /\ job'[j].status # "succeeded"
    BY <2>0, <2>1
  <2> QED BY <2>0, <2>1, <2>2, <2>3, <2>4, <2>5, SafeRowChange
<1>4. ASSUME NEW p \in Procs, GuardRead(p) \/ GuardReject(p) \/ ClaimNothing(p) PROVE SafeInv'
  BY <1>a, <1>4 DEF GuardRead, GuardReject, ClaimNothing, SafeInv, ClaimInv
<1>6. ASSUME NEW p \in Procs, NEW j \in Jobs, ClaimSelect(p, j) PROVE SafeInv'
  <2>1. /\ proc'[p].pc = "claiming" /\ proc'[p].job = j /\ proc[p].pc = "idle"
        /\ \A q \in Procs \ {p} : proc'[q] = proc[q]
    BY <1>0, <1>a, <1>6 DEF ClaimSelect, ReadyToClaim, Idle
  <2>2. /\ UNCHANGED <<job, artifacts, retry>> /\ Claimable(j)
        /\ rowLock[j] = NoHolder /\ rowLock' = [rowLock EXCEPT ![j] = p]
    BY <1>6 DEF ClaimSelect, Unlocked
  <2>3. \A q \in Procs : /\ Busy(q) <=> Busy(q)'
                         /\ Busy(q) => proc'[q] = proc[q]
    BY <2>1 DEF Busy
  <2>4. LeaseInv'
    BY <2>2, <2>3 DEF SafeInv, LeaseInv
  <2>5. RetryInv' /\ ProducedInv'
    BY <2>2 DEF SafeInv, RetryInv, ProducedInv
  <2>6. \A q \in Procs, k \in Jobs :
          rowLock'[k] = q <=> proc'[q].pc = "claiming" /\ proc'[q].job = k
    <3>1. \A q \in Procs : ~(proc[q].pc = "claiming" /\ proc[q].job = j)
      <4>1. \A q \in Procs : rowLock[j] # q
        BY <2>2
      <4> QED BY <4>1 DEF SafeInv, ClaimInv
    <3>2. \A k \in Jobs : rowLock[k] # p
      BY <2>1 DEF SafeInv, ClaimInv
    <3> QED BY <1>0, <2>1, <2>2, <3>1, <3>2 DEF SafeInv, ClaimInv
  <2>7. \A q \in Procs : proc'[q].pc = "claiming" => Claimable(proc[q].job)'
    BY <2>1, <2>2 DEF SafeInv, ClaimInv, Claimable
  <2>8. \A q \in Procs : proc'[q].pc \notin {"guarded", "rejecting"}
    BY <2>1 DEF SafeInv, ClaimInv
  <2> QED BY <2>4, <2>5, <2>6, <2>7, <2>8 DEF SafeInv, ClaimInv
<1>8. ASSUME NEW p \in Procs, ClaimCommit(p) PROVE SafeInv'
  BY <1>8, SafeClaim
<1>9. ASSUME NEW p \in Procs, FailTerminal(p) PROVE SafeInv'
  BY <1>9, SafeFinish DEF FailTerminal, Busy
<1>10. ASSUME NEW p \in Procs, Complete(p) PROVE SafeInv'
  BY <1>10, SafeFinish DEF Complete, Busy
<1>11. ASSUME NEW p \in Procs, FailRead(p) PROVE SafeInv'
  <2>1. PICK s : proc' = [proc EXCEPT ![p] = [proc[p] EXCEPT !.pc = "failing", !.next = s]]
    BY <1>0, <1>11 DEF FailRead
  <2>2. \A q \in Procs : /\ Busy(q) <=> Busy(q)'
                         /\ proc'[q].job = proc[q].job
                         /\ proc'[q].attempt = proc[q].attempt
                         /\ proc[q].pc = "claiming" <=> proc'[q].pc = "claiming"
                         /\ proc'[q].pc \in {proc[q].pc, "failing"}
    <3>1. /\ proc'[p] = [proc[p] EXCEPT !.pc = "failing", !.next = s]
          /\ proc[p] \in ProcState /\ proc[p].pc = "working"
      BY <1>0, <1>11, <2>1 DEF FailRead
    <3>2. \A q \in Procs \ {p} : proc'[q] = proc[q]
      BY <1>0, <2>1
    <3> QED BY <3>1, <3>2 DEF Busy, ProcState
  <2>3. UNCHANGED <<job, rowLock, artifacts, retry>>
    BY <1>11 DEF FailRead
  <2>4. LeaseInv'
    BY <2>2, <2>3 DEF SafeInv, LeaseInv
  <2>5. ClaimInv'
    BY <2>2, <2>3 DEF SafeInv, ClaimInv, Claimable
  <2>6. RetryInv' /\ ProducedInv'
    BY <2>3 DEF SafeInv, RetryInv, ProducedInv
  <2> QED BY <2>4, <2>5, <2>6 DEF SafeInv
<1>12. ASSUME NEW p \in Procs, FailWrite(p) PROVE SafeInv'
  <2>1. proc[p].next \in {"queued", "failed"}
    BY <1>0 DEF ProcState
  <2> QED BY <1>12, <2>1, SafeFinish DEF FailWrite, Busy
<1>13. ASSUME NEW j \in Jobs, LeaseExpires(j) PROVE SafeInv'
  <2>1. /\ \A k \in Jobs \ {j} : job'[k] = job[k]
        /\ job'[j].attempt_count = job[j].attempt_count
        /\ job'[j].status = "running" /\ job[j].status = "running" /\ job'[j].lease_expired = TRUE
    BY <1>0, <1>13 DEF LeaseExpires, JobRow
  <2>2. \A p \in Procs : ~(Busy(p) /\ proc[p].job = j)
    BY <1>a, <1>b, <1>13 DEF LeaseExpires, Holds, Busy
  <2>3. \A r \in Retriers : retry'[r] # NoJob => retry'[r] = retry[r] /\ retry[r] # j
    BY <1>13, <2>1 DEF LeaseExpires, SafeInv, RetryInv
  <2> QED BY <1>13, <2>1, <2>2, <2>3, SafeRowChange DEF LeaseExpires, Claimable
<1>14. ASSUME NEW p \in Procs, Crash(p) PROVE SafeInv'
  <2>1. /\ proc'[p].pc = "dead" /\ \A q \in Procs \ {p} : proc'[q] = proc[q]
        /\ \A k \in Jobs : rowLock'[k] = IF rowLock[k] = p THEN NoHolder ELSE rowLock[k]
        /\ UNCHANGED <<job, artifacts, retry>>
    BY <1>0, <1>14 DEF Crash, Idle
  <2>2. \A q \in Procs : Busy(q)' => Busy(q) /\ proc'[q] = proc[q]
    BY <2>1 DEF Busy
  <2>3. LeaseInv'
    BY <2>1, <2>2 DEF SafeInv, LeaseInv
  <2>4. RetryInv' /\ ProducedInv'
    BY <2>1 DEF SafeInv, RetryInv, ProducedInv
  <2>5. ClaimInv'
    BY <2>1 DEF SafeInv, ClaimInv, Claimable
  <2> QED BY <2>3, <2>4, <2>5 DEF SafeInv
<1>15. CASE UNCHANGED vars
  BY <1>15 DEF vars, SafeInv, LeaseInv, ClaimInv, RetryInv, ProducedInv, Busy, Claimable
<1> QED BY <1>1, <1>2, <1>3, <1>4, <1>6, <1>8, <1>9, <1>10, <1>11, <1>12, <1>13,
           <1>14, <1>15 DEF Next, WorkerStep

LEMMA SafeInit == Init => SafeInv
BY DEF Init, SafeInv, LeaseInv, ClaimInv, RetryInv, ProducedInv, Busy, Idle

LEMMA SafeInvariant ==
    ASSUME TimelyWorkers
    PROVE  Spec => []SafeInv
BY SafeInit, SafeStep, TypesInvariant, PTL DEF Spec

(* ExclusiveClaims: with timely standalone workers, FOR UPDATE SKIP LOCKED *)
(* and the leases keep every claimed job with one process until that       *)
(* process has written its result, dies, or both.                          *)
THEOREM ExclusiveClaims ==
    ASSUME TimelyWorkers
    PROVE  Spec => []OneWorkerPerJob
<1>1. SafeInv => OneWorkerPerJob
  BY DEF SafeInv, LeaseInv, OneWorkerPerJob, Busy, Holds
<1> QED BY <1>1, SafeInvariant, PTL

----------------------------------------------------------------------------
(* The refinement of JobLifecycle *)

(* The mapped variables. *)
Status == [j \in Jobs |-> job[j].status]

Produced == {j \in Jobs : \E n \in 1 .. job[j].attempt_count : <<j, n>> \in artifacts}

(* In a safe state the mapped set of produced jobs is the succeeded ones. *)
LEMMA ProducedIsSucceeded ==
    Types /\ SafeInv => Produced = {j \in Jobs : job[j].status = "succeeded"}
<1> SUFFICES ASSUME Types, SafeInv
             PROVE  Produced = {j \in Jobs : job[j].status = "succeeded"}
    OBVIOUS
<1>1. \A j \in Jobs : job[j].attempt_count \in Nat
  <2>1. \A j \in Jobs : job[j] \in JobRow
    BY DEF Types, TypeOK
  <2> QED BY <2>1 DEF JobRow
<1>2. \A j \in Jobs : \A n \in 1 .. job[j].attempt_count : n \in Nat
  BY <1>1
<1>3. \A j \in Jobs : (\E n \in 1 .. job[j].attempt_count : <<j, n>> \in artifacts)
                          <=> job[j].status = "succeeded"
  BY <1>2 DEF SafeInv, ProducedInv
<1> QED BY <1>3 DEF Produced

LEMMA ProducedIsSucceededNext ==
    (Types /\ SafeInv => Produced = {j \in Jobs : job[j].status = "succeeded"})'
BY ProducedIsSucceeded, PTL

(* One status changes, along an edge of the lifecycle. *)
LEMMA LifecycleMove ==
    ASSUME Types, Types', SafeInv, SafeInv', NEW j \in Jobs, NEW to,
           job'[j].status = to, \A k \in Jobs \ {j} : job'[k].status = job[k].status,
           \/ job[j].status = "absent" /\ to = "queued"
           \/ job[j].status = "queued" /\ to \in {"queued", "running", "failed"}
           \/ job[j].status = "running" /\ to \in {"running", "queued", "failed", "succeeded"}
           \/ job[j].status = "failed" /\ to \in {"queued", "failed"}
    PROVE  [Lifecycle!Next]_(Lifecycle!vars)
<1>1. /\ Produced = {k \in Jobs : job[k].status = "succeeded"}
      /\ Produced' = {k \in Jobs : job'[k].status = "succeeded"}
  <2>1. Produced = {k \in Jobs : job[k].status = "succeeded"}
    BY ProducedIsSucceeded
  <2>2. (Types /\ SafeInv => Produced = {k \in Jobs : job[k].status = "succeeded"})'
    BY ProducedIsSucceededNext
  <2> QED BY <2>1, <2>2
<1>2. Status' = [Status EXCEPT ![j] = to] /\ Status[j] = job[j].status
  BY DEF Status
<1>3. CASE to = job[j].status
  <2>1. Status' = Status /\ Produced' = Produced
    BY <1>1, <1>3 DEF Status
  <2> QED BY <2>1 DEF Lifecycle!vars, Status, Produced
<1>4. CASE to = "succeeded" /\ to # job[j].status
  <2>1. Produced' = Produced \cup {j} /\ j \notin Produced
    BY <1>1, <1>4
  <2>2. Lifecycle!Succeed(j)
    BY <1>2, <1>4, <2>1 DEF Lifecycle!Succeed, Lifecycle!Move, Status, Produced
  <2> QED BY <2>2 DEF Lifecycle!Next
<1>5. CASE to # "succeeded" /\ to # job[j].status
  <2>1. Produced' = Produced
    BY <1>1, <1>5
  <2>2. Lifecycle!Submit(j) \/ Lifecycle!Start(j) \/ Lifecycle!Requeue(j) \/ Lifecycle!Fail(j)
    BY <1>2, <1>5, <2>1 DEF Lifecycle!Submit, Lifecycle!Start, Lifecycle!Requeue,
       Lifecycle!Fail, Lifecycle!Move, Status, Produced
  <2> QED BY <2>2 DEF Lifecycle!Next
<1> QED BY <1>3, <1>4, <1>5

(* Every step of the queue is a step of the lifecycle, or none. *)
LEMMA LifecycleStep ==
    ASSUME TimelyWorkers
    PROVE  Types /\ Types' /\ SafeInv /\ SafeInv' /\ [Next]_vars
              => [Lifecycle!Next]_(Lifecycle!vars)
<1> SUFFICES ASSUME Types, Types', SafeInv, SafeInv', [Next]_vars
             PROVE  [Lifecycle!Next]_(Lifecycle!vars)
    OBVIOUS
<1>0. job \in [Jobs -> JobRow] /\ proc \in [Procs -> ProcState] /\ retry \in [Retriers -> Jobs \cup {NoJob}]
  BY DEF Types, TypeOK
<1>a. StagingProcs = {}
  BY DEF TimelyWorkers
<1>b. \A p \in Procs : Busy(p) => job[proc[p].job].status = "running" /\ proc[p].job \in Jobs
  BY DEF SafeInv, LeaseInv, Types, ProcJob, Busy
<1>c. ASSUME UNCHANGED <<job, artifacts>> PROVE [Lifecycle!Next]_(Lifecycle!vars)
  BY <1>c DEF Lifecycle!vars
<1>d. ASSUME NEW p \in Procs, Busy(p), NEW st \in {"queued", "failed", "succeeded"},
             job' = Unlease(proc[p].job, st)
      PROVE  [Lifecycle!Next]_(Lifecycle!vars)
  <2>1. PICK j \in Jobs : j = proc[p].job /\ job[j].status = "running"
    BY <1>b, <1>d
  <2>2. job'[j].status = st /\ \A k \in Jobs \ {j} : job'[k].status = job[k].status
    BY <1>0, <1>d, <2>1, UnleaseRow
  <2> QED BY <2>1, <2>2, LifecycleMove
<1>1. ASSUME NEW j \in Jobs, Enqueue(j) PROVE [Lifecycle!Next]_(Lifecycle!vars)
  <2>1. /\ job[j].status = "absent" /\ job'[j].status = "queued"
        /\ \A k \in Jobs \ {j} : job'[k].status = job[k].status
    BY <1>0, <1>1 DEF Enqueue, JobRow
  <2> QED BY <2>1, LifecycleMove
<1>2. ASSUME NEW r \in Retriers, NEW j \in Jobs, RetryRead(r, j)
      PROVE  [Lifecycle!Next]_(Lifecycle!vars)
  BY <1>2, <1>c DEF RetryRead
<1>3. ASSUME NEW r \in Retriers, RetryWrite(r) PROVE [Lifecycle!Next]_(Lifecycle!vars)
  <2>0. PICK j \in Jobs : j = retry[r] /\ job[j].status = "failed"
    BY <1>0, <1>3 DEF RetryWrite, SafeInv, RetryInv
  <2>1. job'[j].status = "queued" /\ \A k \in Jobs \ {j} : job'[k].status = job[k].status
    BY <1>0, <1>3, <2>0 DEF RetryWrite, JobRow
  <2> QED BY <2>0, <2>1, LifecycleMove
<1>4. ASSUME NEW p \in Procs, GuardRead(p) \/ GuardReject(p) \/ ClaimNothing(p)
      PROVE  [Lifecycle!Next]_(Lifecycle!vars)
  BY <1>a, <1>4 DEF GuardRead, GuardReject, ClaimNothing, SafeInv, ClaimInv
<1>6. ASSUME NEW p \in Procs, NEW j \in Jobs, ClaimSelect(p, j)
      PROVE  [Lifecycle!Next]_(Lifecycle!vars)
  BY <1>6, <1>c DEF ClaimSelect
<1>8. ASSUME NEW p \in Procs, ClaimCommit(p) PROVE [Lifecycle!Next]_(Lifecycle!vars)
  <2>1. PICK j \in Jobs : j = proc[p].job /\ Claimable(j)
    BY <1>8 DEF ClaimCommit, SafeInv, ClaimInv, Types, ProcJob
  <2>2. job'[j].status = "running" /\ \A k \in Jobs \ {j} : job'[k].status = job[k].status
    BY <1>0, <1>8, <2>1 DEF ClaimCommit, JobRow
  <2>3. job[j].status \in {"queued", "running"}
    BY <2>1 DEF Claimable
  <2> QED BY <2>2, <2>3, LifecycleMove
<1>9. ASSUME NEW p \in Procs, FailTerminal(p) PROVE [Lifecycle!Next]_(Lifecycle!vars)
  BY <1>9, <1>d DEF FailTerminal, Busy
<1>10. ASSUME NEW p \in Procs, Complete(p) PROVE [Lifecycle!Next]_(Lifecycle!vars)
  BY <1>10, <1>d DEF Complete, Busy
<1>11. ASSUME NEW p \in Procs, FailRead(p) PROVE [Lifecycle!Next]_(Lifecycle!vars)
  BY <1>11, <1>c DEF FailRead
<1>12. ASSUME NEW p \in Procs, FailWrite(p) PROVE [Lifecycle!Next]_(Lifecycle!vars)
  <2>1. proc[p].next \in {"queued", "failed"}
    BY <1>0 DEF ProcState
  <2>2. PICK st \in {"queued", "failed"} : st = proc[p].next
    BY <2>1
  <2> QED BY <1>12, <1>d, <2>2 DEF FailWrite, Busy
<1>13. ASSUME NEW j \in Jobs, LeaseExpires(j) PROVE [Lifecycle!Next]_(Lifecycle!vars)
  <2>1. /\ job[j].status = "running" /\ job'[j].status = "running"
        /\ \A k \in Jobs \ {j} : job'[k].status = job[k].status
    BY <1>0, <1>13 DEF LeaseExpires, JobRow
  <2> QED BY <2>1, LifecycleMove
<1>14. ASSUME NEW p \in Procs, Crash(p) PROVE [Lifecycle!Next]_(Lifecycle!vars)
  BY <1>14, <1>c DEF Crash
<1>15. CASE UNCHANGED vars
  BY <1>15, <1>c DEF vars
<1> QED BY <1>1, <1>2, <1>3, <1>4, <1>6, <1>8, <1>9, <1>10, <1>11, <1>12, <1>13,
           <1>14, <1>15 DEF Next, WorkerStep

(* LifecycleCorrect: for timely standalone workers the queue of jobs.py,   *)
(* worker.py and retry_job implements the lifecycle its users see: only    *)
(* the documented status changes, the artifact with the success, and no    *)
(* way out of succeeded.                                                   *)
THEOREM LifecycleCorrect ==
    ASSUME TimelyWorkers
    PROVE  Spec => LifecycleSpec
<1>1. Init => Lifecycle!Init
  BY DEF Init, Lifecycle!Init
<1> QED BY <1>1, LifecycleStep, SafeInvariant, TypesInvariant, PTL
        DEF Spec, LifecycleSpec, Lifecycle!Spec

----------------------------------------------------------------------------
(* The bound on failures *)

FailedOf(j) == {a \in attempts : a.job = j /\ a.status = "failed"}

(* A job that may still be attempted has a failure to spare, and a process *)
(* that is about to queue its job again has read counters that still hold. *)
FailuresInv ==
    /\ \A j \in Jobs :
          /\ Cardinality(FailedOf(j)) <= job[j].max_attempts
          /\ job[j].status \in {"absent", "queued", "running"} =>
                Cardinality(FailedOf(j)) < job[j].max_attempts
    /\ \A p \in Procs :
          proc[p].pc = "failing" /\ proc[p].next = "queued" =>
              job[proc[p].job].attempt_count < job[proc[p].job].max_attempts

(* The ledger bounds the failures by the attempts: one row per number. *)
LEMMA FailedBound ==
    ASSUME TypeOK, LedgerInv, NEW j \in Jobs
    PROVE  /\ IsFiniteSet(FailedOf(j)) /\ Cardinality(FailedOf(j)) \in Nat
           /\ Cardinality(FailedOf(j)) <= job[j].attempt_count
<1> DEFINE n == job[j].attempt_count
           numbers == [a \in FailedOf(j) |-> a.number]
<1>1. n \in Nat
  <2>1. job[j] \in JobRow
    BY DEF TypeOK
  <2> QED BY <2>1 DEF JobRow
<1>2. IsFiniteSet(1 .. n) /\ Cardinality(1 .. n) = n
  <2> HIDE DEF n
  <2>1. IsFiniteSet(1 .. n) /\ Cardinality(1 .. n) = IF 1 > n THEN 0 ELSE n - 1 + 1
    BY <1>1, FS_Interval
  <2> QED BY <1>1, <2>1
<1>3. \A a \in FailedOf(j) : a.number \in 1 .. n
  BY DEF FailedOf, LedgerInv
<1>4. \A a, b \in FailedOf(j) : a.number = b.number => a = b
  BY DEF FailedOf, LedgerInv
<1>5. numbers \in Injection(FailedOf(j), 1 .. n)
  <2>1. numbers \in [FailedOf(j) -> 1 .. n]
    BY <1>3
  <2>2. \A a, b \in FailedOf(j) : numbers[a] = numbers[b] => a = b
    BY <1>4
  <2> QED BY <2>1, <2>2 DEF Injection, IsInjective
<1> HIDE DEF n, numbers
<1>6. IsFiniteSet(FailedOf(j)) /\ Cardinality(FailedOf(j)) <= Cardinality(1 .. n)
  BY <1>2, <1>5, FS_Injection
<1>7. Cardinality(FailedOf(j)) \in Nat
  BY <1>6, FS_CardinalityType
<1> QED BY <1>2, <1>6, <1>7 DEF n

LEMMA FailedBoundNext ==
    (TypeOK /\ LedgerInv =>
        \A j \in Jobs : /\ Cardinality(FailedOf(j)) \in Nat
                        /\ Cardinality(FailedOf(j)) <= job[j].attempt_count)'
<1>1. TypeOK /\ LedgerInv =>
        \A j \in Jobs : /\ Cardinality(FailedOf(j)) \in Nat
                        /\ Cardinality(FailedOf(j)) <= job[j].attempt_count
  BY FailedBound
<1> QED BY <1>1, PTL

(* Steps that fail nothing and leave the counters of running jobs alone. *)
LEMMA FailuresKept ==
    ASSUME Types, LedgerInv, FailuresInv,
           \A j \in Jobs :
              /\ FailedOf(j)' = FailedOf(j)
              /\ job'[j].max_attempts = job[j].max_attempts
              /\ job'[j].status \in {"absent", "queued", "running"} =>
                    job[j].status \in {"absent", "queued", "running"},
           \A p \in Procs :
              proc'[p].pc = "failing" /\ proc'[p].next = "queued" =>
                 job'[proc'[p].job].attempt_count < job'[proc'[p].job].max_attempts
    PROVE  FailuresInv'
BY DEF FailuresInv

(* Which process is in fail_job, and what it read, is what it was. *)
SameFailing ==
    \A p \in Procs : proc'[p].pc = "failing" =>
        /\ proc[p].pc = "failing" /\ proc'[p].next = proc[p].next /\ proc'[p].job = proc[p].job

LEMMA FailingKept ==
    ASSUME Types, FailuresInv, SameFailing,
           \A p \in Procs : Busy(p) /\ proc'[p].pc = "failing" =>
              /\ job'[proc[p].job].attempt_count = job[proc[p].job].attempt_count
              /\ job'[proc[p].job].max_attempts = job[proc[p].job].max_attempts
    PROVE  \A p \in Procs :
              proc'[p].pc = "failing" /\ proc'[p].next = "queued" =>
                 job'[proc'[p].job].attempt_count < job'[proc'[p].job].max_attempts
BY DEF FailuresInv, SameFailing, Busy

(* A busy process ends its attempt as a failure: one more of them. *)
LEMMA FailsOnce ==
    ASSUME Types, LedgerInv, OwnershipInv, NEW p \in Procs, Busy(p),
           NEW j \in Jobs, j = proc[p].job,
           attempts' = CloseAttempts(j, WorkerId[p], "failed")
    PROVE  /\ Cardinality(FailedOf(j)') <= Cardinality(FailedOf(j)) + 1
           /\ \A k \in Jobs \ {j} : FailedOf(k)' = FailedOf(k)
<1>0. attempts \subseteq AttemptRow
  BY DEF Types, TypeOK
<1>1. PICK a \in attempts : /\ OwnAttempt(p, a)
                            /\ attempts' = (attempts \ {a}) \cup {[a EXCEPT !.status = "failed"]}
  BY CloseOwn DEF Types
<1> DEFINE c == [a EXCEPT !.status = "failed"]
<1>2. c.job = j /\ c.status = "failed" /\ a.job = j /\ a.status = "running"
  BY <1>0, <1>1 DEF OwnAttempt, AttemptRow
<1> HIDE DEF c
<1>3. FailedOf(j)' = FailedOf(j) \cup {c}
  BY <1>1, <1>2 DEF FailedOf, c
<1>4. \A k \in Jobs \ {j} : FailedOf(k)' = FailedOf(k)
  BY <1>1, <1>2 DEF FailedOf, c
<1>5. IsFiniteSet(FailedOf(j)) /\ Cardinality(FailedOf(j)) \in Nat
  BY <1>0, FailedBound DEF Types
<1>6. Cardinality(FailedOf(j) \cup {c}) <= Cardinality(FailedOf(j)) + 1
  <2>1. Cardinality(FailedOf(j) \cup {c}) =
           IF c \in FailedOf(j) THEN Cardinality(FailedOf(j)) ELSE Cardinality(FailedOf(j)) + 1
    BY <1>5, FS_AddElement
  <2> QED BY <1>5, <2>1
<1> QED BY <1>3, <1>4, <1>6

(* fail_job and fail_job_terminal: the last failure of a job is the one    *)
(* after which it is not queued again.                                     *)
LEMMA FailuresFail ==
    ASSUME Types, Types', LedgerInv, LedgerInv', OwnershipInv, SafeInv, FailuresInv,
           NEW p \in Procs, Busy(p), NEW j \in Jobs, j = proc[p].job,
           NEW st \in {"queued", "failed"},
           st = "queued" => proc[p].pc = "failing" /\ proc[p].next = "queued",
           attempts' = CloseAttempts(j, WorkerId[p], "failed"),
           job' = Unlease(j, st),
           proc' = [proc EXCEPT ![p] = Idle]
    PROVE  FailuresInv'
<1>0. job \in [Jobs -> JobRow] /\ proc \in [Procs -> ProcState]
  BY DEF Types, TypeOK
<1>1. /\ job'[j].status = st /\ job'[j].attempt_count = job[j].attempt_count
      /\ job'[j].max_attempts = job[j].max_attempts
      /\ \A k \in Jobs \ {j} : job'[k] = job[k]
  BY <1>0 DEF Unlease, JobRow
<1>2. /\ job[j].attempt_count \in Nat /\ job[j].max_attempts \in Nat
      /\ Cardinality(FailedOf(j)) \in Nat
  BY <1>0, FailedBound DEF JobRow, Types
<1>3. /\ Cardinality(FailedOf(j)') <= Cardinality(FailedOf(j)) + 1
      /\ \A k \in Jobs \ {j} : FailedOf(k)' = FailedOf(k)
  BY FailsOnce
<1>4. /\ Cardinality(FailedOf(j)') \in Nat
      /\ Cardinality(FailedOf(j)') <= job'[j].attempt_count
  <2>1. \A k \in Jobs : Cardinality(FailedOf(k)') \in Nat
                        /\ Cardinality(FailedOf(k)') <= job'[k].attempt_count
    BY FailedBoundNext DEF Types
  <2> QED BY <1>0, <2>1
<1>5. job[j].status = "running"
  BY DEF SafeInv, LeaseInv
<1>6. Cardinality(FailedOf(j)) < job[j].max_attempts
  BY <1>0, <1>5 DEF FailuresInv
<1>7. Cardinality(FailedOf(j)') <= job'[j].max_attempts
  BY <1>1, <1>2, <1>3, <1>4, <1>6
<1>8. st = "queued" => Cardinality(FailedOf(j)') < job'[j].max_attempts
  BY <1>1, <1>2, <1>4 DEF FailuresInv
<1>9. SameFailing
  BY <1>0 DEF SameFailing, Idle
<1>10. \A q \in Procs : Busy(q) => proc[q].job \in Jobs
  BY DEF Types, ProcJob, Busy
<1>11. \A q \in Procs :
         proc'[q].pc = "failing" /\ proc'[q].next = "queued" =>
            job'[proc'[q].job].attempt_count < job'[proc'[q].job].max_attempts
  BY <1>1, <1>9, <1>10, FailingKept
<1>12. \A k \in Jobs :
         /\ Cardinality(FailedOf(k)') <= job'[k].max_attempts
         /\ job'[k].status \in {"absent", "queued", "running"} =>
               Cardinality(FailedOf(k)') < job'[k].max_attempts
  <2> SUFFICES ASSUME NEW k \in Jobs
               PROVE  /\ Cardinality(FailedOf(k)') <= job'[k].max_attempts
                      /\ job'[k].status \in {"absent", "queued", "running"} =>
                            Cardinality(FailedOf(k)') < job'[k].max_attempts
      OBVIOUS
  <2>1. CASE k = j
    BY <1>1, <1>7, <1>8, <2>1
  <2>2. CASE k # j
    BY <1>1, <1>3, <2>2 DEF FailuresInv
  <2> QED BY <2>1, <2>2
<1> QED BY <1>11, <1>12 DEF FailuresInv

(* Every action keeps the failures of every job within its allowance. *)
LEMMA FailuresStep ==
    ASSUME TimelyWorkers
    PROVE  /\ Types /\ Types' /\ LedgerInv /\ LedgerInv' /\ ArtifactInv /\ SafeInv /\ SafeInv'
           /\ FailuresInv /\ [Next]_vars
           => FailuresInv'
<1> SUFFICES ASSUME Types, Types', LedgerInv, LedgerInv', ArtifactInv, SafeInv, SafeInv',
                    FailuresInv, [Next]_vars
             PROVE  FailuresInv'
    OBVIOUS
<1>0. /\ job \in [Jobs -> JobRow] /\ proc \in [Procs -> ProcState]
      /\ retry \in [Retriers -> Jobs \cup {NoJob}] /\ OwnershipInv
  BY DEF Types, TypeOK, ArtifactInv
<1>a. \A p \in Procs : Busy(p) => proc[p].job \in Jobs /\ job[proc[p].job].status = "running"
  BY DEF Types, ProcJob, Busy, SafeInv, LeaseInv
<1>b. \A p \in Procs : proc[p].pc # "rejecting"
  BY DEF SafeInv, ClaimInv
<1>c. \A k \in Jobs : job[k] \in JobRow
  BY <1>0
<1>1. ASSUME NEW j \in Jobs, Enqueue(j) PROVE FailuresInv'
  <2>1. /\ job[j].status = "absent" /\ proc' = proc
        /\ \A k \in Jobs : FailedOf(k)' = FailedOf(k)
        /\ \A k \in Jobs : /\ job'[k].max_attempts = job[k].max_attempts
                           /\ job'[k].attempt_count = job[k].attempt_count
                           /\ k # j => job'[k].status = job[k].status
    BY <1>0, <1>c, <1>1 DEF Enqueue, FailedOf, JobRow
  <2>2. \A p \in Procs :
           proc'[p].pc = "failing" /\ proc'[p].next = "queued" =>
              job'[proc'[p].job].attempt_count < job'[proc'[p].job].max_attempts
    BY <1>a, <2>1, FailingKept DEF SameFailing
  <2> QED BY <2>1, <2>2, FailuresKept
<1>2. ASSUME NEW r \in Retriers, NEW j \in Jobs, RetryRead(r, j) PROVE FailuresInv'
  BY <1>2 DEF RetryRead, FailuresInv, FailedOf
<1>3. ASSUME NEW r \in Retriers, RetryWrite(r) PROVE FailuresInv'
  <2> DEFINE i == retry[r]
  <2>1. PICK j \in Jobs : j = i
    BY <1>0, <1>3 DEF RetryWrite
  <2>2. /\ job[j].status = "failed" /\ proc' = proc
        /\ \A k \in Jobs : FailedOf(k)' = FailedOf(k)
        /\ job'[j].max_attempts = job[j].max_attempts + 1
        /\ \A k \in Jobs : k # j => job'[k] = job[k]
    BY <1>0, <1>c, <1>3, <2>1 DEF RetryWrite, FailedOf, JobRow, SafeInv, RetryInv
  <2>3. \A p \in Procs :
           proc'[p].pc = "failing" /\ proc'[p].next = "queued" =>
              job'[proc'[p].job].attempt_count < job'[proc'[p].job].max_attempts
    <3>1. \A p \in Procs : Busy(p) => job'[proc[p].job] = job[proc[p].job]
      BY <1>a, <2>2
    <3> QED BY <2>2, <3>1, FailingKept DEF SameFailing
  <2>4. Cardinality(FailedOf(j)) \in Nat /\ Cardinality(FailedOf(j)) <= job[j].max_attempts
    BY FailedBound DEF Types, FailuresInv
  <2>5. job[j].max_attempts \in Nat
    BY <1>c DEF JobRow
  <2>6. Cardinality(FailedOf(j)') < job'[j].max_attempts /\ Cardinality(FailedOf(j)') <= job'[j].max_attempts
    <3>1. Cardinality(FailedOf(j)') = Cardinality(FailedOf(j))
      BY <2>2
    <3>2. job'[j].max_attempts = job[j].max_attempts + 1
      BY <2>2
    <3> QED BY <2>4, <2>5, <3>1, <3>2
  <2>7. \A k \in Jobs :
          /\ Cardinality(FailedOf(k)') <= job'[k].max_attempts
          /\ job'[k].status \in {"absent", "queued", "running"} =>
                Cardinality(FailedOf(k)') < job'[k].max_attempts
    <3> SUFFICES ASSUME NEW k \in Jobs
                 PROVE  /\ Cardinality(FailedOf(k)') <= job'[k].max_attempts
                        /\ job'[k].status \in {"absent", "queued", "running"} =>
                              Cardinality(FailedOf(k)') < job'[k].max_attempts
        OBVIOUS
    <3>1. CASE k = j
      BY <2>6, <3>1
    <3>2. CASE k # j
      BY <2>2, <3>2 DEF FailuresInv
    <3> QED BY <3>1, <3>2
  <2> QED BY <2>3, <2>7 DEF FailuresInv
<1>d. ASSUME NEW p \in Procs, UNCHANGED <<job, attempts>>, NEW s,
             proc' = [proc EXCEPT ![p] = s], s.pc # "failing"
      PROVE  FailuresInv'
  <2>1. proc'[p].pc # "failing" /\ \A q \in Procs : q # p => proc'[q] = proc[q]
    BY <1>0, <1>d
  <2> QED BY <1>d, <2>1 DEF FailuresInv, FailedOf
<1>4. ASSUME NEW p \in Procs, GuardRead(p) PROVE FailuresInv'
  BY <1>4 DEF GuardRead, TimelyWorkers
<1>6. ASSUME NEW p \in Procs, NEW j \in Jobs, ClaimSelect(p, j) PROVE FailuresInv'
  <2>1. [Idle EXCEPT !.pc = "claiming", !.job = j].pc # "failing"
    BY DEF Idle
  <2> QED BY <1>6, <2>1, <1>d DEF ClaimSelect
<1>7. ASSUME NEW p \in Procs, ClaimNothing(p) PROVE FailuresInv'
  <2>1. Idle.pc # "failing"
    BY DEF Idle
  <2> QED BY <1>7, <2>1, <1>d DEF ClaimNothing
<1>8. ASSUME NEW p \in Procs, ClaimCommit(p) PROVE FailuresInv'
  <2>1. PICK j \in Jobs : j = proc[p].job
    BY <1>8 DEF ClaimCommit, Types, ProcJob
  <2>2. /\ job'[j].max_attempts = job[j].max_attempts
        /\ \A k \in Jobs : k # j => job'[k] = job[k]
    BY <1>0, <1>c, <1>8, <2>1 DEF ClaimCommit, JobRow
  <2>3. job[j].status \in {"queued", "running"}
    BY <1>8, <2>1 DEF ClaimCommit, SafeInv, ClaimInv, Claimable
  <2>4. \A k \in Jobs : FailedOf(k)' = FailedOf(k)
    BY <1>8 DEF ClaimCommit, InsertAttempt, FailedOf
  <2>5. /\ proc'[p].pc = "working" /\ proc'[p].job = j
        /\ \A q \in Procs : q # p => proc'[q] = proc[q]
    BY <1>0, <1>8, <2>1 DEF ClaimCommit, ProcState
  <2>6. \A q \in Procs : q # p /\ Busy(q) => proc[q].job # j
    <3> SUFFICES ASSUME NEW q \in Procs, q # p, Busy(q), proc[q].job = j PROVE FALSE
        OBVIOUS
    <3>1. Busy(q)' /\ Busy(p)' /\ proc'[q].job = proc'[p].job
      BY <2>5 DEF Busy
    <3> QED BY <3>1 DEF SafeInv, LeaseInv
  <2>7. SameFailing
    BY <2>5 DEF SameFailing
  <2>8. \A q \in Procs : Busy(q) /\ proc'[q].pc = "failing" => job'[proc[q].job] = job[proc[q].job]
    BY <1>a, <2>2, <2>5, <2>6
  <2>9. \A q \in Procs :
           proc'[q].pc = "failing" /\ proc'[q].next = "queued" =>
              job'[proc'[q].job].attempt_count < job'[proc'[q].job].max_attempts
    BY <2>7, <2>8, FailingKept
  <2> QED BY <2>2, <2>3, <2>4, <2>9, FailuresKept
<1>9. ASSUME NEW p \in Procs, FailTerminal(p) PROVE FailuresInv'
  <2>1. Busy(p)
    BY <1>9 DEF FailTerminal, Busy
  <2>2. PICK j \in Jobs : j = proc[p].job
    BY <1>a, <2>1
  <2> QED BY <1>0, <1>9, <2>1, <2>2, FailuresFail DEF FailTerminal
<1>10. ASSUME NEW p \in Procs, Complete(p) PROVE FailuresInv'
  <2>1. Busy(p)
    BY <1>10 DEF Complete, Busy
  <2>2. PICK j \in Jobs : j = proc[p].job
    BY <1>a, <2>1
  <2>3. PICK a \in attempts : /\ OwnAttempt(p, a)
                              /\ attempts' = (attempts \ {a}) \cup {[a EXCEPT !.status = "succeeded"]}
    BY <1>0, <1>10, <2>1, CloseOwn DEF Complete, Types
  <2>4. a.status = "running" /\ [a EXCEPT !.status = "succeeded"].status = "succeeded"
    BY <2>3 DEF OwnAttempt, Types, TypeOK, AttemptRow
  <2>5. \A k \in Jobs : FailedOf(k)' = FailedOf(k)
    BY <2>3, <2>4 DEF FailedOf
  <2>6. /\ job'[j].status = "succeeded"
        /\ \A k \in Jobs : /\ job'[k].max_attempts = job[k].max_attempts
                           /\ job'[k].attempt_count = job[k].attempt_count
                           /\ k # j => job'[k].status = job[k].status
    <3>1. job' = Unlease(j, "succeeded")
      BY <1>10, <2>2 DEF Complete
    <3> QED BY <1>0, <1>c, <3>1 DEF Unlease, JobRow
  <2>7. SameFailing
    BY <1>0, <1>10 DEF Complete, SameFailing, Idle
  <2>8. \A q \in Procs :
           proc'[q].pc = "failing" /\ proc'[q].next = "queued" =>
              job'[proc'[q].job].attempt_count < job'[proc'[q].job].max_attempts
    BY <1>a, <2>6, <2>7, FailingKept
  <2> QED BY <2>5, <2>6, <2>8, FailuresKept
<1>11. ASSUME NEW p \in Procs, FailRead(p) PROVE FailuresInv'
  <2>1. Busy(p)
    BY <1>11 DEF FailRead, Busy
  <2>2. PICK j \in Jobs : j = proc[p].job
    BY <1>a, <2>1
  <2>3. /\ proc'[p].job = j /\ UNCHANGED <<job, attempts>>
        /\ proc'[p].next = "queued" => ~(job[j].attempt_count >= job[j].max_attempts)
        /\ \A q \in Procs : q # p => proc'[q] = proc[q]
    BY <1>0, <1>11, <2>2 DEF FailRead, ProcState
  <2>4. job[j].attempt_count \in Nat /\ job[j].max_attempts \in Nat
    BY <1>c DEF JobRow
  <2> QED BY <2>3, <2>4 DEF FailuresInv, FailedOf
<1>12. ASSUME NEW p \in Procs, FailWrite(p) PROVE FailuresInv'
  <2>1. Busy(p) /\ proc[p].pc = "failing"
    BY <1>12 DEF FailWrite, Busy
  <2>2. PICK j \in Jobs : j = proc[p].job
    BY <1>a, <2>1
  <2>3. PICK st \in {"queued", "failed"} : st = proc[p].next
    BY <1>0 DEF ProcState
  <2> QED BY <1>0, <1>12, <2>1, <2>2, <2>3, FailuresFail DEF FailWrite
<1>13. ASSUME NEW j \in Jobs, LeaseExpires(j) PROVE FailuresInv'
  <2>1. /\ proc' = proc
        /\ \A k \in Jobs : FailedOf(k)' = FailedOf(k)
        /\ \A k \in Jobs : /\ job'[k].max_attempts = job[k].max_attempts
                           /\ job'[k].attempt_count = job[k].attempt_count
                           /\ job'[k].status = job[k].status
    BY <1>0, <1>c, <1>13 DEF LeaseExpires, FailedOf, JobRow
  <2>2. \A p \in Procs :
           proc'[p].pc = "failing" /\ proc'[p].next = "queued" =>
              job'[proc'[p].job].attempt_count < job'[proc'[p].job].max_attempts
    BY <1>a, <2>1, FailingKept DEF SameFailing
  <2> QED BY <2>1, <2>2, FailuresKept
<1>14. ASSUME NEW p \in Procs, Crash(p) PROVE FailuresInv'
  <2>1. [Idle EXCEPT !.pc = "dead"].pc # "failing"
    BY DEF Idle
  <2> QED BY <1>14, <2>1, <1>d DEF Crash
<1>15. CASE UNCHANGED vars
  BY <1>15 DEF vars, FailuresInv, FailedOf
<1>16. ASSUME NEW p \in Procs, GuardReject(p) PROVE FailuresInv'
  BY <1>b, <1>16 DEF GuardReject
<1> QED BY <1>1, <1>2, <1>3, <1>4, <1>6, <1>7, <1>8, <1>9, <1>10, <1>11, <1>12, <1>13,
           <1>14, <1>15, <1>16 DEF Next, WorkerStep

(* FailuresBounded: for timely standalone workers with an id of their own, *)
(* fail_job (jobs.py:168) queues a job again only while it has a failure   *)
(* to spare: crashes and reclaimed leases use attempts up, and a manual    *)
(* retry grants exactly one more.                                          *)
THEOREM FailuresBounded ==
    ASSUME TimelyWorkers, OwnIds
    PROVE  Spec => []BoundedFailures
<1>1. Init => FailuresInv
  <2> SUFFICES ASSUME Init PROVE FailuresInv
      OBVIOUS
  <2>1. \A j \in Jobs : FailedOf(j) = {} /\ job[j].max_attempts = DefaultMaxAttempts
    BY DEF Init, FailedOf
  <2>2. \A p \in Procs : proc[p].pc # "failing"
    BY DEF Init, Idle
  <2> QED BY <2>1, <2>2, FS_EmptySet DEF FailuresInv
<1>2. FailuresInv => BoundedFailures
  BY DEF FailuresInv, BoundedFailures, FailedOf
<1>3. Init => ArtifactInv
  BY DEF Init, ArtifactInv, OwnershipInv, ArtifactPerAttempt, Busy, Idle
<1>4. Spec => []ArtifactInv
  BY <1>3, ArtifactStep, LedgerInvariant, TypesInvariant, PTL DEF Spec
<1> QED BY <1>1, <1>2, <1>4, FailuresStep, LedgerInvariant, TypesInvariant, SafeInvariant, PTL DEF Spec

=============================================================================
