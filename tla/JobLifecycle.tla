---------------------------- MODULE JobLifecycle ----------------------------
(***************************************************************************)
(* What the job queue promises to whoever uploads a file and watches its   *)
(* job: a status that moves only along the edges below, and an inspection  *)
(* artifact that appears together with success, once.  JobQueue, with its  *)
(* leases, attempts, row locks and processes, is shown to implement it.    *)
(***************************************************************************)

CONSTANT Jobs

VARIABLES
    status,     \* the status an observer reads in GET /api/.../jobs
    produced    \* the jobs whose artifact exists

vars == <<status, produced>>

Init ==
    /\ status = [j \in Jobs |-> "absent"]
    /\ produced = {}

Move(j, from, to) ==
    /\ status[j] \in from
    /\ status' = [status EXCEPT ![j] = to]

Submit(j) == Move(j, {"absent"}, "queued") /\ UNCHANGED produced

Start(j) == Move(j, {"queued"}, "running") /\ UNCHANGED produced

(* A failed attempt with attempts left, or a granted manual retry. *)
Requeue(j) == Move(j, {"running", "failed"}, "queued") /\ UNCHANGED produced

(* Out of attempts, or (also before any attempt) refused for good. *)
Fail(j) == Move(j, {"queued", "running"}, "failed") /\ UNCHANGED produced

Succeed(j) ==
    /\ j \notin produced
    /\ Move(j, {"running"}, "succeeded")
    /\ produced' = produced \cup {j}

Next ==
    \E j \in Jobs : Submit(j) \/ Start(j) \/ Requeue(j) \/ Fail(j) \/ Succeed(j)

Spec == Init /\ [][Next]_vars

=============================================================================
