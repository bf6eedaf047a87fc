----------------------------- MODULE MCJobQueue -----------------------------
(***************************************************************************)
(* Instances of JobQueue for TLC.  Processes are named by model values in  *)
(* the .cfg files; worker ids are derived from them here.                  *)
(***************************************************************************)
EXTENDS JobQueue

(* Standalone workers: a fresh worker_id per process. *)
MCOwnIds == Procs

MCOwnId == [p \in Procs |-> p]

(* Staging processes all write the same worker_id. *)
MCSharedIds == {"staging-inprocess"}

MCSharedId == [p \in Procs |-> "staging-inprocess"]

=============================================================================
