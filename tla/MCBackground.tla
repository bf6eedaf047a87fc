---------------------------- MODULE MCBackground ----------------------------
(* An upload and what follows it, each on its own: the requests and scripts   *)
(* that store and record a file, the worker loop of a staging process, and    *)
(* the maintenance loop of the security events.                               *)
EXTENDS Ingestion, MCJobQueue, SecurityEvents

-----------------------------------------------------------------------------
(* Contents: w is a workbook, z and its repackaging y hold one layer, k is the *)
(* family under another layer name, o another family, b is broken, v too big. *)

CONSTANTS w, z, y, k, o, b, v, t1, t2, t3

Is(kind, product, doc) == [kind |-> kind, product |-> product, doc |-> doc]

Cast(x1, x2, x3, onDisk) ==
    [is |-> [t \in Tasks |-> CASE t = t1 -> x1 [] t = t2 -> x2 [] OTHER -> x3], source |-> onDisk]

MCTraits ==
    [d \in Docs |-> [size |-> IF d = o THEN 2 ELSE 1, oversized |-> d = v, unsafe |-> d = b,
                     workbook |-> d = w,
                     family |-> CASE d \in {z, y, k} -> z [] d = o -> o [] OTHER -> Unset,
                     layer |-> IF d = y THEN z ELSE IF d \in {z, k, o} THEN d ELSE Unset]]

MCCasts ==
    LET Up(d) == Is("upload", "transelect", d)  Layer(d) == Is("forestry", "forestry", d)
        Project(d) == Is("project", "transelect", d)  Import == Is("import", "forestry", z) IN
    {Cast(Up(w), Project(w), Project(w), z), Cast(Up(w), Up(w), Project(w), z),
     Cast(Up(b), Is("upload", "forestry", b), Project(b), z), Cast(Layer(z), Layer(k), Layer(y), z),
     Cast(Layer(b), Layer(v), Is("upload", "forestry", z), z),
     Cast(Import, Layer(z), Up(v), z), Cast(Import, Is("dry-run", "forestry", z), Up(v), z),
     Cast(Import, Layer(k), Up(v), z), Cast(Import, Layer(o), Up(v), z)}

-----------------------------------------------------------------------------
VARIABLE part

parts == <<vars, secVars, ingestVars, part>>

NothingNoted ==
    /\ noted = <<>> /\ refused = <<>> /\ dropped = [notes |-> {}, refused |-> 0]
    /\ minute = 0 /\ loop = "ended" /\ batch = <<>>
    /\ stored = <<>> /\ lost = <<>> /\ outage = FALSE /\ stop = "ended"

NothingUploaded ==
    /\ file = [c \in Docs |-> "absent"] /\ temps = {} /\ db = {}
    /\ task = [t \in Tasks |-> [kind |-> "upload", product |-> "transelect", doc |-> Pinned, pc |-> "done", tx |-> {},
                                code |-> 200, new |-> FALSE, known |-> FALSE, stat |-> Unset, got |-> Unset]]
    /\ source = [doc |-> Pinned, mtime |-> 0] /\ faults = 0 /\ crashes = 0

BackgroundInit ==
    \/ part = "workers" /\ Init /\ NothingNoted /\ NothingUploaded
    \/ part = "events" /\ Init /\ SecInit /\ NothingUploaded
    \/ part = "uploads" /\ Init /\ NothingNoted /\ IngestInit

BackgroundNext ==
    \/ part = "workers" /\ Next /\ UNCHANGED <<secVars, ingestVars, part>>
    \/ part = "events" /\ SecNext /\ UNCHANGED <<vars, ingestVars, part>>
    \/ part = "uploads" /\ IngestNext /\ UNCHANGED <<vars, secVars, part>>

\* Each part under its own fairness.
BackgroundSpec ==
    /\ BackgroundInit /\ [][BackgroundNext]_parts
    /\ \A p \in Procs : WF_vars(part = "workers" /\ WorkerStep(p))
    /\ \A r \in Retriers : WF_vars(part = "workers" /\ RetryWrite(r))
    /\ \A j \in Jobs : WF_vars(part = "workers" /\ LeaseExpires(j))
    /\ WF_secVars(part = "events" /\ run_maintenance)
    /\ WF_ingestVars(part = "uploads" /\ TaskSteps)
=============================================================================
