---------------------------- MODULE MCAnalysisJobs ----------------------------
(* Instances of AnalysisJobs for TLC.                                      *)
EXTENDS AnalysisJobs, TLC

CONSTANTS Screen, Importer      \* the two callers

Symmetry == Permutations(Workers)

(* Jobs are queued, resumed and paused while imports take the slot and are *)
(* cancelled.                                                              *)
ResumeOps ==
    [c \in Callers |-> IF c = Screen THEN {"pause", "resume", "cancel"}
                       ELSE {"enqueue", "ingest"}]

(* The application starts with a job of the user's that was paused before  *)
(* it ended.                                                               *)
UserJob ==
    /\ jobs = [j \in JobIds |-> IF j = 1 THEN NewJob("paused", FALSE, Tracks) ELSE NoJob]
    /\ running = NoJob /\ pauser = Nobody
    /\ slot = Nobody /\ preempt = FALSE /\ waiting = {} /\ ingest = FALSE
    /\ pc = [p \in Procs |-> IF p \in Callers THEN "idle" ELSE "off"]
    /\ loc = [p \in Procs |-> NoLocal]
    /\ crashes = 0

ResumeSpec == UserJob /\ [][Next]_vars

(* A job is started among automatic ones, batches and grid analyses.       *)
StartOps ==
    [c \in Callers |-> IF c = Screen THEN {"start"} ELSE {"enqueue", "batch", "grid"}]
=============================================================================
