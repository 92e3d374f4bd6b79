------------------------------ MODULE AnalysisJobs ------------------------------
(***************************************************************************)
(* The analysis jobs: Jobs and Coordinator of analysis.rs over the queue   *)
(* file of jobs_sqlite.rs, and the imports of routes/ingest.rs that share  *)
(* the coordinator with them.                                              *)
(*                                                                         *)
(* Callers are HTTP and startup tasks, Workers the threads a launch        *)
(* spawns.  A step is one transaction of the queue file or one critical    *)
(* section of the `running` mutex; between two steps of one process any    *)
(* other may move.  A call that is refused changes nothing and is left     *)
(* out, and so are errors of the queue file.  Job ids are handed out in    *)
(* the order of creation.                                                  *)
(***************************************************************************)
EXTENDS Integers, FiniteSets

CONSTANTS Callers, Workers,
          Tracks,
          MaxJobs,     \* bound: jobs created in a behaviour
          MaxCrashes,  \* bound: crashes of the backend
          Ops,         \* the requests each caller makes
          NoJob, Nobody

Procs == Callers \cup Workers
JobIds == 1 .. MaxJobs

AllOps == {"start", "resume", "pause", "enqueue", "ingest", "cancel", "batch", "grid"}

ASSUME Bounds == MaxJobs \in Nat /\ MaxCrashes \in Nat
ASSUME Names == /\ Callers \cap Workers = {}
                /\ Nobody \notin Procs
                /\ NoJob \notin JobIds
                /\ Ops \in [Callers -> SUBSET AllOps]

VARIABLES jobs,     \* the queue file: jobs and their items
          running,  \* Jobs.running: the job, whether it is automatic, its stop flag
          pauser,   \* the pause() that holds the mutex of `running`
          slot,     \* Coordinator.holder
          preempt,  \* the preemption flag of the holder
          waiting,  \* the callers of acquire_wait (foreground_waiting)
          ingest,   \* Jobs.ingest_running
          pc, loc,  \* where every process is, and its local variables
          crashes

memory == <<running, pauser>>
coordinator == <<slot, preempt, waiting, ingest>>
vars == <<jobs, memory, coordinator, pc, loc, crashes>>

Statuses == {"paused", "queued", "running", "pausing", "completed", "completed_with_errors"}
ItemStates == {"none", "pending", "running", "done", "failed"}
Job == [status : Statuses, background : BOOLEAN, items : [Tracks -> ItemStates]]
Running == [job : JobIds, background : BOOLEAN, stop : BOOLEAN]
Local == [job : JobIds \cup {NoJob}, tracks : SUBSET Tracks, seen : Statuses \cup {"none"}]
NoLocal == [job |-> NoJob, tracks |-> {}, seen |-> "none"]

ASSUME NoRecords == NoJob \notin Job /\ NoJob \notin Running

CallerPoints == {"idle", "start", "create", "create_queued", "yield", "resume", "prepare",
                 "decide", "requeue", "pause", "pausing", "enqueue", "cancel",
                 "poll", "queued", "wait", "gridwait", "ingest", "batch", "grid"}
LaunchPoints == {"next", "pick", "launch", "launched"}
WorkerPoints == {"off", "run", "loop", "work", "report", "reported", "final", "finalize",
                 "ended"}

-----------------------------------------------------------------------------
(* The queue file                                                          *)

Created == {j \in JobIds : jobs[j] # NoJob}
NewId == Cardinality(Created) + 1
Items(j, states) == {t \in Tracks : jobs[j].items[t] \in states}
Queued == {j \in Created : jobs[j].status = "queued"}

(* next_queued: the oldest, user jobs before automatic ones.               *)
Precedes(i, j) ==
    \/ ~jobs[i].background /\ jobs[j].background
    \/ jobs[i].background = jobs[j].background /\ i <= j
NextQueued == CHOOSE j \in Queued : \A i \in Queued : Precedes(j, i)

NewJob(status, background, ts) ==
    [status |-> status, background |-> background,
     items |-> [t \in Tracks |-> IF t \in ts THEN "pending" ELSE "none"]]

SetStatus(j, status) == jobs' = [jobs EXCEPT ![j].status = status]
Finish(j, t, state) == jobs' = [jobs EXCEPT ![j].items[t] = state]

RequeuedAll(items, states) == [t \in Tracks |-> IF items[t] = "none" THEN "none" ELSE "pending"]
Requeued(items, states) == [t \in Tracks |-> IF items[t] \in states THEN "pending" ELSE items[t]]

(* recover: what a restart makes of a job.                                 *)
RecoveredStatusOnly(job) ==
    IF job = NoJob \/ job.status \notin {"running", "pausing", "queued"} THEN job
    ELSE [job EXCEPT !.status = IF job.background THEN "queued" ELSE "paused"]
Recovered(job) ==
    IF job = NoJob THEN NoJob
    ELSE [status |-> IF job.status \notin {"running", "pausing", "queued"} THEN job.status
                     ELSE IF job.background THEN "queued" ELSE "paused",
          background |-> job.background,
          items |-> Requeued(job.items, {"running"})]

(* outstanding_embeddings                                                  *)
Active(j) == jobs[j].background /\ jobs[j].status \in {"queued", "running", "pausing"}
Outstanding == UNION {Items(j, {"pending", "running"}) : j \in {i \in Created : Active(i)}}
Embedded == UNION {Items(j, {"done"}) : j \in {i \in Created : jobs[i].background}}

-----------------------------------------------------------------------------
Init ==
    /\ jobs = [j \in JobIds |-> NoJob]
    /\ running = NoJob /\ pauser = Nobody
    /\ slot = Nobody /\ preempt = FALSE /\ waiting = {} /\ ingest = FALSE
    /\ pc = [p \in Procs |-> IF p \in Callers THEN "idle" ELSE "off"]
    /\ loc = [p \in Procs |-> NoLocal]
    /\ crashes = 0

MutexFree == pauser = Nobody
IsRunning == running # NoJob
BackgroundRuns == IsRunning /\ running.background

At(p, point) == pc[p] = point
Goto(p, point) == pc' = [pc EXCEPT ![p] = point] /\ UNCHANGED loc
GotoWith(p, point, l) == pc' = [pc EXCEPT ![p] = point] /\ loc' = [loc EXCEPT ![p] = l]
Rest(p) == IF p \in Callers THEN "idle" ELSE "off"
Return(p) == GotoWith(p, Rest(p), NoLocal)

(* check_available                                                         *)
Available == (IsRunning => running.background) /\ ~ingest

-----------------------------------------------------------------------------
(* launch_next and launch                                                  *)

LaunchNext(p) ==
    /\ At(p, "next") /\ MutexFree
    /\ IF IsRunning THEN Return(p) ELSE Goto(p, "pick")
    /\ UNCHANGED <<jobs, memory, coordinator, crashes>>

PickQueued(p) ==
    /\ At(p, "pick")
    /\ IF Queued = {} THEN Return(p)
       ELSE GotoWith(p, "launch", [NoLocal EXCEPT !.job = NextQueued])
    /\ UNCHANGED <<jobs, memory, coordinator, crashes>>

MayLaunchRegardless == TRUE
MayLaunch == ~IsRunning

LaunchClaims(p) ==
    /\ At(p, "launch") /\ MutexFree
    /\ IF MayLaunch
       THEN /\ running' = [job |-> loc[p].job, background |-> jobs[loc[p].job].background,
                           stop |-> FALSE]
            /\ Goto(p, "launched")
       ELSE Return(p) /\ UNCHANGED running
    /\ UNCHANGED <<jobs, pauser, coordinator, crashes>>

LaunchSpawns(p) ==
    \E w \in Workers :
        /\ At(p, "launched") /\ At(w, "off")
        /\ SetStatus(loc[p].job, "running")
        /\ pc' = [pc EXCEPT ![p] = Rest(p), ![w] = "run"]
        /\ loc' = [loc EXCEPT ![p] = NoLocal, ![w] = [NoLocal EXCEPT !.job = loc[p].job]]
        /\ UNCHANGED <<memory, coordinator, crashes>>

-----------------------------------------------------------------------------
(* start                                                                   *)

Start(c) ==
    /\ "start" \in Ops[c] /\ At(c, "idle") /\ MutexFree
    /\ Cardinality(Created) < MaxJobs
    /\ Available
    /\ \E ts \in SUBSET Tracks : GotoWith(c, "start", [NoLocal EXCEPT !.tracks = ts])
    /\ UNCHANGED <<jobs, memory, coordinator, crashes>>

StartDecides(c) ==
    /\ At(c, "start") /\ MutexFree
    /\ Goto(c, IF BackgroundRuns THEN "create_queued" ELSE "create")
    /\ UNCHANGED <<jobs, memory, coordinator, crashes>>

Create(c, status, background, point) ==
    /\ NewId \in JobIds
    /\ jobs' = [jobs EXCEPT ![NewId] = NewJob(status, background, loc[c].tracks)]
    /\ GotoWith(c, point, [NoLocal EXCEPT !.job = NewId])
    /\ UNCHANGED <<memory, coordinator, crashes>>

StartCreates(c) ==
    \/ At(c, "create") /\ Create(c, "paused", FALSE, "launch")
    \/ At(c, "create_queued") /\ Create(c, "queued", FALSE, "yield")

(* The bound on jobs was reached by others since the call began.           *)
OutOfJobs(c) ==
    /\ pc[c] \in {"create", "create_queued", "enqueue"}
    /\ NewId \notin JobIds
    /\ Return(c)
    /\ UNCHANGED <<jobs, memory, coordinator, crashes>>

YieldBackground(c) ==
    /\ At(c, "yield") /\ MutexFree
    /\ running' = IF BackgroundRuns THEN [running EXCEPT !.stop = TRUE] ELSE running
    /\ Return(c)
    /\ UNCHANGED <<jobs, pauser, coordinator, crashes>>

-----------------------------------------------------------------------------
(* resume                                                                  *)

Resume(c) ==
    /\ "resume" \in Ops[c] /\ At(c, "idle") /\ MutexFree
    /\ \E j \in Created :
          /\ ~(IsRunning /\ running.job = j)
          /\ GotoWith(c, "resume", [NoLocal EXCEPT !.job = j])
    /\ UNCHANGED <<jobs, memory, coordinator, crashes>>

ResumeAllowed(c) ==
    /\ At(c, "resume") /\ MutexFree
    /\ IF Available THEN Goto(c, "prepare") ELSE Return(c)
    /\ UNCHANGED <<jobs, memory, coordinator, crashes>>

PrepareResume(c) ==
    \E again \in {{"running"}, {"running", "failed"}} :
        /\ At(c, "prepare")
        /\ jobs' = [jobs EXCEPT ![loc[c].job].items = Requeued(@, again)]
        /\ Goto(c, "decide")
        /\ UNCHANGED <<memory, coordinator, crashes>>

ResumeDecides(c) ==
    /\ At(c, "decide") /\ MutexFree
    /\ Goto(c, IF BackgroundRuns THEN "requeue" ELSE "launch")
    /\ UNCHANGED <<jobs, memory, coordinator, crashes>>

Requeue(c) ==
    /\ At(c, "requeue")
    /\ SetStatus(loc[c].job, "queued")
    /\ IF jobs[loc[c].job].background THEN Return(c) ELSE Goto(c, "yield")
    /\ UNCHANGED <<memory, coordinator, crashes>>

-----------------------------------------------------------------------------
(* pause: the job is read before the mutex is taken; the stop flag is      *)
(* raised and the status written while it is held.                         *)

Pause(c) ==
    /\ "pause" \in Ops[c] /\ At(c, "idle")
    /\ \E j \in Created :
          GotoWith(c, "pause", [NoLocal EXCEPT !.job = j, !.seen = jobs[j].status])
    /\ UNCHANGED <<jobs, memory, coordinator, crashes>>

PauseSignals(c) ==
    /\ At(c, "pause") /\ MutexFree
    /\ IsRunning /\ running.job = loc[c].job
    /\ running' = [running EXCEPT !.stop = TRUE]
    /\ pauser' = c
    /\ Goto(c, "pausing")
    /\ UNCHANGED <<jobs, coordinator, crashes>>

PauseRecords(c) ==
    /\ At(c, "pausing")
    /\ SetStatus(loc[c].job, "pausing")
    /\ pauser' = Nobody
    /\ Return(c)
    /\ UNCHANGED <<running, coordinator, crashes>>

PauseIdle(c) ==
    /\ At(c, "pause") /\ MutexFree
    /\ ~(IsRunning /\ running.job = loc[c].job)
    /\ jobs' = IF loc[c].seen = "queued"
               THEN [jobs EXCEPT ![loc[c].job].status = "paused"] ELSE jobs
    /\ Return(c)
    /\ UNCHANGED <<memory, coordinator, crashes>>

-----------------------------------------------------------------------------
(* enqueue_embedding: what is outstanding is read in one transaction, the  *)
(* job of the rest created in another.                                     *)

Enqueue(c) ==
    /\ "enqueue" \in Ops[c] /\ At(c, "idle")
    /\ Cardinality(Created) < MaxJobs
    /\ \E ts \in SUBSET (Tracks \ Embedded) :
          /\ ts \ Outstanding # {}
          /\ GotoWith(c, "enqueue", [NoLocal EXCEPT !.tracks = ts \ Outstanding])
    /\ UNCHANGED <<jobs, memory, coordinator, crashes>>

EnqueueUnannounced(c) ==
    At(c, "enqueue") /\ Create(c, "queued", TRUE, "idle")
EnqueueCreates(c) ==
    At(c, "enqueue") /\ Create(c, "queued", TRUE, "next")

-----------------------------------------------------------------------------
(* The coordinator's slot.  A foreground request that finds a background   *)
(* holder raises its preemption flag; a background request is refused      *)
(* while somebody is in acquire_wait.                                      *)

BackgroundHolds == slot \in Workers /\ jobs[loc[slot].job].background

Acquire(p) == slot' = p /\ preempt' = FALSE
ReleaseByWorkers(p) ==
    IF slot = p /\ p \in Workers THEN slot' = Nobody /\ preempt' = FALSE
    ELSE UNCHANGED <<slot, preempt>>
Release(p) ==
    IF slot = p THEN slot' = Nobody /\ preempt' = FALSE ELSE UNCHANGED <<slot, preempt>>
SlotShared(background) == background => waiting = {}
SlotFreeIgnoringWaiters(background) == slot = Nobody
SlotFreeFor(background) == slot = Nobody /\ (background => waiting = {})

(* An ingest polls for the slot and is "queued" once refused; a batch of   *)
(* imports, one at a time, and the grid analysis of a track wait for it in *)
(* acquire_wait.                                                           *)
Asking == {"poll", "queued", "wait", "gridwait"}
Held(point) == CASE point \in {"poll", "queued"} -> "ingest"
                 [] point = "wait"               -> "batch"
                 [] point = "gridwait"           -> "grid"
Importing == {"ingest", "batch", "grid"}
NoCaller(points) == \A c \in Callers : pc[c] \notin points

Ingest(c) ==
    /\ "ingest" \in Ops[c] /\ At(c, "idle") /\ MutexFree
    /\ IsRunning => running.background
    /\ NoCaller({"poll", "queued", "ingest"})
    /\ Goto(c, "poll")
    /\ UNCHANGED <<jobs, memory, coordinator, crashes>>

AcquireWait(c) ==
    /\ At(c, "idle")
    /\ \/ "batch" \in Ops[c] /\ NoCaller({"wait", "batch"}) /\ Goto(c, "wait")
       \/ "grid" \in Ops[c] /\ Goto(c, "gridwait")
    /\ waiting' = waiting \cup {c}
    /\ UNCHANGED <<jobs, memory, slot, preempt, ingest, crashes>>

ImportAcquires(c) ==
    /\ pc[c] \in Asking
    /\ SlotFreeFor(FALSE)
    /\ Acquire(c)
    /\ ingest' = (ingest \/ Held(pc[c]) = "ingest")
    /\ waiting' = waiting \ {c}
    /\ Goto(c, Held(pc[c]))
    /\ UNCHANGED <<jobs, memory, crashes>>

ImportKnocks(c) ==
    /\ pc[c] \in Asking /\ BackgroundHolds
    /\ ~preempt \/ At(c, "poll")
    /\ preempt' = TRUE
    /\ Goto(c, IF At(c, "poll") THEN "queued" ELSE pc[c])
    /\ UNCHANGED <<jobs, memory, slot, waiting, ingest, crashes>>

(* SlotGuard, and the end of a batch.  The embeddings an import then asks  *)
(* for are an Enqueue of their own.                                        *)
ImportEnds(c) ==
    /\ pc[c] \in Importing
    /\ Release(c)
    /\ ingest' = (ingest /\ ~At(c, "ingest"))
    /\ Goto(c, IF At(c, "grid") THEN "idle" ELSE "next")
    /\ UNCHANGED <<jobs, memory, waiting, crashes>>

(* cancel_ingest: the task is dropped, its guard with it, and the flag of  *)
(* imports cleared in a second step.                                       *)
CancelIngest(c) ==
    \E i \in Callers \ {c} :
        /\ "cancel" \in Ops[c] /\ At(c, "idle")
        /\ pc[i] \in {"poll", "queued", "ingest"}
        /\ Release(i)
        /\ ingest' = (ingest /\ ~At(i, "ingest"))
        /\ pc' = [pc EXCEPT ![c] = "cancel", ![i] = IF At(i, "ingest") THEN "next" ELSE "idle"]
        /\ UNCHANGED <<jobs, memory, waiting, loc, crashes>>

CancelClears(c) ==
    /\ At(c, "cancel")
    /\ ingest' = FALSE
    /\ Return(c)
    /\ UNCHANGED <<jobs, memory, slot, preempt, waiting, crashes>>

-----------------------------------------------------------------------------
(* run                                                                     *)

Mine(w) == loc[w].job
Background(w) == jobs[Mine(w)].background
Stopped == running # NoJob /\ running.stop
Pending(w) == Items(Mine(w), {"pending"})

(* A foreground job takes the slot for its whole run; an automatic one     *)
(* goes straight to its loop and takes it item by item.  No other job is   *)
(* then running, so a foreground job has nobody to preempt.                *)
RunBegins(w) ==
    /\ At(w, "run")
    /\ ~Background(w) => ~Stopped /\ SlotFreeFor(FALSE)
    /\ IF Background(w) THEN UNCHANGED <<slot, preempt>> ELSE Acquire(w)
    /\ Goto(w, "loop")
    /\ UNCHANGED <<jobs, memory, waiting, ingest, crashes>>


RunGivesUp(w) ==
    /\ At(w, "run") /\ ~Background(w) /\ Stopped
    /\ SetStatus(Mine(w), "paused")
    /\ Goto(w, "ended")
    /\ UNCHANGED <<memory, coordinator, crashes>>

HasSlot(w) == ~Background(w) \/ SlotFreeFor(TRUE)

ClaimItem(w) ==
    /\ At(w, "loop") /\ ~Stopped /\ HasSlot(w)
    /\ \E t \in Pending(w) :
          /\ Finish(Mine(w), t, "running")
          /\ GotoWith(w, "work", [loc[w] EXCEPT !.tracks = {t}])
    /\ IF Background(w) THEN Acquire(w) ELSE UNCHANGED <<slot, preempt>>
    /\ UNCHANGED <<memory, waiting, ingest, crashes>>

LoopEndsAtOnce(w) ==
    /\ At(w, "loop")
    /\ Stopped \/ (HasSlot(w) /\ Pending(w) = {})
    /\ Goto(w, "ended")
    /\ UNCHANGED <<jobs, memory, coordinator, crashes>>
LoopEnds(w) ==
    /\ At(w, "loop")
    /\ Stopped \/ (HasSlot(w) /\ Pending(w) = {})
    /\ Goto(w, "final")
    /\ UNCHANGED <<jobs, memory, coordinator, crashes>>

(* The item is saved or skipped, fails, or, cancelled by a preemption,     *)
(* goes back to pending.                                                   *)
Outcomes(w) == {"done", "failed"} \cup (IF Background(w) /\ preempt THEN {"pending"} ELSE {})

FinishItem(w) ==
    /\ At(w, "work")
    /\ \E t \in loc[w].tracks, state \in Outcomes(w) : Finish(Mine(w), t, state)
    /\ Goto(w, "report")
    /\ UNCHANGED <<memory, coordinator, crashes>>

ReadStop(w) ==
    /\ At(w, "report")
    /\ IF Background(w) THEN Release(w) ELSE UNCHANGED <<slot, preempt>>
    /\ GotoWith(w, "reported", [loc[w] EXCEPT !.tracks = {},
                                             !.seen = IF Stopped THEN "pausing" ELSE "running"])
    /\ UNCHANGED <<jobs, memory, waiting, ingest, crashes>>

WriteProgress(w) ==
    /\ At(w, "reported")
    /\ SetStatus(Mine(w), loc[w].seen)
    /\ Goto(w, "loop")
    /\ UNCHANGED <<memory, coordinator, crashes>>

FinalStatusAllDone(w) ==
    IF Items(Mine(w), {"failed"}) # {} THEN "completed_with_errors" ELSE "completed"
FinalStatus(w) ==
    IF Items(Mine(w), {"pending", "running"}) # {}
    THEN IF Background(w) /\ Stopped THEN "queued" ELSE "paused"
    ELSE IF Items(Mine(w), {"failed"}) # {} THEN "completed_with_errors" ELSE "completed"

ReadFinal(w) ==
    /\ At(w, "final")
    /\ GotoWith(w, "finalize", [loc[w] EXCEPT !.seen = FinalStatus(w)])
    /\ UNCHANGED <<jobs, memory, coordinator, crashes>>

WriteFinal(w) ==
    /\ At(w, "finalize")
    /\ SetStatus(Mine(w), loc[w].seen)
    /\ IF Background(w) THEN UNCHANGED <<slot, preempt>> ELSE Release(w)
    /\ Goto(w, "ended")
    /\ UNCHANGED <<memory, waiting, ingest, crashes>>

RunEnds(w) ==
    /\ At(w, "ended") /\ MutexFree
    /\ running' = NoJob
    /\ GotoWith(w, "next", NoLocal)
    /\ UNCHANGED <<jobs, pauser, coordinator, crashes>>

-----------------------------------------------------------------------------
(* The backend dies; the next one recovers the queue and, in a task of its *)
(* own, launches the next job.                                             *)
CrashAndRestart ==
    \E c \in Callers :
        /\ crashes < MaxCrashes
        /\ crashes' = crashes + 1
        /\ jobs' = [j \in JobIds |-> Recovered(jobs[j])]
        /\ running' = NoJob /\ pauser' = Nobody
        /\ slot' = Nobody /\ preempt' = FALSE /\ waiting' = {} /\ ingest' = FALSE
        /\ pc' = [p \in Procs |-> IF p = c THEN "next" ELSE Rest(p)]
        /\ loc' = [p \in Procs |-> NoLocal]

Request(c) ==
    Start(c) \/ Resume(c) \/ Pause(c) \/ Enqueue(c) \/ Ingest(c) \/ AcquireWait(c)
    \/ CancelIngest(c)

CallerStep(c) ==
    \/ StartDecides(c) \/ StartCreates(c) \/ OutOfJobs(c) \/ YieldBackground(c)
    \/ ResumeAllowed(c) \/ PrepareResume(c) \/ ResumeDecides(c) \/ Requeue(c)
    \/ PauseSignals(c) \/ PauseRecords(c) \/ PauseIdle(c)
    \/ EnqueueCreates(c)
    \/ ImportAcquires(c) \/ ImportKnocks(c) \/ ImportEnds(c)
    \/ CancelClears(c)

WorkerStep(w) ==
    \/ RunBegins(w) \/ RunGivesUp(w)
    \/ ClaimItem(w) \/ LoopEnds(w) \/ FinishItem(w) \/ ReadStop(w) \/ WriteProgress(w)
    \/ ReadFinal(w) \/ WriteFinal(w) \/ RunEnds(w)

LaunchStep(p) == LaunchNext(p) \/ PickQueued(p) \/ LaunchClaims(p) \/ LaunchSpawns(p)

Next ==
    \/ \E c \in Callers : Request(c) \/ CallerStep(c)
    \/ \E w \in Workers : WorkerStep(w)
    \/ \E p \in Procs : LaunchStep(p)
    \/ CrashAndRestart

Spec == Init /\ [][Next]_vars

(* Threads are scheduled, and an analysis or an import ends.  Nobody is    *)
(* obliged to make a request and nothing to crash, and who polls for the   *)
(* slot may find it taken every time.                                      *)
FairSpec ==
    /\ Spec
    /\ \A c \in Callers : WF_vars(CallerStep(c))
    /\ \A w \in Workers : WF_vars(WorkerStep(w))
    /\ \A p \in Procs : WF_vars(LaunchStep(p))

-----------------------------------------------------------------------------
TypeOK ==
    /\ jobs \in [JobIds -> Job \cup {NoJob}]
    /\ running \in Running \cup {NoJob}
    /\ pauser \in Callers \cup {Nobody}
    /\ slot \in Procs \cup {Nobody}
    /\ preempt \in BOOLEAN /\ ingest \in BOOLEAN
    /\ waiting \in SUBSET Callers
    /\ pc \in [Procs -> CallerPoints \cup LaunchPoints \cup WorkerPoints]
    /\ loc \in [Procs -> Local]
    /\ crashes \in 0 .. MaxCrashes

RunPoints == WorkerPoints \ {"off"}
Runs(w) == pc[w] \in RunPoints

(* At most one thread runs a job, from its first step to the moment        *)
(* `running` is cleared, and it is the job `running` names, so a stop flag *)
(* raised there reaches the thread it is meant for; and a job the file     *)
(* calls running is that job, so nobody finds two of them, or a dead one.  *)
OneRunner ==
    /\ \A w \in Workers : Runs(w) =>
        /\ IsRunning /\ running.job = Mine(w)
        /\ \A v \in Workers : Runs(v) => v = w
    /\ \A j \in Created : jobs[j].status = "running" => IsRunning /\ running.job = j

(* One native analysis at a time: whoever is in the middle of one, a job's *)
(* worker or an import, holds the coordinator's slot.                      *)
OneAnalysis ==
    /\ \A w \in Workers : At(w, "work") => slot = w
    /\ \A c \in Callers : pc[c] \in Importing => slot = c

(* An item marked running is being worked on: a preemption, a crash, a     *)
(* failure or a pause never leaves one behind that no claim will find.     *)
RunningItemsHaveAWorker ==
    \A j \in Created, t \in Tracks : jobs[j].items[t] = "running" =>
        \E w \in Workers : At(w, "work") /\ Mine(w) = j /\ t \in loc[w].tracks

(* A job reported completed has every item done, whatever was resumed,     *)
(* retried or preempted on the way.                                        *)
CompletedMeansDone ==
    \A j \in Created : jobs[j].status = "completed" =>
        Items(j, {"pending", "running", "failed"}) = {}

(* An analysed item is never analysed again by its job: not after a resume *)
(* that races a launch, not after a crash.                                 *)
DoneStaysDone ==
    [][\A j \in Created, t \in Tracks :
         jobs[j].items[t] = "done" => jobs'[j].items[t] = "done"]_vars

(* Where users neither pause nor resume jobs, every automatic job is       *)
(* completed in the end, through preemptions, crashes and the jobs users   *)
(* start before it, once imports stop taking the slot from it.             *)
ImportsCease == <>[](\A c \in Callers : pc[c] \notin Asking \cup Importing)
AutomaticJobsComplete ==
    ImportsCease =>
        \A j \in JobIds : (j \in Created /\ jobs[j].background)
            ~> (j \in Created /\ jobs[j].status \in {"completed", "completed_with_errors"})

(* A request in acquire_wait gets the slot: automatic jobs leave it to     *)
(* those who wait there, however many items they have left.                *)
WaitersGetTheSlot == \A c \in Callers : (c \in waiting) ~> (c \notin waiting)

=============================================================================
