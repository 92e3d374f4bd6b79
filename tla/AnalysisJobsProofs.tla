--------------------------- MODULE AnalysisJobsProofs ---------------------------
(***************************************************************************)
(* What AnalysisJobs promises of the queue, its threads and the slot, for  *)
(* any number of callers, threads, tracks, jobs and crashes and whatever   *)
(* requests each caller makes.                                             *)
(*                                                                         *)
(* IInv is inductive.  Its heart is Solo: between the claim of `running`   *)
(* and its clearing one process, and one only, is engaged on a job, and it *)
(* is the job `running` names.  All the rest leans on it, since only the   *)
(* engaged process marks items or writes a status that claims progress:    *)
(* everybody else's writes are calm (Calm), they never set "running" or    *)
(* "completed" and make an item at most pending again.                     *)
(***************************************************************************)
EXTENDS AnalysisJobs, FiniteSetTheorems, WellFoundedInduction, TLAPS

Points == CallerPoints \cup LaunchPoints \cup WorkerPoints
JobPoints == {"resume", "prepare", "decide", "requeue", "pause", "pausing",
              "launch", "launched"} \cup RunPoints
FinalStatuses == {"paused", "queued", "completed", "completed_with_errors"}
Unfinished == {"pending", "running", "failed"}

(* From the claim of `running` to its clearing.                            *)
Engaged(p) == At(p, "launched") \/ (p \in Workers /\ pc[p] \in RunPoints)
(* Where the code believes it holds the coordinator's slot.                *)
Holds(p) ==
    \/ p \in Callers /\ pc[p] \in Importing
    \/ p \in Workers /\ pc[p] \in {"work", "report"}
    \/ p \in Workers /\ pc[p] \in {"loop", "reported", "final", "finalize"} /\ ~Background(p)

(* Ids are used in order, so NewId is a free one.                          *)
Ordered == \A j \in Created : \A i \in 1 .. j : i \in Created
(* Whoever is about to write a job's row has one that exists.              *)
HasJob == \A p \in Procs : pc[p] \in JobPoints => loc[p].job \in Created
Solo == \A p \in Procs : Engaged(p) =>
            /\ IsRunning /\ running.job = loc[p].job
            /\ \A q \in Procs : Engaged(q) => q = p
RunningIsRun == \A j \in Created : jobs[j].status = "running" => IsRunning /\ running.job = j
(* What a thread is about to write, and what it leaves when it ends.       *)
SeenFits == \A w \in Workers :
    /\ At(w, "reported") => loc[w].seen \in {"pausing", "running"}
    /\ At(w, "finalize") => loc[w].seen \in FinalStatuses
    /\ At(w, "ended") => jobs[Mine(w)].status # "running"
AtWork == \A w \in Workers : At(w, "work") =>
    \E t \in Tracks : loc[w].tracks = {t} /\ jobs[Mine(w)].items[t] \in {"running", "pending"}
SeenDone == \A w \in Workers :
    At(w, "finalize") /\ loc[w].seen = "completed" => Items(Mine(w), Unfinished) = {}
SlotFits == \A p \in Procs : Holds(p) => slot = p

IInv ==
    /\ TypeOK /\ Ordered /\ HasJob /\ Solo /\ RunningIsRun /\ SeenFits /\ AtWork
    /\ RunningItemsHaveAWorker /\ CompletedMeansDone /\ SeenDone /\ SlotFits

-----------------------------------------------------------------------------
(* Types                                                                   *)

LEMMA ProcTypes ==
    ASSUME TypeOK, NEW p \in Procs
    PROVE  /\ pc[p] \in Points
           /\ loc[p] \in Local
           /\ loc[p].job \in JobIds \cup {NoJob}
           /\ loc[p].tracks \in SUBSET Tracks
           /\ loc[p].seen \in Statuses \cup {"none"}
BY DEF TypeOK, Points, Local

LEMMA JobTypes ==
    ASSUME TypeOK, NEW j \in Created
    PROVE  /\ j \in JobIds
           /\ jobs[j] \in Job
           /\ jobs[j].status \in Statuses
           /\ jobs[j].background \in BOOLEAN
           /\ jobs[j].items \in [Tracks -> ItemStates]
BY DEF TypeOK, Created, Job

LEMMA NewIdType ==
    ASSUME TypeOK
    PROVE NewId \in Nat \ {0}
<1>1. IsFiniteSet(JobIds)
  BY Bounds, FS_Interval DEF JobIds
<1>2. Created \subseteq JobIds
  BY DEF Created
<1>3. Cardinality(Created) \in Nat
  BY <1>1, <1>2, FS_Subset, FS_CardinalityType
<1> QED BY <1>3 DEF NewId

-----------------------------------------------------------------------------
(* Steps of those who do not run a job                                     *)

MovesTo(p, x, l) ==
    /\ pc' \in [Procs -> Points] /\ loc' \in [Procs -> Local]
    /\ pc'[p] = x /\ loc'[p] = l
    /\ \A q \in Procs : q # p => pc'[q] = pc[q] /\ loc'[q] = loc[q]
Moves(P) ==
    /\ pc' \in [Procs -> Points] /\ loc' \in [Procs -> Local]
    /\ \A q \in Procs \ P : pc'[q] = pc[q] /\ loc'[q] = loc[q]
Calm ==
    /\ jobs' \in [JobIds -> Job \cup {NoJob}]
    /\ Ordered'
    /\ \A j \in Created : j \in Created' /\ jobs'[j].background = jobs[j].background
    /\ \A j \in Created' \ Created : /\ jobs'[j].status \in {"paused", "queued"}
                                     /\ \A t \in Tracks : jobs'[j].items[t] \in {"none", "pending"}
    /\ \A j \in Created :
          /\ jobs'[j].status = jobs[j].status \/ jobs'[j].status \in {"paused", "queued", "pausing"}
          /\ \A t \in Tracks : \/ jobs'[j].items[t] = jobs[j].items[t]
                               \/ /\ jobs[j].items[t] \in {"running", "failed"}
                                  /\ jobs'[j].items[t] = "pending"
SameRun ==
    /\ running' \in Running \cup {NoJob} /\ pauser' \in Callers \cup {Nobody}
    /\ running' = NoJob <=> running = NoJob
    /\ running # NoJob => running'.job = running.job
SlotMoves(P) ==
    /\ slot' \in Procs \cup {Nobody} /\ preempt' \in BOOLEAN /\ ingest' \in BOOLEAN
    /\ waiting' \in SUBSET Callers
    /\ slot' = slot \/ slot \in P \cup {Nobody}
QuietAt(p) ==
    /\ pc[p] # "work"
    /\ pc'[p] \notin RunPoints \cup {"launched"}
    /\ pc'[p] \in Importing => slot' = p
    /\ pc'[p] \in JobPoints => loc'[p].job \in Created'

LEMMA Steps ==
    ASSUME TypeOK, NEW p \in Procs, NEW x \in Points
    PROVE  /\ Goto(p, x) => MovesTo(p, x, loc[p])
           /\ \A l \in Local : GotoWith(p, x, l) => MovesTo(p, x, l)
<1> USE DEF TypeOK, Points
<1>1. ASSUME Goto(p, x)
      PROVE  MovesTo(p, x, loc[p])
  BY <1>1 DEF Goto, MovesTo
<1>2. ASSUME NEW l \in Local, GotoWith(p, x, l)
      PROVE  MovesTo(p, x, l)
  BY <1>2 DEF GotoWith, MovesTo
<1> QED BY <1>1, <1>2

LEMMA OneMoves ==
    ASSUME NEW p \in Procs, NEW x, NEW l, MovesTo(p, x, l)
    PROVE  Moves({p})
BY DEF MovesTo, Moves

LEMMA LocalsAre ==
    /\ NoLocal \in Local
    /\ \A j \in JobIds : [NoLocal EXCEPT !.job = j] \in Local
    /\ \A j \in JobIds : [NoLocal EXCEPT !.job = j].job = j
BY DEF NoLocal, Local

LEMMA Unchanged ==
    ASSUME IInv, NEW P
    PROVE  /\ UNCHANGED jobs => Calm
           /\ UNCHANGED memory => SameRun
           /\ UNCHANGED coordinator => SlotMoves(P)
<1>1. ASSUME UNCHANGED jobs PROVE Calm
  BY <1>1 DEF IInv, TypeOK, Calm, Ordered, Created
<1>2. ASSUME UNCHANGED memory PROVE SameRun
  BY <1>2 DEF IInv, TypeOK, SameRun, memory
<1>3. ASSUME UNCHANGED coordinator PROVE SlotMoves(P)
  BY <1>3 DEF IInv, TypeOK, SlotMoves, coordinator
<1> QED BY <1>1, <1>2, <1>3

LEMMA QuietStep ==
    ASSUME IInv, NEW P \in SUBSET Procs, Moves(P), Calm, SameRun, SlotMoves(P),
           \A p \in P : QuietAt(p), crashes' \in 0 .. MaxCrashes
    PROVE  IInv'
<1> USE DEF IInv
<1>1. TypeOK'
  BY DEF TypeOK, Moves, Calm, SameRun, SlotMoves, Points
<1>2. Ordered'
  BY DEF Calm
<1>3. HasJob'
  <2> SUFFICES ASSUME NEW p \in Procs, pc'[p] \in JobPoints PROVE loc'[p].job \in Created'
    BY DEF HasJob
  <2>1. CASE p \in P
    BY <2>1 DEF QuietAt
  <2>2. CASE p \notin P
    BY <2>2 DEF Moves, HasJob, Calm
  <2> QED BY <2>1, <2>2
<1>4. \A p \in Procs : Engaged(p)' => p \notin P /\ Engaged(p)
  BY DEF Engaged, QuietAt, Moves, At
<1>5. Solo'
  <2> SUFFICES ASSUME NEW p \in Procs, Engaged(p)'
               PROVE  /\ IsRunning' /\ running'.job = loc'[p].job
                      /\ \A q \in Procs : Engaged(q)' => q = p
    BY DEF Solo
  <2>1. Engaged(p) /\ loc'[p] = loc[p]
    BY <1>4 DEF Moves
  <2> QED BY <1>4, <2>1 DEF Solo, SameRun, IsRunning
<1>6. RunningIsRun'
  <2> SUFFICES ASSUME NEW j \in Created', jobs'[j].status = "running"
               PROVE  IsRunning' /\ running'.job = j
    BY DEF RunningIsRun
  <2>1. j \in Created /\ jobs[j].status = "running"
    BY DEF Calm
  <2> QED BY <2>1 DEF RunningIsRun, SameRun, IsRunning
<1>7. \A w \in Workers : pc'[w] \in RunPoints => w \notin P /\ pc'[w] = pc[w] /\ loc'[w] = loc[w]
                                             /\ loc[w].job \in Created
  BY DEF QuietAt, Moves, Procs, HasJob, JobPoints
<1>8. SeenFits'
  <2> SUFFICES ASSUME NEW w \in Workers
               PROVE  /\ pc'[w] = "reported" => loc'[w].seen \in {"pausing", "running"}
                      /\ pc'[w] = "finalize" => loc'[w].seen \in FinalStatuses
                      /\ pc'[w] = "ended" => jobs'[loc'[w].job].status # "running"
    BY DEF SeenFits, At, Mine
  <2>1. CASE pc'[w] \in RunPoints
    BY <2>1, <1>7 DEF SeenFits, At, Mine, Calm
  <2>2. CASE pc'[w] \notin RunPoints
    BY <2>2 DEF RunPoints, WorkerPoints
  <2> QED BY <2>1, <2>2
<1>9. AtWork'
  <2> SUFFICES ASSUME NEW w \in Workers, pc'[w] = "work"
               PROVE  \E t \in Tracks : /\ loc'[w].tracks = {t}
                                        /\ jobs'[loc'[w].job].items[t] \in {"running", "pending"}
    BY DEF AtWork, At, Mine
  <2>1. pc[w] = "work" /\ loc'[w] = loc[w] /\ loc[w].job \in Created
    BY <1>7 DEF RunPoints, WorkerPoints
  <2>2. PICK t \in Tracks : loc[w].tracks = {t} /\ jobs[loc[w].job].items[t] \in {"running", "pending"}
    BY <2>1 DEF AtWork, At, Mine
  <2> QED BY <2>1, <2>2 DEF Calm
<1>10. RunningItemsHaveAWorker'
  <2> SUFFICES ASSUME NEW j \in Created', NEW t \in Tracks, jobs'[j].items[t] = "running"
               PROVE  \E w \in Workers : pc'[w] = "work" /\ loc'[w].job = j /\ t \in loc'[w].tracks
    BY DEF RunningItemsHaveAWorker, At, Mine
  <2>1. j \in Created /\ jobs[j].items[t] = "running"
    BY DEF Calm
  <2>2. PICK w \in Workers : pc[w] = "work" /\ loc[w].job = j /\ t \in loc[w].tracks
    BY <2>1 DEF RunningItemsHaveAWorker, At, Mine
  <2>3. pc'[w] = pc[w] /\ loc'[w] = loc[w]
    BY <2>2 DEF QuietAt, Moves, Procs
  <2> QED BY <2>2, <2>3
<1>11. \A j \in Created : Items(j, Unfinished) = {} => Items(j, Unfinished)' = {}
  BY DEF Items, Unfinished, Calm
<1>12. CompletedMeansDone'
  <2> SUFFICES ASSUME NEW j \in Created', jobs'[j].status = "completed"
               PROVE  Items(j, Unfinished)' = {}
    BY DEF CompletedMeansDone, Items, Unfinished
  <2>1. j \in Created /\ jobs[j].status = "completed"
    BY DEF Calm
  <2>2. Items(j, Unfinished) = {}
    BY <2>1 DEF CompletedMeansDone, Items, Unfinished
  <2> QED BY <2>1, <2>2, <1>11
<1>13. SeenDone'
  <2> SUFFICES ASSUME NEW w \in Workers, pc'[w] = "finalize", loc'[w].seen = "completed"
               PROVE  {t \in Tracks : jobs'[loc'[w].job].items[t] \in Unfinished} = {}
    BY DEF SeenDone, At, Mine, Items
  <2>1. pc[w] = "finalize" /\ loc'[w] = loc[w] /\ loc[w].job \in Created
    BY <1>7 DEF RunPoints, WorkerPoints
  <2>2. Items(loc[w].job, Unfinished) = {}
    BY <2>1 DEF SeenDone, At, Mine
  <2>3. Items(loc[w].job, Unfinished)' = {}
    BY <2>1, <2>2, <1>11
  <2> QED BY <2>1, <2>3 DEF Items
<1>14. SlotFits'
  <2> SUFFICES ASSUME NEW p \in Procs, Holds(p)' PROVE slot' = p
    BY DEF SlotFits
  <2>1. CASE p \in P
    BY <2>1 DEF Holds, QuietAt, RunPoints, WorkerPoints
  <2>2. CASE p \notin P
    <3>1. pc'[p] = pc[p] /\ loc'[p] = loc[p]
      BY <2>2 DEF Moves
    <3>2. p \in Workers /\ pc[p] \in RunPoints => Background(p)' = Background(p)
      BY <3>1, <1>7 DEF Background, Mine, Calm
    <3>3. Holds(p)
      BY <3>1, <3>2 DEF Holds, RunPoints, WorkerPoints
    <3>4. slot = p
      BY <3>3 DEF SlotFits
    <3> QED BY <3>4, <2>2, Names DEF SlotMoves
  <2> QED BY <2>1, <2>2
<1> QED BY <1>1, <1>2, <1>3, <1>5, <1>6, <1>8, <1>9, <1>10, <1>12, <1>13, <1>14

LEMMA Returns ==
    ASSUME TypeOK, NEW p \in Procs, Return(p)
    PROVE  MovesTo(p, Rest(p), NoLocal)
BY Steps, LocalsAre DEF Return, Rest, Points, CallerPoints, WorkerPoints

(* A step of one process that reads only.                                  *)
LEMMA Reads ==
    ASSUME IInv, NEW p \in Procs, NEW x, NEW l, MovesTo(p, x, l),
           UNCHANGED <<jobs, memory, coordinator, crashes>>,
           pc[p] # "work", x \notin RunPoints \cup {"launched"} \cup Importing,
           x \in JobPoints => l.job \in Created
    PROVE  IInv'
<1>1. Moves({p})
  BY OneMoves
<1>2. Calm /\ SameRun /\ SlotMoves({p})
  BY Unchanged
<1>3. QuietAt(p)
  BY <1>2 DEF QuietAt, MovesTo, Calm
<1>4. crashes' \in 0 .. MaxCrashes
  BY DEF IInv, TypeOK
<1> QED BY <1>1, <1>2, <1>3, <1>4, QuietStep

(* A set of numbers has a least one.                                       *)
LEMMA LessWF == IsWellFoundedOn({p \in Nat \X Nat : p[1] < p[2]}, Nat)
BY NatLessThanWellFounded DEF OpToRel

LEMMA Least ==
    ASSUME NEW T \in SUBSET Nat, T # {}
    PROVE  \E m \in T : \A n \in T : m <= n
<1> DEFINE R == {p \in Nat \X Nat : p[1] < p[2]}
<1>1. IsWellFoundedOn(R, Nat)
  BY LessWF
<1>2. \A m, n \in T : n < m => <<n, m>> \in R
  OBVIOUS
<1> HIDE DEF R
<1>3. PICK m \in T : \A n \in T : ~(<<n, m>> \in R)
  BY <1>1, WFMin
<1>4. ASSUME NEW n \in T PROVE m <= n
  <2>1. ~(n < m)
    BY <1>2, <1>3
  <2> QED BY <2>1
<1> QED BY <1>4

(* next_queued answers with a queued job, and the one that goes first.     *)
LEMMA NextQueuedGoesFirst ==
    ASSUME TypeOK, Queued # {}
    PROVE  NextQueued \in Queued /\ \A i \in Queued : Precedes(NextQueued, i)
<1> DEFINE User == {j \in Queued : ~jobs[j].background}
<1>1. Queued \subseteq Created /\ Created \subseteq Nat
  BY DEF Queued, Created, JobIds
<1>2. \A j \in Queued : jobs[j].background \in BOOLEAN
  BY <1>1, JobTypes
<1>3. \E j \in Queued : \A i \in Queued : Precedes(j, i)
  <2>1. CASE User # {}
    <3>1. PICK m \in User : \A n \in User : m <= n
      BY <1>1, <2>1, Least
    <3> QED BY <3>1, <1>2 DEF Precedes
  <2>2. CASE User = {}
    <3>1. PICK m \in Queued : \A n \in Queued : m <= n
      BY <1>1, Least
    <3>2. \A n \in Queued : jobs[n].background = TRUE
      BY <2>2, <1>2
    <3> QED BY <3>1, <3>2 DEF Precedes
  <2> QED BY <2>1, <2>2
<1> QED BY <1>3 DEF NextQueued

LEMMA ReadingSteps ==
    ASSUME IInv, NEW p \in Procs,
           LaunchNext(p) \/ PickQueued(p) \/ (LaunchClaims(p) /\ ~MayLaunch)
    PROVE  IInv'
<1> TypeOK
  BY DEF IInv
<1> USE DEF Points, LaunchPoints, CallerPoints, WorkerPoints, JobPoints, RunPoints, Importing, Rest
<1>1. CASE LaunchNext(p)
  <2>1. CASE IsRunning
    BY <1>1, <2>1, Returns, Reads DEF LaunchNext, At
  <2>2. CASE ~IsRunning
    BY <1>1, <2>2, Steps, Reads DEF LaunchNext, At
  <2> QED BY <2>1, <2>2
<1>2. CASE PickQueued(p)
  <2>1. CASE Queued = {}
    BY <1>2, <2>1, Returns, Reads DEF PickQueued, At
  <2>2. CASE Queued # {}
    <3>1. NextQueued \in Created
      BY <2>2, NextQueuedGoesFirst DEF Queued
    <3>2. NextQueued \in JobIds
      BY <3>1, JobTypes
    <3> DEFINE l == [NoLocal EXCEPT !.job = NextQueued]
    <3>3. l \in Local /\ l.job = NextQueued
      BY <3>2, LocalsAre
    <3>4. GotoWith(p, "launch", l)
      BY <1>2, <2>2 DEF PickQueued
    <3> HIDE DEF l
    <3>5. MovesTo(p, "launch", l)
      BY <3>3, <3>4, Steps
    <3> QED BY <1>2, <3>1, <3>3, <3>5, Reads DEF PickQueued, At
  <2> QED BY <2>1, <2>2
<1>3. CASE LaunchClaims(p) /\ ~MayLaunch
  BY <1>3, Returns, Reads DEF LaunchClaims, At, memory
<1> QED BY <1>1, <1>2, <1>3

LEMMA RequestsQuiet ==
    ASSUME IInv, NEW c \in Callers,
           Start(c) \/ Resume(c) \/ Pause(c) \/ Enqueue(c) \/ Ingest(c)
    PROVE  IInv'
<1> c \in Procs /\ TypeOK
  BY DEF IInv, Procs
<1> USE DEF Points, LaunchPoints, CallerPoints, WorkerPoints, JobPoints, RunPoints, Importing
<1>1. CASE Start(c)
  <2>1. PICK ts \in SUBSET Tracks : GotoWith(c, "start", [NoLocal EXCEPT !.tracks = ts])
    BY <1>1 DEF Start
  <2>2. [NoLocal EXCEPT !.tracks = ts] \in Local
    BY DEF NoLocal, Local
  <2>3. MovesTo(c, "start", [NoLocal EXCEPT !.tracks = ts])
    BY <2>1, <2>2, Steps
  <2> QED BY <1>1, <2>3, Reads DEF Start, At
<1>2. CASE Resume(c)
  <2>1. PICK j \in Created : GotoWith(c, "resume", [NoLocal EXCEPT !.job = j])
    BY <1>2 DEF Resume
  <2> DEFINE l == [NoLocal EXCEPT !.job = j]
  <2>2. l \in Local /\ l.job = j
    BY <2>1, JobTypes, LocalsAre
  <2>3. GotoWith(c, "resume", l)
    BY <2>1
  <2> HIDE DEF l
  <2>4. MovesTo(c, "resume", l)
    BY <2>2, <2>3, Steps
  <2> QED BY <1>2, <2>2, <2>4, Reads DEF Resume, At
<1>3. CASE Pause(c)
  <2> DEFINE l(j) == [NoLocal EXCEPT !.job = j, !.seen = jobs[j].status]
  <2>1. PICK j \in Created : GotoWith(c, "pause", l(j))
    BY <1>3 DEF Pause
  <2>2. l(j) \in Local /\ l(j).job = j
    BY <2>1, JobTypes DEF NoLocal, Local
  <2> HIDE DEF l
  <2>4. MovesTo(c, "pause", l(j))
    BY <2>2, <2>1, Steps
  <2> QED BY <1>3, <2>2, <2>4, Reads DEF Pause, At
<1>4. CASE Enqueue(c)
  <2> DEFINE l(ts) == [NoLocal EXCEPT !.tracks = ts \ Outstanding]
  <2>1. PICK ts \in SUBSET (Tracks \ Embedded) : GotoWith(c, "enqueue", l(ts))
    BY <1>4 DEF Enqueue
  <2>2. l(ts) \in Local
    BY DEF NoLocal, Local
  <2> HIDE DEF l
  <2>4. MovesTo(c, "enqueue", l(ts))
    BY <2>2, <2>1, Steps
  <2> QED BY <1>4, <2>4, Reads DEF Enqueue, At
<1>5. CASE Ingest(c)
  <2>1. MovesTo(c, "poll", loc[c])
    BY <1>5, Steps DEF Ingest
  <2> QED BY <1>5, <2>1, Reads DEF Ingest, At
<1> QED BY <1>1, <1>2, <1>3, <1>4, <1>5

LEMMA DecisionsQuiet ==
    ASSUME IInv, NEW c \in Callers,
           StartDecides(c) \/ OutOfJobs(c) \/ ResumeAllowed(c) \/ ResumeDecides(c)
    PROVE  IInv'
<1> c \in Procs /\ TypeOK
  BY DEF IInv, Procs
<1>a. pc[c] \in JobPoints => loc[c].job \in Created
  BY DEF IInv, HasJob
<1> USE DEF Points, LaunchPoints, CallerPoints, WorkerPoints, JobPoints, RunPoints, Importing, Rest
<1>1. CASE StartDecides(c)
  <2>1. MovesTo(c, "create_queued", loc[c]) \/ MovesTo(c, "create", loc[c])
    BY <1>1, Steps DEF StartDecides
  <2> QED BY <1>1, <2>1, Reads DEF StartDecides, At
<1>2. CASE OutOfJobs(c)
  BY <1>2, Returns, Reads DEF OutOfJobs
<1>3. CASE ResumeAllowed(c)
  <2>1. CASE Available
    BY <1>3, <2>1, <1>a, Steps, Reads DEF ResumeAllowed, At
  <2>2. CASE ~Available
    BY <1>3, <2>2, Returns, Reads DEF ResumeAllowed, At
  <2> QED BY <2>1, <2>2
<1>4. CASE ResumeDecides(c)
  <2>1. MovesTo(c, "requeue", loc[c]) \/ MovesTo(c, "launch", loc[c])
    BY <1>4, Steps DEF ResumeDecides
  <2> QED BY <1>4, <1>a, <2>1, Reads DEF ResumeDecides, At
<1> QED BY <1>1, <1>2, <1>3, <1>4

LEMMA StatusCalm ==
    ASSUME IInv, NEW j \in Created, NEW s \in {"paused", "queued", "pausing"}, SetStatus(j, s)
    PROVE  Calm
<1>1. TypeOK /\ j \in JobIds /\ jobs[j] \in Job
  BY JobTypes DEF IInv
<1>2. \A i \in JobIds : jobs'[i] = IF i = j THEN [jobs[j] EXCEPT !.status = s] ELSE jobs[i]
  BY <1>1 DEF SetStatus, TypeOK
<1>3. [jobs[j] EXCEPT !.status = s] \in Job
  BY <1>1 DEF Job, Statuses
<1>4. jobs' \in [JobIds -> Job \cup {NoJob}]
  BY <1>1, <1>3 DEF SetStatus, TypeOK
<1>5. Created' = Created
  BY <1>2, <1>3, NoRecords DEF Created
<1>6. \A i \in Created : /\ jobs'[i].background = jobs[i].background
                         /\ jobs'[i].items = jobs[i].items
                         /\ jobs'[i].status = IF i = j THEN s ELSE jobs[i].status
  BY <1>1, <1>2 DEF Created, Job
<1>7. Ordered'
  BY <1>5 DEF IInv, Ordered
<1> QED BY <1>4, <1>5, <1>6, <1>7 DEF Calm

LEMMA ItemsCalm ==
    ASSUME IInv, NEW j \in Created, NEW again \in SUBSET {"running", "failed"},
           jobs' = [jobs EXCEPT ![j].items = Requeued(@, again)]
    PROVE  Calm
<1>1. TypeOK /\ j \in JobIds /\ jobs[j] \in Job /\ jobs[j].items \in [Tracks -> ItemStates]
  BY JobTypes DEF IInv
<1> DEFINE its == Requeued(jobs[j].items, again)
<1>2. its \in [Tracks -> ItemStates]
  BY <1>1 DEF Requeued, ItemStates
<1>3. \A t \in Tracks : \/ its[t] = jobs[j].items[t]
                        \/ (jobs[j].items[t] \in {"running", "failed"} /\ its[t] = "pending")
  BY <1>1 DEF Requeued
<1>4. jobs' = [jobs EXCEPT ![j].items = its]
  BY <1>1 DEF TypeOK
<1> HIDE DEF its
<1>5. \A i \in JobIds : jobs'[i] = IF i = j THEN [jobs[j] EXCEPT !.items = its] ELSE jobs[i]
  BY <1>1, <1>4 DEF TypeOK
<1>6. [jobs[j] EXCEPT !.items = its] \in Job
  BY <1>1, <1>2 DEF Job
<1>7. jobs' \in [JobIds -> Job \cup {NoJob}]
  BY <1>1, <1>4, <1>6 DEF TypeOK
<1>8. Created' = Created
  BY <1>5, <1>6, NoRecords DEF Created
<1>9. \A i \in Created : /\ jobs'[i].background = jobs[i].background
                         /\ jobs'[i].status = jobs[i].status
                         /\ jobs'[i].items = IF i = j THEN its ELSE jobs[i].items
  BY <1>1, <1>5 DEF Created, Job
<1>10. Ordered'
  BY <1>8 DEF IInv, Ordered
<1> QED BY <1>3, <1>7, <1>8, <1>9, <1>10 DEF Calm

LEMMA QuietOne ==
    ASSUME IInv, NEW p \in Procs, NEW x, NEW l, MovesTo(p, x, l), UNCHANGED crashes,
           Calm, SameRun, SlotMoves({p}),
           pc[p] # "work", x \notin RunPoints \cup {"launched"},
           x \in Importing => slot' = p,
           x \in JobPoints => l.job \in Created
    PROVE  IInv'
<1>1. Moves({p})
  BY OneMoves
<1>3. QuietAt(p)
  BY DEF QuietAt, MovesTo, Calm
<1>4. crashes' \in 0 .. MaxCrashes
  BY DEF IInv, TypeOK
<1> QED BY <1>1, <1>3, <1>4, QuietStep

LEMMA StopRaised ==
    ASSUME TypeOK, running # NoJob, running' = [running EXCEPT !.stop = TRUE],
           pauser' \in Callers \cup {Nobody}
    PROVE  SameRun
<1>1. running \in Running
  BY DEF TypeOK
<1>2. running' \in Running /\ running'.job = running.job
  BY <1>1 DEF Running
<1> QED BY <1>2, NoRecords DEF SameRun

LEMMA ResumeAndPause ==
    ASSUME IInv, NEW c \in Callers,
           YieldBackground(c) \/ PrepareResume(c) \/ Requeue(c) \/ PauseSignals(c)
           \/ PauseRecords(c) \/ PauseIdle(c)
    PROVE  IInv'
<1> c \in Procs /\ TypeOK
  BY DEF IInv, Procs
<1>a. pc[c] \in JobPoints => loc[c].job \in Created
  BY DEF IInv, HasJob
<1>b. /\ UNCHANGED coordinator => SlotMoves({c})
      /\ UNCHANGED memory => SameRun
      /\ UNCHANGED jobs => Calm
  BY Unchanged
<1>c. Return(c) => MovesTo(c, "idle", NoLocal)
  BY Returns DEF Rest
<1> USE DEF Points, LaunchPoints, CallerPoints, WorkerPoints, JobPoints, RunPoints, Importing
<1>1. CASE YieldBackground(c)
  <2>1. SameRun
    <3>1. CASE BackgroundRuns
      BY <1>1, <3>1, StopRaised DEF YieldBackground, TypeOK, BackgroundRuns, IsRunning
    <3>2. CASE ~BackgroundRuns
      BY <1>1, <3>2 DEF YieldBackground, SameRun, TypeOK
    <3> QED BY <3>1, <3>2
  <2> QED BY <1>1, <2>1, <1>b, <1>c, QuietOne DEF YieldBackground, At
<1>2. CASE PrepareResume(c)
  <2>1. Calm
    BY <1>2, <1>a, ItemsCalm DEF PrepareResume, At
  <2>2. MovesTo(c, "decide", loc[c])
    BY <1>2, Steps DEF PrepareResume
  <2> QED BY <1>2, <2>1, <2>2, <1>a, <1>b, QuietOne DEF PrepareResume, At
<1>3. CASE Requeue(c)
  <2>1. Calm
    BY <1>3, <1>a, StatusCalm DEF Requeue, At
  <2>2. MovesTo(c, "yield", loc[c]) \/ MovesTo(c, "idle", NoLocal)
    BY <1>3, <1>c, Steps DEF Requeue
  <2> QED BY <1>3, <2>1, <2>2, <1>b, QuietOne DEF Requeue, At
<1>4. CASE PauseSignals(c)
  <2>1. SameRun
    BY <1>4, StopRaised DEF PauseSignals, IsRunning
  <2>2. MovesTo(c, "pausing", loc[c])
    BY <1>4, Steps DEF PauseSignals
  <2> QED BY <1>4, <2>1, <2>2, <1>a, <1>b, QuietOne DEF PauseSignals, At
<1>5. CASE PauseRecords(c)
  <2>1. Calm
    BY <1>5, <1>a, StatusCalm DEF PauseRecords, At
  <2>2. SameRun
    BY <1>5 DEF PauseRecords, SameRun, TypeOK
  <2> QED BY <1>5, <2>1, <2>2, <1>b, <1>c, QuietOne DEF PauseRecords, At
<1>6. CASE PauseIdle(c)
  <2>1. Calm
    <3>1. CASE loc[c].seen = "queued"
      BY <1>6, <3>1, <1>a, StatusCalm DEF PauseIdle, At, SetStatus
    <3>2. CASE loc[c].seen # "queued"
      BY <1>6, <3>2, <1>b DEF PauseIdle
    <3> QED BY <3>1, <3>2
  <2> QED BY <1>6, <2>1, <1>b, <1>c, QuietOne DEF PauseIdle, At
<1> QED BY <1>1, <1>2, <1>3, <1>4, <1>5, <1>6

(* The ids in use are 1 .. n, so the next one is free.                     *)
LEMMA NewIdIsFree ==
    ASSUME TypeOK, Ordered
    PROVE  /\ NewId \notin Created
           /\ \A i \in Nat \ {0} : i < NewId => i \in Created
<1>1. IsFiniteSet(JobIds) /\ Created \subseteq JobIds /\ JobIds \subseteq Nat \ {0}
  BY Bounds, FS_Interval DEF JobIds, Created
<1>2. IsFiniteSet(Created) /\ Cardinality(Created) \in Nat
  BY <1>1, FS_Subset, FS_CardinalityType
<1>3. ASSUME NewId \in Created PROVE FALSE
  <2>1. 1 .. NewId \subseteq Created
    BY <1>3 DEF Ordered
  <2>2. Cardinality(1 .. NewId) = NewId
    BY <1>2, FS_Interval DEF NewId
  <2> QED BY <1>2, <2>1, <2>2, FS_Subset DEF NewId
<1>4. ASSUME NEW i \in Nat \ {0}, i < NewId, i \notin Created PROVE FALSE
  <2>1. \A j \in Created : j < i
    <3> SUFFICES ASSUME NEW j \in Created, i <= j PROVE FALSE
      BY <1>1
    <3>1. i \in 1 .. j
      BY <1>1
    <3> QED BY <3>1, <1>4 DEF Ordered
  <2>2. Created \subseteq 1 .. (i - 1)
    BY <1>1, <2>1
  <2>3. IsFiniteSet(1 .. (i - 1)) /\ Cardinality(1 .. (i - 1)) = i - 1
    BY FS_Interval
  <2>4. Cardinality(Created) <= i - 1
    BY <2>2, <2>3, FS_Subset
  <2> QED BY <1>2, <1>4, <2>4 DEF NewId
<1> QED BY <1>3, <1>4

LEMMA CreationCalm ==
    ASSUME IInv, NEW ts \in SUBSET Tracks, NEW s \in {"paused", "queued"}, NEW b \in BOOLEAN,
           NewId \in JobIds, jobs' = [jobs EXCEPT ![NewId] = NewJob(s, b, ts)]
    PROVE  Calm /\ NewId \in Created'
<1>1. TypeOK /\ Ordered
  BY DEF IInv
<1> DEFINE new == NewJob(s, b, ts)
           n == NewId
<1>2. new \in Job /\ new.status = s
      /\ \A t \in Tracks : new.items[t] \in {"none", "pending"}
  BY DEF NewJob, Job, Statuses, ItemStates
<1>3. n \notin Created /\ n \in JobIds /\ \A i \in Nat \ {0} : i < n => i \in Created
  BY <1>1, NewIdIsFree
<1>4. jobs' = [jobs EXCEPT ![n] = new]
  OBVIOUS
<1> HIDE DEF new, n
<1>5. \A i \in JobIds : jobs'[i] = IF i = n THEN new ELSE jobs[i]
  BY <1>1, <1>3, <1>4 DEF TypeOK
<1>6. jobs' \in [JobIds -> Job \cup {NoJob}]
  BY <1>1, <1>2, <1>3, <1>4 DEF TypeOK
<1>7. Created' = Created \cup {n}
  BY <1>2, <1>3, <1>5, NoRecords DEF Created
<1>8. Ordered'
  <2> SUFFICES ASSUME NEW j \in Created', NEW i \in 1 .. j PROVE i \in Created'
    BY DEF Ordered
  <2>1. n \in Nat \ {0}
    BY <1>3, Bounds DEF JobIds
  <2>2. CASE j = n
    BY <2>1, <2>2, <1>3, <1>7
  <2>3. CASE j \in Created
    BY <2>3, <1>1, <1>7 DEF Ordered
  <2> QED BY <1>7, <2>2, <2>3
<1>9. \A j \in Created : jobs'[j] = jobs[j]
  BY <1>3, <1>5 DEF Created
<1>10. jobs'[n] = new
  BY <1>3, <1>5
<1>11. \A j \in Created' \ Created : j = n
  BY <1>7
<1>12. Calm
  BY <1>2, <1>6, <1>7, <1>8, <1>9, <1>10, <1>11 DEF Calm
<1> QED BY <1>7, <1>12 DEF n

LEMMA CreatingStep ==
    ASSUME IInv, NEW c \in Callers, NEW s \in {"paused", "queued"}, NEW b \in BOOLEAN,
           NEW x \in {"launch", "yield", "next"}, pc[c] # "work", Create(c, s, b, x)
    PROVE  IInv'
<1>1. c \in Procs /\ TypeOK /\ loc[c].tracks \in SUBSET Tracks
  BY ProcTypes DEF IInv, Procs
<1>2. Calm /\ NewId \in Created' /\ NewId \in JobIds
  BY <1>1, CreationCalm DEF Create
<1> DEFINE l == [NoLocal EXCEPT !.job = NewId]
<1>3. l \in Local /\ l.job = NewId
  BY <1>2, LocalsAre
<1>4. GotoWith(c, x, l)
  BY DEF Create
<1> HIDE DEF l
<1>5. MovesTo(c, x, l)
  BY <1>1, <1>3, <1>4, Steps DEF Points, CallerPoints, LaunchPoints
<1>6. SameRun /\ SlotMoves({c})
  BY Unchanged DEF Create
<1>7. QuietAt(c)
  BY <1>2, <1>3, <1>5 DEF QuietAt, MovesTo, RunPoints, WorkerPoints, Importing
<1>8. crashes' \in 0 .. MaxCrashes /\ Moves({c})
  BY <1>1, <1>5, OneMoves DEF TypeOK, Create
<1> QED BY <1>1, <1>2, <1>6, <1>7, <1>8, QuietStep

LEMMA Creations ==
    ASSUME IInv, NEW c \in Callers, StartCreates(c) \/ EnqueueCreates(c)
    PROVE  IInv'
BY CreatingStep DEF StartCreates, EnqueueCreates, At

LEMMA Imports ==
    ASSUME IInv, NEW c \in Callers,
           AcquireWait(c) \/ ImportAcquires(c) \/ ImportKnocks(c) \/ ImportEnds(c)
           \/ CancelClears(c)
    PROVE  IInv'
<1> c \in Procs /\ TypeOK
  BY DEF IInv, Procs
<1>a. pc[c] \in JobPoints => loc[c].job \in Created
  BY DEF IInv, HasJob
<1>b. UNCHANGED jobs /\ UNCHANGED memory => Calm /\ SameRun
  BY Unchanged
<1> USE DEF Points, LaunchPoints, CallerPoints, WorkerPoints, JobPoints, RunPoints
<1>1. CASE AcquireWait(c)
  <2>1. SlotMoves({c})
    BY <1>1 DEF AcquireWait, SlotMoves, TypeOK
  <2>2. MovesTo(c, "wait", loc[c]) \/ MovesTo(c, "gridwait", loc[c])
    BY <1>1, Steps DEF AcquireWait
  <2> QED BY <1>1, <1>b, <2>1, <2>2, QuietOne DEF AcquireWait, At, Importing
<1>2. CASE ImportAcquires(c)
  <2>0. Held(pc[c]) \in Importing
    BY <1>2 DEF ImportAcquires, Asking, Held, Importing
  <2>1. SlotMoves({c}) /\ slot' = c
    BY <1>2 DEF ImportAcquires, Acquire, SlotFreeFor, SlotMoves, TypeOK
  <2>2. MovesTo(c, Held(pc[c]), loc[c])
    BY <1>2, <2>0, Steps DEF ImportAcquires, Importing
  <2>3. Held(pc[c]) \notin RunPoints \cup {"launched"} \cup JobPoints /\ pc[c] # "work"
    BY <2>0, <1>2 DEF Importing, ImportAcquires, Asking
  <2> HIDE DEF Held
  <2> QED BY <1>2, <1>b, <2>1, <2>2, <2>3, QuietOne DEF ImportAcquires
<1>3. CASE ImportKnocks(c)
  <2>1. SlotMoves({c})
    BY <1>3 DEF ImportKnocks, SlotMoves, TypeOK
  <2>2. MovesTo(c, "queued", loc[c]) \/ (MovesTo(c, pc[c], loc[c]) /\ pc[c] \in Asking)
    BY <1>3, Steps DEF ImportKnocks, Asking
  <2> QED BY <1>3, <1>b, <2>1, <2>2, QuietOne DEF ImportKnocks, Asking, Importing
<1>4. CASE ImportEnds(c)
  <2>1. SlotMoves({c})
    BY <1>4 DEF ImportEnds, Release, SlotMoves, TypeOK
  <2>2. MovesTo(c, "idle", loc[c]) \/ MovesTo(c, "next", loc[c])
    BY <1>4, Steps DEF ImportEnds
  <2> QED BY <1>4, <1>b, <2>1, <2>2, QuietOne DEF ImportEnds, Importing
<1>5. CASE CancelClears(c)
  <2>1. SlotMoves({c})
    BY <1>5 DEF CancelClears, SlotMoves, TypeOK
  <2>2. MovesTo(c, "idle", NoLocal)
    BY <1>5, Returns DEF CancelClears, Rest
  <2> QED BY <1>5, <1>b, <2>1, <2>2, QuietOne DEF CancelClears, At, Importing
<1> QED BY <1>1, <1>2, <1>3, <1>4, <1>5

LEMMA Cancellation ==
    ASSUME IInv, NEW c \in Callers, CancelIngest(c)
    PROVE  IInv'
<1>0. TypeOK
  BY DEF IInv
<1>1. PICK i \in Callers \ {c} :
        /\ At(c, "idle") /\ pc[i] \in {"poll", "queued", "ingest"}
        /\ Release(i)
        /\ ingest' = (ingest /\ ~At(i, "ingest"))
        /\ pc' = [pc EXCEPT ![c] = "cancel", ![i] = IF At(i, "ingest") THEN "next" ELSE "idle"]
        /\ UNCHANGED <<jobs, memory, waiting, loc, crashes>>
  BY DEF CancelIngest
<1>2. {c, i} \in SUBSET Procs
  BY DEF Procs
<1>3. pc'[c] = "cancel" /\ pc'[i] \in {"next", "idle"}
  BY <1>0, <1>1, <1>2 DEF TypeOK
<1>4. Moves({c, i})
  BY <1>0, <1>1, <1>2 DEF Moves, TypeOK, Points, CallerPoints, LaunchPoints
<1>5. SlotMoves({c, i})
  BY <1>0, <1>1 DEF SlotMoves, TypeOK, Release
<1>6. Calm /\ SameRun
  BY <1>1, Unchanged
<1>7. crashes' \in 0 .. MaxCrashes
  BY <1>0, <1>1 DEF TypeOK
<1>8. \A p \in {c, i} : QuietAt(p)
  BY <1>1, <1>3 DEF QuietAt, At, RunPoints, WorkerPoints, Importing, JobPoints
<1> QED BY <1>2, <1>4, <1>5, <1>6, <1>7, <1>8, QuietStep

-----------------------------------------------------------------------------
(* Steps of the thread that runs a job                                     *)

(* What IInv says of the one thread that runs.                             *)
OwnFits(w) ==
    /\ At(w, "reported") => loc[w].seen \in {"pausing", "running"}
    /\ At(w, "finalize") => loc[w].seen \in FinalStatuses
    /\ At(w, "ended") => jobs[loc[w].job].status # "running"
    /\ At(w, "work") => \E t \in Tracks : /\ loc[w].tracks = {t}
                                          /\ jobs[loc[w].job].items[t] \in {"running", "pending"}
    /\ \A t \in Tracks : jobs[loc[w].job].items[t] = "running" =>
            At(w, "work") /\ t \in loc[w].tracks
    /\ jobs[loc[w].job].status = "completed" \/ (At(w, "finalize") /\ loc[w].seen = "completed")
            => \A t \in Tracks : jobs[loc[w].job].items[t] \notin Unfinished
    /\ Holds(w) => slot = w

OneJobChanges(j) ==
    /\ jobs' \in [JobIds -> Job \cup {NoJob}]
    /\ jobs'[j] \in Job /\ jobs'[j].background = jobs[j].background
    /\ \A i \in JobIds : i # j => jobs'[i] = jobs[i]

LEMMA OnlyOneEngaged ==
    ASSUME IInv, NEW w \in Procs, Engaged(w)
    PROVE  /\ running # NoJob /\ running.job = loc[w].job /\ loc[w].job \in Created
           /\ \A q \in Procs : Engaged(q) => q = w
BY DEF IInv, Solo, IsRunning, HasJob, Engaged, JobPoints, At

LEMMA OthersHaveNoRunningItem ==
    ASSUME IInv, NEW j \in Created, NEW t \in Tracks, jobs[j].items[t] = "running"
    PROVE  running # NoJob /\ running.job = j
<1>1. PICK w \in Workers : pc[w] = "work" /\ loc[w].job = j
  BY DEF IInv, RunningItemsHaveAWorker, At, Mine
<1>2. w \in Procs /\ Engaged(w)
  BY <1>1 DEF Procs, Engaged, RunPoints, WorkerPoints
<1> QED BY <1>1, <1>2, OnlyOneEngaged

LEMMA OwnFitsNow ==
    ASSUME IInv, NEW w \in Workers, pc[w] \in RunPoints
    PROVE  OwnFits(w)
<1>1. w \in Procs /\ Engaged(w)
  BY DEF Procs, Engaged
<1>2. loc[w].job \in Created /\ \A v \in Workers : pc[v] = "work" => v = w
  BY <1>1, OnlyOneEngaged DEF Procs, Engaged, RunPoints, WorkerPoints
<1>3. SeenFits /\ AtWork /\ RunningItemsHaveAWorker /\ CompletedMeansDone /\ SeenDone /\ SlotFits
  BY DEF IInv
<1>4. \A t \in Tracks : jobs[loc[w].job].items[t] = "running" => At(w, "work") /\ t \in loc[w].tracks
  BY <1>2, <1>3 DEF RunningItemsHaveAWorker, At
<1>5. jobs[loc[w].job].status = "completed" => \A t \in Tracks : jobs[loc[w].job].items[t] \notin Unfinished
  BY <1>2, <1>3 DEF CompletedMeansDone, Items, Unfinished
<1>6. At(w, "finalize") /\ loc[w].seen = "completed"
        => \A t \in Tracks : jobs[loc[w].job].items[t] \notin Unfinished
  BY <1>3 DEF SeenDone, Items, Mine
<1>7. Holds(w) => slot = w
  BY <1>1, <1>3 DEF SlotFits
<1>8. /\ At(w, "reported") => loc[w].seen \in {"pausing", "running"}
      /\ At(w, "finalize") => loc[w].seen \in FinalStatuses
      /\ At(w, "ended") => jobs[loc[w].job].status # "running"
      /\ At(w, "work") => \E t \in Tracks : /\ loc[w].tracks = {t}
                                            /\ jobs[loc[w].job].items[t] \in {"running", "pending"}
  BY <1>3 DEF SeenFits, AtWork, Mine
<1> QED BY <1>4, <1>5, <1>6, <1>7, <1>8 DEF OwnFits

LEMMA EngagedStep ==
    ASSUME IInv, NEW w \in Workers, NEW P \in SUBSET Procs, w \in P, Moves(P),
           \A q \in P : q # w => pc'[q] \in {"idle", "off"},
           NEW e \in P, Engaged(e),
           pc'[w] \in RunPoints, loc'[w].job = running.job,
           UNCHANGED memory, UNCHANGED crashes, OneJobChanges(running.job), SlotMoves(P),
           OwnFits(w)'
    PROVE  IInv'
<1> DEFINE r == running.job
<1>0. IsRunning /\ r \in Created /\ r \in JobIds
  BY OnlyOneEngaged DEF IsRunning, Created
<1>1. \A q \in Procs : Engaged(q)' => q = w
  <2> SUFFICES ASSUME NEW q \in Procs, Engaged(q)', q # w PROVE FALSE
    OBVIOUS
  <2>1. q \notin P
    BY DEF Engaged, At, RunPoints, WorkerPoints
  <2>2. Engaged(q)
    BY <2>1 DEF Engaged, At, Moves
  <2> QED BY <2>1, <2>2, OnlyOneEngaged
<1>2. Created' = Created /\ \A j \in Created : j # r => jobs'[j] = jobs[j]
  BY <1>0, NoRecords DEF Created, OneJobChanges
<1>3. running' = running /\ IsRunning' /\ pauser' = pauser
  BY <1>0 DEF memory, IsRunning
<1>4. TypeOK'
  BY <1>3 DEF IInv, TypeOK, Moves, OneJobChanges, SlotMoves, Points
<1>5. Ordered'
  BY <1>2 DEF IInv, Ordered
<1>6. HasJob'
  <2> SUFFICES ASSUME NEW p \in Procs, pc'[p] \in JobPoints PROVE loc'[p].job \in Created
    BY <1>2 DEF HasJob
  <2>1. CASE p = w
    BY <2>1, <1>0
  <2>2. CASE p # w
    <3>1. p \notin P
      BY <2>2 DEF JobPoints, RunPoints, WorkerPoints
    <3> QED BY <3>1 DEF IInv, HasJob, Moves
  <2> QED BY <2>1, <2>2
<1>7. Solo'
  BY <1>1, <1>3 DEF Solo
<1>8. RunningIsRun'
  <2> SUFFICES ASSUME NEW j \in Created, jobs'[j].status = "running", j # r PROVE FALSE
    BY <1>2, <1>3 DEF RunningIsRun
  <2> QED BY <1>2 DEF IInv, RunningIsRun
<1>9. \A v \in Workers : pc'[v] \in RunPoints => v = w
  BY <1>1 DEF Engaged, Procs
<1>10. SeenFits'
  <2> SUFFICES ASSUME NEW v \in Workers
               PROVE  /\ pc'[v] = "reported" => loc'[v].seen \in {"pausing", "running"}
                      /\ pc'[v] = "finalize" => loc'[v].seen \in FinalStatuses
                      /\ pc'[v] = "ended" => jobs'[loc'[v].job].status # "running"
    BY DEF SeenFits, At, Mine
  <2> QED BY <1>9 DEF OwnFits, At, RunPoints, WorkerPoints
<1>11. AtWork'
  <2> SUFFICES ASSUME NEW v \in Workers, pc'[v] = "work"
               PROVE  \E t \in Tracks : /\ loc'[v].tracks = {t}
                                        /\ jobs'[loc'[v].job].items[t] \in {"running", "pending"}
    BY DEF AtWork, At, Mine
  <2>1. v = w
    BY <1>9 DEF RunPoints, WorkerPoints
  <2> QED BY <2>1 DEF OwnFits, At
<1>12. RunningItemsHaveAWorker'
  <2> SUFFICES ASSUME NEW j \in Created', NEW t \in Tracks, jobs'[j].items[t] = "running"
               PROVE  \E v \in Workers : pc'[v] = "work" /\ loc'[v].job = j /\ t \in loc'[v].tracks
    BY DEF RunningItemsHaveAWorker, At, Mine
  <2>1. CASE j = r
    BY <2>1 DEF OwnFits, At
  <2>2. CASE j # r
    BY <2>2, <1>2, OthersHaveNoRunningItem
  <2> QED BY <2>1, <2>2
<1>13. CompletedMeansDone'
  <2> SUFFICES ASSUME NEW j \in Created', jobs'[j].status = "completed", NEW t \in Tracks
               PROVE  jobs'[j].items[t] \notin Unfinished
    BY DEF CompletedMeansDone, Items, Unfinished
  <2>1. CASE j = r
    BY <2>1 DEF OwnFits
  <2>2. CASE j # r
    BY <2>2, <1>2 DEF IInv, CompletedMeansDone, Items, Unfinished
  <2> QED BY <2>1, <2>2
<1>14. SeenDone'
  <2> SUFFICES ASSUME NEW v \in Workers, pc'[v] = "finalize", loc'[v].seen = "completed",
                      NEW t \in Tracks
               PROVE  jobs'[loc'[v].job].items[t] \notin Unfinished
    BY DEF SeenDone, At, Mine, Items
  <2>1. v = w
    BY <1>9 DEF RunPoints, WorkerPoints
  <2> QED BY <2>1 DEF OwnFits, At
<1>15. SlotFits'
  <2> SUFFICES ASSUME NEW p \in Procs, Holds(p)', p # w PROVE slot' = p
    BY DEF SlotFits, OwnFits
  <2>1. p \notin P /\ p \notin Workers
    BY <1>9, Names DEF Holds, Importing, RunPoints, WorkerPoints
  <2>2. Holds(p)
    BY <2>1 DEF Holds, Moves
  <2>3. slot = p
    BY <2>2 DEF IInv, SlotFits
  <2> QED BY <2>1, <2>3, Names DEF SlotMoves
<1> QED BY <1>4, <1>5, <1>6, <1>7, <1>8, <1>10, <1>11, <1>12, <1>13, <1>14, <1>15 DEF IInv

(* A step of the thread that runs a job, on that job.                      *)
LEMMA RunnerMoves ==
    ASSUME IInv, NEW w \in Workers, NEW x \in RunPoints, NEW l, MovesTo(w, x, l),
           pc[w] \in RunPoints, l.job = loc[w].job,
           UNCHANGED memory, UNCHANGED crashes,
           UNCHANGED jobs \/ OneJobChanges(loc[w].job), SlotMoves({w}), OwnFits(w)'
    PROVE  IInv'
<1>1. w \in Procs /\ Engaged(w) /\ TypeOK
  BY DEF Procs, Engaged, IInv
<1>2. running # NoJob /\ running.job = loc[w].job /\ loc[w].job \in Created
  BY <1>1, OnlyOneEngaged
<1>3. OneJobChanges(running.job)
  BY <1>1, <1>2, JobTypes DEF OneJobChanges, TypeOK
<1>4. pc'[w] \in RunPoints /\ loc'[w].job = running.job /\ Moves({w})
  BY <1>1, <1>2, OneMoves DEF MovesTo
<1> QED BY <1>1, <1>3, <1>4, EngagedStep

LEMMA StatusChange ==
    ASSUME TypeOK, NEW j \in Created, NEW s \in Statuses, SetStatus(j, s)
    PROVE  /\ OneJobChanges(j)
           /\ jobs'[j].status = s /\ jobs'[j].background = jobs[j].background
           /\ jobs'[j].items = jobs[j].items
<1>1. j \in JobIds /\ jobs[j] \in Job
  BY JobTypes
<1>2. jobs' = [jobs EXCEPT ![j] = [jobs[j] EXCEPT !.status = s]]
  BY <1>1 DEF SetStatus, TypeOK
<1>3. [jobs[j] EXCEPT !.status = s] \in Job
  BY <1>1 DEF Job
<1> QED BY <1>1, <1>2, <1>3 DEF OneJobChanges, TypeOK, Job

LEMMA ItemChange ==
    ASSUME TypeOK, NEW j \in Created, NEW t \in Tracks, NEW s \in ItemStates, Finish(j, t, s)
    PROVE  /\ OneJobChanges(j)
           /\ jobs'[j].status = jobs[j].status /\ jobs'[j].background = jobs[j].background
           /\ \A u \in Tracks : jobs'[j].items[u] = IF u = t THEN s ELSE jobs[j].items[u]
<1>1. j \in JobIds /\ jobs[j] \in Job /\ jobs[j].items \in [Tracks -> ItemStates]
  BY JobTypes
<1> DEFINE its == [jobs[j].items EXCEPT ![t] = s]
<1>2. its \in [Tracks -> ItemStates] /\ \A u \in Tracks : its[u] = IF u = t THEN s ELSE jobs[j].items[u]
  BY <1>1
<1>3. jobs' = [jobs EXCEPT ![j] = [jobs[j] EXCEPT !.items = its]]
  BY <1>1 DEF Finish, TypeOK
<1> HIDE DEF its
<1>4. [jobs[j] EXCEPT !.items = its] \in Job
  BY <1>1, <1>2 DEF Job
<1> QED BY <1>1, <1>2, <1>3, <1>4 DEF OneJobChanges, TypeOK, Job

LEMMA RunnerFacts ==
    ASSUME IInv, NEW w \in Workers, pc[w] \in RunPoints
    PROVE  /\ TypeOK /\ w \in Procs /\ Mine(w) = loc[w].job /\ Mine(w) \in Created
           /\ running # NoJob /\ running.job = Mine(w)
           /\ loc[w] \in Local
           /\ UNCHANGED memory => SameRun
           /\ UNCHANGED coordinator => SlotMoves({w})
           /\ OwnFits(w)
<1>1. w \in Procs /\ Engaged(w) /\ TypeOK
  BY DEF Procs, Engaged, IInv
<1> QED BY <1>1, ProcTypes, OnlyOneEngaged, OwnFitsNow, Unchanged DEF Mine

LEMMA RunStarts ==
    ASSUME IInv, NEW w \in Workers, RunBegins(w) \/ RunGivesUp(w)
    PROVE  IInv'
<1>1. pc[w] \in RunPoints
  BY DEF RunBegins, RunGivesUp, At, RunPoints, WorkerPoints
<1>2. /\ TypeOK /\ w \in Procs /\ Mine(w) = loc[w].job /\ Mine(w) \in Created
      /\ UNCHANGED coordinator => SlotMoves({w})
      /\ OwnFits(w)
  BY <1>1, RunnerFacts
<1>3. CASE RunBegins(w)
  <2>1. MovesTo(w, "loop", loc[w])
    BY <1>2, <1>3, Steps DEF RunBegins, Points, WorkerPoints
  <2>2. SlotMoves({w}) /\ (~Background(w) => slot' = w)
    BY <1>2, <1>3 DEF RunBegins, Acquire, SlotFreeFor, SlotMoves, TypeOK
  <2>3. Background(w)' = Background(w)
    BY <1>3, <2>1 DEF RunBegins, MovesTo, Background, Mine
  <2>4. OwnFits(w)'
    BY <1>2, <1>3, <2>1, <2>2, <2>3, Names DEF OwnFits, RunBegins, MovesTo, At, Holds, Importing
  <2> QED BY <1>1, <1>3, <2>1, <2>2, <2>4, RunnerMoves DEF RunBegins, RunPoints, WorkerPoints
<1>4. CASE RunGivesUp(w)
  <2>1. MovesTo(w, "ended", loc[w])
    BY <1>2, <1>4, Steps DEF RunGivesUp, Points, WorkerPoints
  <2>2. /\ OneJobChanges(loc[w].job) /\ jobs'[loc[w].job].status = "paused"
        /\ jobs'[loc[w].job].items = jobs[loc[w].job].items
    BY <1>2, <1>4, StatusChange DEF RunGivesUp, Statuses
  <2>3. OwnFits(w)'
    BY <1>2, <1>4, <2>1, <2>2, Names DEF OwnFits, RunGivesUp, MovesTo, At, Holds, Importing
  <2> QED BY <1>1, <1>2, <1>4, <2>1, <2>2, <2>3, RunnerMoves DEF RunGivesUp, RunPoints, WorkerPoints
<1> QED BY <1>3, <1>4

LEMMA ClaimStep ==
    ASSUME IInv, NEW w \in Workers, ClaimItem(w)
    PROVE  IInv'
<1>1. pc[w] \in RunPoints
  BY DEF ClaimItem, At, RunPoints, WorkerPoints
<1>2. /\ TypeOK /\ w \in Procs /\ Mine(w) = loc[w].job /\ Mine(w) \in Created
      /\ OwnFits(w) /\ loc[w] \in Local
  BY <1>1, RunnerFacts
<1> DEFINE l(t) == [loc[w] EXCEPT !.tracks = {t}]
<1>3. PICK t \in Tracks : /\ jobs[loc[w].job].items[t] = "pending"
                          /\ Finish(loc[w].job, t, "running")
                          /\ GotoWith(w, "work", l(t))
  BY <1>2 DEF ClaimItem, Pending, Items
<1>4. l(t) \in Local /\ l(t).job = loc[w].job /\ l(t).tracks = {t}
  BY <1>2 DEF Local
<1> HIDE DEF l
<1>5. MovesTo(w, "work", l(t))
  BY <1>2, <1>3, <1>4, Steps DEF Points, WorkerPoints
<1>6. /\ OneJobChanges(loc[w].job)
      /\ jobs'[loc[w].job].status = jobs[loc[w].job].status
      /\ jobs'[loc[w].job].background = jobs[loc[w].job].background
      /\ \A u \in Tracks : jobs'[loc[w].job].items[u] = IF u = t THEN "running" ELSE jobs[loc[w].job].items[u]
  BY <1>2, <1>3, ItemChange DEF ItemStates
<1>7. SlotMoves({w}) /\ slot' = w
  <2>1. CASE Background(w)
    BY <1>2, <2>1 DEF ClaimItem, Acquire, HasSlot, SlotFreeFor, SlotMoves, TypeOK
  <2>2. CASE ~Background(w)
    <3>1. Holds(w)
      BY <2>2 DEF Holds, ClaimItem, At
    <3> QED BY <1>2, <2>2, <3>1 DEF ClaimItem, SlotMoves, TypeOK, OwnFits
  <2> QED BY <2>1, <2>2
<1>8. OwnFits(w)'
  <2>1. pc'[w] = "work" /\ loc'[w] = l(t)
    BY <1>5 DEF MovesTo
  <2>2. \A u \in Tracks : jobs'[loc'[w].job].items[u] = "running" => u \in loc'[w].tracks
    BY <1>2, <1>4, <1>6, <2>1 DEF OwnFits, ClaimItem, At
  <2>3. jobs'[loc'[w].job].items[t] = "running"
    BY <1>4, <1>6, <2>1
  <2>4. jobs'[loc'[w].job].status # "completed"
    BY <1>2, <1>3, <1>4, <1>6, <2>1 DEF OwnFits, Unfinished
  <2> QED BY <1>4, <1>7, <2>1, <2>2, <2>3, <2>4 DEF OwnFits, At
<1> QED BY <1>1, <1>4, <1>5, <1>6, <1>7, <1>8, RunnerMoves DEF ClaimItem, RunPoints, WorkerPoints

LEMMA FinishStep ==
    ASSUME IInv, NEW w \in Workers, FinishItem(w)
    PROVE  IInv'
<1>1. pc[w] \in RunPoints
  BY DEF FinishItem, At, RunPoints, WorkerPoints
<1>2. /\ TypeOK /\ w \in Procs /\ Mine(w) = loc[w].job /\ Mine(w) \in Created
      /\ UNCHANGED coordinator => SlotMoves({w})
      /\ OwnFits(w)
  BY <1>1, RunnerFacts
<1>3. PICK t \in Tracks : /\ loc[w].tracks = {t}
                          /\ jobs[loc[w].job].items[t] \in {"running", "pending"}
  BY <1>2 DEF OwnFits, FinishItem
<1>4. PICK s \in {"done", "failed", "pending"} : Finish(loc[w].job, t, s)
  BY <1>2, <1>3 DEF FinishItem, Outcomes
<1>5. MovesTo(w, "report", loc[w])
  BY <1>2, Steps DEF FinishItem, Points, WorkerPoints
<1>6. /\ OneJobChanges(loc[w].job)
      /\ jobs'[loc[w].job].status = jobs[loc[w].job].status
      /\ jobs'[loc[w].job].background = jobs[loc[w].job].background
      /\ \A u \in Tracks : jobs'[loc[w].job].items[u] = IF u = t THEN s ELSE jobs[loc[w].job].items[u]
  BY <1>2, <1>4, ItemChange DEF ItemStates
<1>7. OwnFits(w)'
  <2>1. pc'[w] = "report" /\ loc'[w] = loc[w] /\ slot' = slot
    BY <1>5 DEF MovesTo, FinishItem, coordinator
  <2>2. \A u \in Tracks : jobs'[loc'[w].job].items[u] # "running"
    BY <1>2, <1>3, <1>6, <2>1 DEF OwnFits
  <2>3. jobs'[loc'[w].job].status # "completed"
    BY <1>2, <1>3, <1>6, <2>1 DEF OwnFits, Unfinished
  <2>4. Holds(w)' => Holds(w)
    BY <1>2, <2>1, Names DEF Holds, FinishItem, At, Importing
  <2> QED BY <1>2, <2>1, <2>2, <2>3, <2>4 DEF OwnFits, At
<1> QED BY <1>1, <1>2, <1>5, <1>6, <1>7, RunnerMoves DEF FinishItem, RunPoints, WorkerPoints

LEMMA RunnerReads ==
    ASSUME IInv, NEW w \in Workers, LoopEnds(w) \/ ReadStop(w) \/ ReadFinal(w)
    PROVE  IInv'
<1>1. pc[w] \in RunPoints
  BY DEF LoopEnds, ReadStop, ReadFinal, At, RunPoints, WorkerPoints
<1>2. /\ TypeOK /\ w \in Procs /\ Mine(w) = loc[w].job /\ Mine(w) \in Created
      /\ UNCHANGED coordinator => SlotMoves({w})
      /\ OwnFits(w) /\ loc[w] \in Local
  BY <1>1, RunnerFacts
<1>3. CASE LoopEnds(w)
  <2>1. MovesTo(w, "final", loc[w])
    BY <1>2, <1>3, Steps DEF LoopEnds, Points, WorkerPoints
  <2>2. pc'[w] = "final" /\ loc'[w] = loc[w] /\ jobs' = jobs /\ slot' = slot
    BY <1>3, <2>1 DEF MovesTo, LoopEnds, coordinator
  <2>3. Holds(w)' => Holds(w)
    BY <1>3, <2>2, Names DEF Holds, Background, Mine, LoopEnds, At, Importing
  <2>4. OwnFits(w)'
    BY <1>2, <1>3, <2>2, <2>3 DEF OwnFits, LoopEnds, At
  <2> QED BY <1>1, <1>2, <1>3, <2>1, <2>4, RunnerMoves DEF LoopEnds, RunPoints, WorkerPoints
<1>4. CASE ReadStop(w)
  <2> DEFINE l == [loc[w] EXCEPT !.tracks = {}, !.seen = IF Stopped THEN "pausing" ELSE "running"]
  <2>1. l \in Local /\ l.job = loc[w].job /\ l.seen \in {"pausing", "running"}
    BY <1>2 DEF Local, Statuses
  <2>2. GotoWith(w, "reported", l) /\ pc[w] = "report" /\ jobs' = jobs
    BY <1>4 DEF ReadStop, At
  <2> HIDE DEF l
  <2>3. MovesTo(w, "reported", l)
    BY <1>2, <2>1, <2>2, Steps DEF Points, WorkerPoints
  <2>4. pc'[w] = "reported" /\ loc'[w] = l
    BY <2>3 DEF MovesTo
  <2>5. SlotMoves({w}) /\ (~Background(w) => slot' = slot)
    BY <1>2, <1>4 DEF ReadStop, Release, SlotMoves, TypeOK
  <2>6. Holds(w)' => ~Background(w) /\ Holds(w)
    BY <2>1, <2>2, <2>4, Names DEF Holds, Background, Mine, Importing
  <2>7. OwnFits(w)'
    BY <1>2, <2>1, <2>2, <2>4, <2>5, <2>6 DEF OwnFits, At
  <2> QED BY <1>1, <1>4, <2>1, <2>3, <2>5, <2>7, RunnerMoves DEF ReadStop, RunPoints, WorkerPoints
<1>5. CASE ReadFinal(w)
  <2> DEFINE l == [loc[w] EXCEPT !.seen = FinalStatus(w)]
  <2>0. FinalStatus(w) \in FinalStatuses
    BY DEF FinalStatus, FinalStatuses
  <2>1. l \in Local /\ l.job = loc[w].job /\ l.seen = FinalStatus(w)
    BY <1>2, <2>0 DEF Local, Statuses, FinalStatuses
  <2>2. GotoWith(w, "finalize", l) /\ pc[w] = "final" /\ jobs' = jobs /\ slot' = slot
    BY <1>5 DEF ReadFinal, At, coordinator
  <2> HIDE DEF l
  <2>3. MovesTo(w, "finalize", l)
    BY <1>2, <2>1, <2>2, Steps DEF Points, WorkerPoints
  <2>4. pc'[w] = "finalize" /\ loc'[w] = l
    BY <2>3 DEF MovesTo
  <2>5. FinalStatus(w) = "completed" =>
          \A t \in Tracks : jobs[loc[w].job].items[t] \notin Unfinished
    BY <1>2 DEF FinalStatus, Items, Unfinished
  <2>6. Holds(w)' => Holds(w)
    BY <2>1, <2>2, <2>4, Names DEF Holds, Background, Mine, Importing
  <2>7. OwnFits(w)'
    BY <1>2, <2>0, <2>1, <2>2, <2>4, <2>5, <2>6 DEF OwnFits, At
  <2> QED BY <1>1, <1>2, <1>5, <2>1, <2>3, <2>7, RunnerMoves DEF ReadFinal, RunPoints, WorkerPoints
<1> QED BY <1>3, <1>4, <1>5

LEMMA RunnerWrites ==
    ASSUME IInv, NEW w \in Workers, WriteProgress(w) \/ WriteFinal(w)
    PROVE  IInv'
<1>1. pc[w] \in RunPoints
  BY DEF WriteProgress, WriteFinal, At, RunPoints, WorkerPoints
<1>2. /\ TypeOK /\ w \in Procs /\ Mine(w) = loc[w].job /\ Mine(w) \in Created
      /\ UNCHANGED coordinator => SlotMoves({w})
      /\ OwnFits(w) /\ loc[w] \in Local
  BY <1>1, RunnerFacts
<1>3. CASE WriteProgress(w)
  <2>1. MovesTo(w, "loop", loc[w])
    BY <1>2, <1>3, Steps DEF WriteProgress, Points, WorkerPoints
  <2>2. pc'[w] = "loop" /\ loc'[w] = loc[w] /\ slot' = slot
    BY <1>3, <2>1 DEF MovesTo, WriteProgress, coordinator
  <2>3. loc[w].seen \in {"pausing", "running"}
    BY <1>2, <1>3 DEF OwnFits, WriteProgress
  <2>4. /\ OneJobChanges(loc[w].job) /\ jobs'[loc[w].job].status = loc[w].seen
        /\ jobs'[loc[w].job].background = jobs[loc[w].job].background
        /\ jobs'[loc[w].job].items = jobs[loc[w].job].items
    BY <1>2, <1>3, <2>3, StatusChange DEF WriteProgress, Statuses
  <2>5. Holds(w)' => Holds(w)
    BY <1>3, <2>2, <2>4, Names DEF Holds, Background, Mine, WriteProgress, At, Importing
  <2>6. OwnFits(w)'
    BY <1>2, <1>3, <2>2, <2>3, <2>4, <2>5 DEF OwnFits, WriteProgress, At
  <2> QED BY <1>1, <1>2, <1>3, <2>1, <2>4, <2>6, RunnerMoves DEF WriteProgress, RunPoints, WorkerPoints
<1>4. CASE WriteFinal(w)
  <2>1. MovesTo(w, "ended", loc[w])
    BY <1>2, <1>4, Steps DEF WriteFinal, Points, WorkerPoints
  <2>2. pc'[w] = "ended" /\ loc'[w] = loc[w] /\ pc[w] = "finalize"
    BY <1>4, <2>1 DEF MovesTo, WriteFinal, At
  <2>3. loc[w].seen \in FinalStatuses
    BY <1>2, <1>4 DEF OwnFits, WriteFinal
  <2>4. /\ OneJobChanges(loc[w].job) /\ jobs'[loc[w].job].status = loc[w].seen
        /\ jobs'[loc[w].job].items = jobs[loc[w].job].items
    BY <1>2, <1>4, <2>3, StatusChange DEF WriteFinal, Statuses, FinalStatuses
  <2>5. SlotMoves({w})
    BY <1>2, <1>4 DEF WriteFinal, Release, SlotMoves, TypeOK
  <2>6. ~Holds(w)'
    BY <2>2, Names DEF Holds, Importing
  <2>7. OwnFits(w)'
    BY <1>2, <2>2, <2>3, <2>4, <2>6 DEF OwnFits, At, FinalStatuses
  <2> QED BY <1>1, <1>4, <2>1, <2>4, <2>5, <2>7, RunnerMoves DEF WriteFinal, RunPoints, WorkerPoints
<1> QED BY <1>3, <1>4

(* A step after which no thread runs a job.                                *)
LEMMA NobodyRuns ==
    ASSUME IInv, NEW p \in Procs, NEW x \in {"next", "launched"}, NEW l, MovesTo(p, x, l),
           UNCHANGED jobs, UNCHANGED slot,
           \A w \in Workers : w # p => pc[w] \notin RunPoints,
           \A j \in Created, t \in Tracks : jobs[j].items[t] # "running",
           x = "launched" => l.job \in Created
    PROVE  /\ Ordered' /\ HasJob' /\ SeenFits' /\ AtWork' /\ RunningItemsHaveAWorker'
           /\ CompletedMeansDone' /\ SeenDone' /\ SlotFits'
<1>1. Created' = Created /\ jobs' = jobs
  BY DEF Created
<1>2. \A w \in Workers : pc'[w] \notin RunPoints
  BY DEF MovesTo, RunPoints, WorkerPoints, Procs
<1>3. Ordered' /\ CompletedMeansDone'
  BY <1>1 DEF IInv, Ordered, CompletedMeansDone, Items
<1>4. HasJob'
  BY <1>1 DEF IInv, HasJob, MovesTo, JobPoints, RunPoints, WorkerPoints
<1>5. SeenFits' /\ AtWork' /\ SeenDone'
  BY <1>2 DEF SeenFits, AtWork, SeenDone, At, RunPoints, WorkerPoints
<1>6. RunningItemsHaveAWorker'
  BY <1>1 DEF RunningItemsHaveAWorker
<1>7. SlotFits'
  <2> SUFFICES ASSUME NEW q \in Procs, Holds(q)' PROVE slot' = q
    BY DEF SlotFits
  <2>1. q \in Callers /\ pc'[q] \in Importing
    BY <1>2 DEF Holds, RunPoints, WorkerPoints
  <2>2. q # p
    BY <2>1 DEF MovesTo, Importing
  <2>3. Holds(q)
    BY <2>1, <2>2 DEF Holds, MovesTo
  <2> QED BY <2>3 DEF IInv, SlotFits
<1> QED BY <1>3, <1>4, <1>5, <1>6, <1>7

LEMMA RunEndsStep ==
    ASSUME IInv, NEW w \in Workers, RunEnds(w)
    PROVE  IInv'
<1>1. pc[w] = "ended" /\ pc[w] \in RunPoints
  BY DEF RunEnds, At, RunPoints, WorkerPoints
<1>2. TypeOK /\ w \in Procs /\ Engaged(w) /\ loc[w].job \in Created /\ OwnFits(w)
      /\ running # NoJob /\ running.job = loc[w].job
  BY <1>1, RunnerFacts DEF Engaged, Mine
<1>3. \A q \in Procs : Engaged(q) => q = w
  BY <1>2, OnlyOneEngaged
<1>4. MovesTo(w, "next", NoLocal)
  BY <1>2, Steps, LocalsAre DEF RunEnds, Points, LaunchPoints
<1>5. \A v \in Workers : v # w => pc[v] \notin RunPoints
  BY <1>3 DEF Engaged, Procs
<1>6. \A j \in Created, t \in Tracks : jobs[j].items[t] # "running"
  BY <1>1, <1>2, OthersHaveNoRunningItem DEF OwnFits, At
<1>7. jobs' = jobs /\ slot' = slot
  BY DEF RunEnds, coordinator
<1>8. /\ Ordered' /\ HasJob' /\ SeenFits' /\ AtWork' /\ RunningItemsHaveAWorker'
      /\ CompletedMeansDone' /\ SeenDone' /\ SlotFits'
  BY <1>2, <1>4, <1>5, <1>6, <1>7, NobodyRuns
<1>9. TypeOK'
  BY <1>2, <1>4 DEF RunEnds, TypeOK, MovesTo, coordinator, Points
<1>10. Solo'
  BY <1>3, <1>4 DEF Solo, Engaged, MovesTo, At, RunPoints, WorkerPoints
<1>11. RunningIsRun'
  <2>1. \A j \in Created : jobs[j].status # "running"
    BY <1>1, <1>2 DEF IInv, RunningIsRun, OwnFits, At
  <2> QED BY <2>1, <1>7 DEF RunningIsRun, Created
<1> QED BY <1>8, <1>9, <1>10, <1>11 DEF IInv

LEMMA ClaimsStep ==
    ASSUME IInv, NEW p \in Procs, LaunchClaims(p)
    PROVE  IInv'
<1>0. CASE ~MayLaunch
  BY <1>0, ReadingSteps
<1>1. CASE MayLaunch
  <2>1. running = NoJob /\ \A q \in Procs : ~Engaged(q)
    BY <1>1, OnlyOneEngaged DEF MayLaunch, IsRunning
  <2>2. TypeOK /\ loc[p].job \in Created /\ pc[p] = "launch"
    BY DEF IInv, HasJob, LaunchClaims, At, JobPoints
  <2>3. /\ running' = [job |-> loc[p].job, background |-> jobs[loc[p].job].background,
                       stop |-> FALSE]
        /\ Goto(p, "launched")
        /\ UNCHANGED <<jobs, pauser, coordinator, crashes>>
    BY <1>1 DEF LaunchClaims
  <2>4. MovesTo(p, "launched", loc[p])
    BY <2>2, <2>3, Steps DEF Points, LaunchPoints
  <2>5. \A w \in Workers : pc[w] \notin RunPoints
    BY <2>1 DEF Engaged, Procs
  <2>6. \A j \in Created, t \in Tracks : jobs[j].items[t] # "running"
    BY <2>1, OthersHaveNoRunningItem
  <2>7. jobs' = jobs /\ slot' = slot
    BY <2>3 DEF coordinator
  <2>8. /\ Ordered' /\ HasJob' /\ SeenFits' /\ AtWork' /\ RunningItemsHaveAWorker'
        /\ CompletedMeansDone' /\ SeenDone' /\ SlotFits'
    BY <2>2, <2>4, <2>5, <2>6, <2>7, NobodyRuns
  <2>9. running' \in Running
    BY <2>2, <2>3, JobTypes DEF Running
  <2>10. TypeOK'
    BY <2>2, <2>3, <2>4, <2>9 DEF TypeOK, MovesTo, coordinator, Points
  <2>11. IsRunning' /\ running'.job = loc'[p].job
    BY <2>3, <2>4, <2>9, NoRecords DEF IsRunning, MovesTo
  <2>12. Solo'
    <3>1. \A q \in Procs : Engaged(q)' => q = p
      BY <2>1, <2>4 DEF Engaged, MovesTo, At
    <3> QED BY <3>1, <2>11 DEF Solo
  <2>13. RunningIsRun'
    BY <2>1, <2>7 DEF IInv, RunningIsRun, Created, IsRunning
  <2> QED BY <2>8, <2>10, <2>12, <2>13 DEF IInv
<1> QED BY <1>0, <1>1

LEMMA SpawnsStep ==
    ASSUME IInv, NEW p \in Procs, LaunchSpawns(p)
    PROVE  IInv'
<1>1. PICK w \in Workers :
        /\ pc[p] = "launched" /\ pc[w] = "off"
        /\ SetStatus(loc[p].job, "running")
        /\ pc' = [pc EXCEPT ![p] = Rest(p), ![w] = "run"]
        /\ loc' = [loc EXCEPT ![p] = NoLocal, ![w] = [NoLocal EXCEPT !.job = loc[p].job]]
        /\ UNCHANGED <<memory, coordinator, crashes>>
  BY DEF LaunchSpawns, At
<1>2. TypeOK /\ p # w /\ w \in Procs /\ {p, w} \in SUBSET Procs
  BY <1>1 DEF IInv, Procs
<1>3. /\ running # NoJob /\ running.job = loc[p].job /\ loc[p].job \in Created
      /\ Engaged(p) /\ \A q \in Procs : Engaged(q) => q = p
  BY <1>1, OnlyOneEngaged DEF Engaged, At
<1> DEFINE l == [NoLocal EXCEPT !.job = loc[p].job]
<1>4. l \in Local /\ l.job = loc[p].job /\ NoLocal \in Local
  BY <1>2, <1>3, JobTypes, LocalsAre
<1>5. loc' = [loc EXCEPT ![p] = NoLocal, ![w] = l]
  BY <1>1
<1> HIDE DEF l
<1>6. Rest(p) \in {"idle", "off"}
  BY DEF Rest
<1>7. pc'[p] \in {"idle", "off"} /\ pc'[w] = "run" /\ loc'[w] = l
  BY <1>1, <1>2, <1>5, <1>6 DEF TypeOK
<1>8. Moves({p, w})
  BY <1>1, <1>2, <1>4, <1>5, <1>6 DEF Moves, TypeOK, Points, CallerPoints, WorkerPoints
<1>9. /\ OneJobChanges(loc[p].job) /\ jobs'[loc[p].job].status = "running"
      /\ jobs'[loc[p].job].items = jobs[loc[p].job].items
  BY <1>1, <1>2, <1>3, StatusChange DEF Statuses
<1>10. \A t \in Tracks : jobs[loc[p].job].items[t] # "running"
  <2> SUFFICES ASSUME NEW t \in Tracks, jobs[loc[p].job].items[t] = "running" PROVE FALSE
    OBVIOUS
  <2>1. PICK v \in Workers : pc[v] = "work"
    BY <1>3 DEF IInv, RunningItemsHaveAWorker, At
  <2>2. v \in Procs /\ Engaged(v)
    BY <2>1 DEF Procs, Engaged, RunPoints, WorkerPoints
  <2> QED BY <2>1, <2>2, <1>1, <1>3
<1>11. ~Holds(w)'
  BY <1>7, Names DEF Holds, Importing
<1>12. OwnFits(w)'
  BY <1>4, <1>7, <1>9, <1>10, <1>11 DEF OwnFits, At
<1>13. SlotMoves({p, w})
  BY <1>1, Unchanged
<1>14. pc'[w] \in RunPoints /\ loc'[w].job = running.job
  BY <1>3, <1>4, <1>7 DEF RunPoints, WorkerPoints
<1> QED BY <1>1, <1>2, <1>3, <1>7, <1>8, <1>9, <1>12, <1>13, <1>14, EngagedStep

-----------------------------------------------------------------------------
(* A crash, and the start                                                  *)

LEMMA AtRest ==
    ASSUME TypeOK', Ordered',
           \A p \in Procs : pc'[p] \in {"idle", "off", "next"},
           \A j \in Created' : /\ jobs'[j].status # "running"
                               /\ \A t \in Tracks : jobs'[j].items[t] # "running",
           CompletedMeansDone'
    PROVE  IInv'
<1>1. HasJob' /\ SlotFits' /\ Solo'
  BY DEF HasJob, SlotFits, Solo, Holds, Engaged, Importing, JobPoints, RunPoints, WorkerPoints, At
<1>2. RunningIsRun' /\ RunningItemsHaveAWorker'
  BY DEF RunningIsRun, RunningItemsHaveAWorker
<1>3. SeenFits' /\ AtWork' /\ SeenDone'
  BY DEF SeenFits, AtWork, SeenDone, At, Procs
<1> QED BY <1>1, <1>2, <1>3 DEF IInv

LEMMA RecoveredIs ==
    ASSUME NEW job \in Job
    PROVE  /\ Recovered(job) \in Job
           /\ Recovered(job).status # "running"
           /\ Recovered(job).status = "completed" => job.status = "completed"
           /\ \A t \in Tracks : Recovered(job).items[t] =
                 IF job.items[t] = "running" THEN "pending" ELSE job.items[t]
<1>1. job # NoJob /\ job.items \in [Tracks -> ItemStates]
  BY NoRecords DEF Job
<1>2. Requeued(job.items, {"running"}) \in [Tracks -> ItemStates]
  BY <1>1 DEF Requeued, ItemStates
<1>3. \A t \in Tracks : Requeued(job.items, {"running"})[t] =
                 IF job.items[t] = "running" THEN "pending" ELSE job.items[t]
  BY <1>1 DEF Requeued
<1> QED BY <1>1, <1>2, <1>3 DEF Recovered, Job, Statuses

LEMMA CrashStep ==
    ASSUME IInv, CrashAndRestart
    PROVE  IInv'
<1>1. TypeOK
  BY DEF IInv
<1>2. \A j \in JobIds : /\ jobs[j] = NoJob => jobs'[j] = NoJob
                        /\ jobs[j] # NoJob => jobs[j] \in Job /\ jobs'[j] = Recovered(jobs[j])
  BY <1>1 DEF CrashAndRestart, TypeOK, Recovered
<1>a. \A j \in JobIds : (jobs'[j] = NoJob /\ jobs[j] = NoJob)
                       \/ (jobs'[j] \in Job /\ jobs[j] \in Job)
  <2> TAKE j \in JobIds
  <2>1. CASE jobs[j] = NoJob
    BY <1>2, <2>1
  <2>2. CASE jobs[j] # NoJob
    <3>1. jobs[j] \in Job /\ jobs'[j] = Recovered(jobs[j])
      BY <1>2, <2>2
    <3> QED BY <3>1, RecoveredIs
  <2> QED BY <2>1, <2>2
<1>3. jobs' \in [JobIds -> Job \cup {NoJob}]
  <2>1. jobs' = [j \in JobIds |-> Recovered(jobs[j])]
    BY DEF CrashAndRestart
  <2>2. \A j \in JobIds : jobs'[j] = Recovered(jobs[j])
    BY <2>1
  <2>3. \A j \in JobIds : Recovered(jobs[j]) \in Job \cup {NoJob}
    BY <1>a, <2>2
  <2> QED BY <2>1, <2>3
<1>4. Created' = Created
  BY <1>a, NoRecords DEF Created
<1>5. Ordered'
  BY <1>4 DEF IInv, Ordered
<1>6. \A p \in Procs : pc'[p] \in {"idle", "off", "next"}
  BY DEF CrashAndRestart, Rest
<1>7. \A j \in Created : jobs[j] \in Job /\ jobs'[j] = Recovered(jobs[j])
  BY <1>2 DEF Created
<1>8. \A j \in Created' : /\ jobs'[j].status # "running"
                          /\ \A t \in Tracks : jobs'[j].items[t] # "running"
  BY <1>4, <1>7, RecoveredIs
<1>9. CompletedMeansDone'
  <2> SUFFICES ASSUME NEW j \in Created', jobs'[j].status = "completed", NEW t \in Tracks
               PROVE  jobs'[j].items[t] \notin {"pending", "running", "failed"}
    BY DEF CompletedMeansDone, Items
  <2>1. jobs[j].status = "completed"
    BY <1>4, <1>7, RecoveredIs
  <2>2. jobs[j].items[t] \notin {"pending", "running", "failed"}
    BY <1>4, <2>1 DEF IInv, CompletedMeansDone, Items
  <2> QED BY <1>4, <1>7, <2>2, RecoveredIs
<1>10. TypeOK'
  <2>1. pc' \in [Procs -> Points] /\ loc' \in [Procs -> Local]
    BY LocalsAre DEF CrashAndRestart, Rest, Points, CallerPoints, LaunchPoints, WorkerPoints
  <2>2. crashes' \in 0 .. MaxCrashes
    BY <1>1, Bounds DEF CrashAndRestart, TypeOK
  <2> QED BY <1>3, <2>1, <2>2 DEF CrashAndRestart, TypeOK, Points
<1> QED BY <1>5, <1>6, <1>8, <1>9, <1>10, AtRest

(* The backend need not start with an empty queue: what it finds in the    *)
(* file may be anything a recovery leaves, a paused job of the user's with *)
(* items left for one.                                                     *)
StoredQueue ==
    /\ jobs \in [JobIds -> Job \cup {NoJob}] /\ Ordered /\ CompletedMeansDone
    /\ \A j \in Created : /\ jobs[j].status # "running"
                          /\ \A t \in Tracks : jobs[j].items[t] # "running"
Resting ==
    /\ running = NoJob /\ pauser = Nobody
    /\ slot = Nobody /\ preempt = FALSE /\ waiting = {} /\ ingest = FALSE
    /\ pc = [p \in Procs |-> IF p \in Callers THEN "idle" ELSE "off"]
    /\ loc = [p \in Procs |-> NoLocal]
    /\ crashes = 0

LEMMA StoredHolds == StoredQueue /\ Resting => IInv
<1> SUFFICES ASSUME StoredQueue, Resting PROVE IInv
  OBVIOUS
<1>1. \A p \in Procs : pc[p] \in {"idle", "off"}
  BY DEF Resting
<1>2. TypeOK
  <2>1. pc \in [Procs -> Points] /\ loc \in [Procs -> Local]
    BY LocalsAre DEF Resting, Points, CallerPoints, LaunchPoints, WorkerPoints
  <2>2. crashes \in 0 .. MaxCrashes
    BY Bounds DEF Resting
  <2> QED BY <2>1, <2>2 DEF StoredQueue, Resting, TypeOK, Points
<1>3. HasJob /\ SlotFits /\ Solo
  BY <1>1 DEF HasJob, SlotFits, Solo, Holds, Engaged, Importing, JobPoints, RunPoints, WorkerPoints, At
<1>4. Ordered /\ RunningIsRun /\ RunningItemsHaveAWorker /\ CompletedMeansDone
  BY DEF StoredQueue, RunningIsRun, RunningItemsHaveAWorker
<1>5. SeenFits /\ AtWork /\ SeenDone
  BY <1>1 DEF SeenFits, AtWork, SeenDone, At, Procs
<1> QED BY <1>2, <1>3, <1>4, <1>5 DEF IInv

LEMMA InitHolds == Init => IInv
<1> SUFFICES ASSUME Init PROVE StoredQueue /\ Resting
  BY StoredHolds
<1>1. Created = {}
  BY DEF Init, Created
<1> QED BY <1>1 DEF Init, StoredQueue, Resting, Ordered, CompletedMeansDone

LEMMA StutterStep == IInv /\ UNCHANGED vars => IInv'
<1> SUFFICES ASSUME IInv, UNCHANGED vars PROVE IInv'
  OBVIOUS
<1>1. crashes' \in 0 .. MaxCrashes /\ Moves({})
  BY DEF IInv, TypeOK, vars, Moves, Points
<1>2. Calm /\ SameRun /\ SlotMoves({})
  BY Unchanged DEF vars
<1> QED BY <1>1, <1>2, QuietStep

LEMMA NextKeeps == IInv /\ [Next]_vars => IInv'
<1> SUFFICES ASSUME IInv, [Next]_vars PROVE IInv'
  OBVIOUS
<1>1. ASSUME NEW c \in Callers, Request(c) PROVE IInv'
  BY <1>1, RequestsQuiet, Imports, Cancellation DEF Request
<1>2. ASSUME NEW c \in Callers, CallerStep(c) PROVE IInv'
  BY <1>2, DecisionsQuiet, ResumeAndPause, Creations, Imports DEF CallerStep
<1>3. ASSUME NEW w \in Workers, WorkerStep(w) PROVE IInv'
  BY <1>3, RunStarts, ClaimStep, RunnerReads, FinishStep, RunnerWrites, RunEndsStep DEF WorkerStep
<1>4. ASSUME NEW p \in Procs, LaunchStep(p) PROVE IInv'
  BY <1>4, ReadingSteps, ClaimsStep, SpawnsStep DEF LaunchStep
<1>5. CASE CrashAndRestart
  BY <1>5, CrashStep
<1>6. CASE UNCHANGED vars
  BY <1>6, StutterStep
<1> QED BY <1>1, <1>2, <1>3, <1>4, <1>5, <1>6 DEF Next

-----------------------------------------------------------------------------
(* The theorems                                                            *)

(* The invariant holds in every state of every behaviour.                  *)
THEOREM Invariance == Spec => []IInv
<1>1. IInv /\ [Next]_vars => IInv'
  BY NextKeeps
<1> QED BY <1>1, InitHolds, PTL DEF Spec

(* The variables keep their types.                                         *)
THEOREM TypeCorrect == Spec => []TypeOK
<1>1. IInv => TypeOK
  BY DEF IInv
<1> QED BY <1>1, Invariance, PTL

LEMMA InvGivesOneRunner == IInv => OneRunner
<1> SUFFICES ASSUME IInv PROVE OneRunner
  OBVIOUS
<1>1. \A w \in Workers : Runs(w) => w \in Procs /\ Engaged(w)
  BY DEF Runs, Engaged, Procs
<1> QED BY <1>1 DEF IInv, OneRunner, Solo, RunningIsRun, Mine

(* At most one thread runs a job, and it is the job that `running` names   *)
(* and the only one the file calls running: through launches that race,    *)
(* pauses and resumes of the same job, and crashes.                        *)
THEOREM OneRunnerHolds == Spec => []OneRunner
BY InvGivesOneRunner, Invariance, PTL

(* No item stays marked running without a thread that works on it.         *)
THEOREM RunningItemsHold == Spec => []RunningItemsHaveAWorker
<1>1. IInv => RunningItemsHaveAWorker
  BY DEF IInv
<1> QED BY <1>1, Invariance, PTL

(* A job reported completed has no item that is not done.                  *)
THEOREM CompletedHolds == Spec => []CompletedMeansDone
<1>1. IInv => CompletedMeansDone
  BY DEF IInv
<1> QED BY <1>1, Invariance, PTL

LEMMA InvGivesOneAnalysis == IInv => OneAnalysis
BY DEF IInv, SlotFits, Holds, OneAnalysis, At, Procs

(* Whoever is in the middle of a native analysis holds the slot, so there  *)
(* is one at a time between the jobs and the imports.                      *)
THEOREM OneAnalysisHolds == Spec => []OneAnalysis
BY InvGivesOneAnalysis, Invariance, PTL

(* The same promises from any such queue.                                  *)
THEOREM StoredQueueIsSafe ==
    StoredQueue /\ Resting /\ [][Next]_vars
        => [](OneRunner /\ RunningItemsHaveAWorker /\ CompletedMeansDone /\ OneAnalysis)
<1>1. IInv /\ [Next]_vars => IInv'
  BY NextKeeps
<1>2. IInv => OneRunner /\ RunningItemsHaveAWorker /\ CompletedMeansDone /\ OneAnalysis
  BY InvGivesOneRunner, InvGivesOneAnalysis DEF IInv
<1> QED BY <1>1, <1>2, StoredHolds, PTL

-----------------------------------------------------------------------------
(* What is done stays done                                                 *)

KeepsDone == \A j \in Created, t \in Tracks :
                 jobs[j].items[t] = "done" => jobs'[j].items[t] = "done"

LEMMA StatusKeepsDone ==
    ASSUME TypeOK, NEW j, NEW s, SetStatus(j, s)
    PROVE  KeepsDone
<1> SUFFICES ASSUME NEW i \in Created PROVE jobs'[i].items = jobs[i].items
  BY DEF KeepsDone
<1>1. i \in JobIds /\ jobs[i] \in Job
  BY JobTypes
<1>2. jobs'[i] = jobs[i] \/ jobs'[i] = [jobs[i] EXCEPT !.status = s]
  BY <1>1 DEF SetStatus, TypeOK
<1> QED BY <1>1, <1>2 DEF Job

LEMMA SameKeepsDone == jobs' = jobs => KeepsDone
BY DEF KeepsDone

LEMMA CalmKeepsDone == Calm => KeepsDone
BY DEF Calm, KeepsDone

LEMMA CallerKeepsDone ==
    ASSUME IInv, NEW c \in Callers, Request(c) \/ CallerStep(c)
    PROVE  KeepsDone
<1>1. TypeOK /\ c \in Procs /\ loc[c].tracks \in SUBSET Tracks
  BY ProcTypes DEF IInv, Procs
<1>2. CASE StartCreates(c) \/ EnqueueCreates(c)
  BY <1>1, <1>2, CreationCalm, CalmKeepsDone DEF StartCreates, EnqueueCreates, Create
<1>3. CASE PrepareResume(c)
  <2>1. loc[c].job \in Created
    BY <1>1, <1>3 DEF IInv, HasJob, PrepareResume, At, JobPoints
  <2> QED BY <1>3, <2>1, ItemsCalm, CalmKeepsDone DEF PrepareResume
<1>4. CASE Requeue(c) \/ PauseRecords(c)
  BY <1>1, <1>4, StatusKeepsDone DEF Requeue, PauseRecords
<1>5. CASE PauseIdle(c)
  <2>1. jobs' = jobs \/ SetStatus(loc[c].job, "paused")
    BY <1>5 DEF PauseIdle, SetStatus
  <2> QED BY <1>1, <2>1, StatusKeepsDone, SameKeepsDone
<1>6. CASE UNCHANGED jobs
  BY <1>6, SameKeepsDone
<1>7. Request(c) => UNCHANGED jobs
  BY DEF Request, Start, Resume, Pause, Enqueue, Ingest, AcquireWait, CancelIngest
<1>8. StartDecides(c) \/ OutOfJobs(c) \/ YieldBackground(c) \/ ResumeAllowed(c)
      \/ ResumeDecides(c) \/ PauseSignals(c) \/ ImportAcquires(c) \/ ImportKnocks(c)
      \/ ImportEnds(c) \/ CancelClears(c) => UNCHANGED jobs
  BY DEF StartDecides, OutOfJobs, YieldBackground, ResumeAllowed, ResumeDecides, PauseSignals,
         ImportAcquires, ImportKnocks, ImportEnds, CancelClears
<1> QED BY <1>2, <1>3, <1>4, <1>5, <1>6, <1>7, <1>8 DEF CallerStep

LEMMA WorkerKeepsDone ==
    ASSUME IInv, NEW w \in Workers, WorkerStep(w)
    PROVE  KeepsDone
<1>1. TypeOK /\ w \in Procs
  BY DEF IInv, Procs
<1>2. CASE RunGivesUp(w) \/ WriteProgress(w) \/ WriteFinal(w)
  BY <1>1, <1>2, StatusKeepsDone DEF RunGivesUp, WriteProgress, WriteFinal
<1>3. CASE ClaimItem(w) \/ FinishItem(w)
  <2>1. pc[w] \in RunPoints
    BY <1>3 DEF ClaimItem, FinishItem, At, RunPoints, WorkerPoints
  <2>2. Mine(w) = loc[w].job /\ Mine(w) \in Created /\ OwnFits(w)
    BY <2>1, RunnerFacts
  <2>3. \E t \in Tracks, s \in ItemStates :
          jobs[Mine(w)].items[t] \in {"running", "pending"} /\ Finish(Mine(w), t, s)
    <3>1. CASE ClaimItem(w)
      BY <3>1 DEF ClaimItem, Pending, Items, ItemStates
    <3>2. CASE FinishItem(w)
      <4>1. PICK t \in Tracks : /\ loc[w].tracks = {t}
                                /\ jobs[Mine(w)].items[t] \in {"running", "pending"}
        BY <2>2, <3>2 DEF OwnFits, FinishItem
      <4> QED BY <3>2, <4>1 DEF FinishItem, Outcomes, ItemStates
    <3> QED BY <1>3, <3>1, <3>2
  <2>4. PICK t \in Tracks, s \in ItemStates :
          jobs[Mine(w)].items[t] \in {"running", "pending"} /\ Finish(Mine(w), t, s)
    BY <2>3
  <2>5. /\ OneJobChanges(Mine(w))
        /\ \A u \in Tracks : jobs'[Mine(w)].items[u] = IF u = t THEN s ELSE jobs[Mine(w)].items[u]
    BY <1>1, <2>2, <2>4, ItemChange
  <2> QED BY <2>4, <2>5 DEF KeepsDone, OneJobChanges, Created
<1>4. RunBegins(w) \/ LoopEnds(w) \/ ReadStop(w) \/ ReadFinal(w) \/ RunEnds(w) => jobs' = jobs
  BY DEF RunBegins, LoopEnds, ReadStop, ReadFinal, RunEnds
<1> QED BY <1>2, <1>3, <1>4, SameKeepsDone DEF WorkerStep

LEMMA NextKeepsDone == IInv /\ [Next]_vars => KeepsDone
<1> SUFFICES ASSUME IInv, [Next]_vars PROVE KeepsDone
  OBVIOUS
<1>1. ASSUME NEW p \in Procs, LaunchStep(p) PROVE KeepsDone
  <2>1. jobs' = jobs \/ SetStatus(loc[p].job, "running")
    BY <1>1 DEF LaunchStep, LaunchNext, PickQueued, LaunchClaims, LaunchSpawns
  <2> QED BY <2>1, StatusKeepsDone, SameKeepsDone DEF IInv
<1>2. CASE CrashAndRestart
  <2> SUFFICES ASSUME NEW j \in Created, NEW t \in Tracks, jobs[j].items[t] = "done"
               PROVE  jobs'[j].items[t] = "done"
    BY DEF KeepsDone
  <2>1. j \in JobIds /\ jobs[j] \in Job /\ jobs'[j] = Recovered(jobs[j])
    BY <1>2, JobTypes DEF IInv, CrashAndRestart
  <2> QED BY <2>1, RecoveredIs
<1>3. CASE UNCHANGED vars
  BY <1>3, SameKeepsDone DEF vars
<1> QED BY <1>1, <1>2, <1>3, CallerKeepsDone, WorkerKeepsDone DEF Next

(* No step, a crash included, makes an item that is done anything else: a  *)
(* resume or a preemption never gives a job's finished track to analysis   *)
(* again.                                                                  *)
THEOREM DoneHolds == Spec => DoneStaysDone
<1>1. IInv /\ [Next]_vars =>
        [\A j \in Created, t \in Tracks :
           jobs[j].items[t] = "done" => jobs'[j].items[t] = "done"]_vars
  BY NextKeepsDone DEF KeepsDone
<1> QED BY <1>1, Invariance, PTL DEF Spec, DoneStaysDone
=============================================================================
