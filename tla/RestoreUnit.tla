------------------------------ MODULE RestoreUnit ------------------------------
(***************************************************************************)
(* The restore of a backup: restore_backup of routes/workflows.rs over     *)
(* restore_recovery.rs, and the recovery of startup.rs.                    *)
(*                                                                         *)
(* The library is a pair of files, the database and the analysis queue (a  *)
(* file stands for itself and its write-ahead log).  A restore replaces    *)
(* both while it holds the MaintenanceGuard of DbGate.  Three programs     *)
(* work on the pair: the swap, its rollback in the same process, and the   *)
(* recovery of the next start; each is a list of file operations, any of   *)
(* which can fail, be cut short by the end of the process, or be undone by *)
(* a loss of power as far as it was not synced.                            *)
(***************************************************************************)
EXTENDS Integers, FiniteSets, Sequences, SequencesExt

CONSTANTS Faults,      \* the kinds of calls that may fail
          MaxFaults,   \* bound: failing calls in a behaviour
          MaxCrashes,  \* bound: ends of the process in a behaviour
          Settles,     \* directory changes of a process that ended reach the disk
                       \* before the next start
          NoFile

ASSUME Settling == Settles \in BOOLEAN
ASSUME Bounds == MaxFaults \in Nat /\ MaxCrashes \in Nat
ASSUME FaultKinds == Faults \subseteq {"io", "remove", "parent"}

VARIABLES dir,       \* the names of the directory and the file each one is
          log,       \* the directories before the operations not yet synced
          content,   \* what a reader finds in a file
          disk,      \* what a loss of power may leave in it
          task, at,  \* the program under way and its next operation
          shape,     \* which of the two pairs has a queue file
          answer,    \* what restore_backup has answered
          edited,    \* somebody has worked with the library since
          faults, crashes

files == <<dir, log, content, disk>>
control == <<task, at, answer>>
vars == <<files, control, shape, edited, faults, crashes>>

Names == {"db", "queue", "rollback", "queue_rollback", "replacement", "marker"}
Inodes == Names \X (1 .. 3)   \* a file: the name it was created under, and a number
Tasks == {"open", "restore", "swap", "rollback", "recover", "closed", "down", "stuck"}
Contents == {"old", "new", "old_edited", "new_edited", "torn", "marker"}
ASSUME NoFileIsNone == NoFile \notin Inodes \cup Contents
Old == {"old", "old_edited"}
New == {"new", "new_edited"}

-----------------------------------------------------------------------------
(* Files                                                                   *)

Exists(name) == dir[name] # NoFile
Read(name) == IF Exists(name) THEN content[dir[name]] ELSE NoFile

(* The directories that a loss of power may leave.                         *)
Possible == Range(log) \cup {dir}

Free(name) == CHOOSE i \in {name} \X (1 .. 3) :
                  \A d \in Possible : \A other \in Names : d[other] # i

(* A name is added, moved or removed.                                      *)
Relink(d) == dir' = d /\ log' = Append(log, dir)

(* A copy: it creates the file or overwrites it in place.                  *)
Write(name, value) ==
    LET i == IF Exists(name) THEN dir[name] ELSE Free(name)
    IN /\ content' = [content EXCEPT ![i] = value]
       /\ disk' = [disk EXCEPT ![i] = (IF Exists(name) THEN @ ELSE {}) \cup {"torn", value}]
       /\ IF Exists(name) THEN UNCHANGED <<dir, log>> ELSE Relink([dir EXCEPT ![name] = i])

Rename(from, to) ==
    /\ Relink([dir EXCEPT ![to] = dir[from], ![from] = NoFile])
    /\ UNCHANGED <<content, disk>>

Unlink(name) ==
    /\ IF Exists(name) THEN Relink([dir EXCEPT ![name] = NoFile]) ELSE UNCHANGED <<dir, log>>
    /\ UNCHANGED <<content, disk>>

Sync(names) ==
    /\ disk' = [i \in Inodes |-> IF \E name \in names : dir[name] = i THEN {content[i]} ELSE disk[i]]
    /\ UNCHANGED <<dir, log, content>>

SyncParent ==
    log' = <<>> /\ UNCHANGED <<dir, content, disk>>

-----------------------------------------------------------------------------
(* The three programs                                                      *)

Save == <<"save_db", "save_queue", "prepare", "persist", "mark", "sync_parent">>
FinishUnsynced == <<"sync_parent", "unmark">>
Finish == <<"sync_parent", "unmark", "sync_parent">>

ProgramUnsynced(t) ==
    CASE t = "restore"  -> Save
      [] t = "swap"     -> <<"replace", "drop_queue", "new_queue", "reopen">> \o Finish
      [] t = "rollback" -> <<"copy_back", "drop_queue", "old_queue", "reopen">> \o Finish
      [] t = "recover"  -> <<"copy_back", "drop_queue", "old_queue">> \o Finish
ProgramKeepsMarker(t) ==
    CASE t = "restore"  -> Save
      [] t = "swap"     -> <<"replace", "drop_queue", "new_queue", "sync", "reopen">> \o Finish
      [] t = "rollback" -> <<"copy_back", "drop_queue", "old_queue", "sync", "reopen">>
      [] t = "recover"  -> <<"copy_back", "drop_queue", "old_queue", "sync">> \o Finish
Program(t) ==
    CASE t = "restore"  -> Save
      [] t = "swap"     -> <<"replace", "drop_queue", "new_queue", "sync", "reopen">> \o Finish
      [] t = "rollback" -> <<"copy_back", "drop_queue", "old_queue", "sync", "reopen">> \o Finish
      [] t = "recover"  -> <<"copy_back", "drop_queue", "old_queue", "sync">> \o Finish

Programs == {"restore", "swap", "rollback", "recover"}
Op == IF task \in Programs THEN Program(task)[at] ELSE "none"

QueueExisted == "old" \in shape
QueueStaged == "new" \in shape

Effect(op) ==
    CASE op = "save_db"     -> Write("rollback", Read("db"))
      [] op = "save_queue"  -> IF QueueExisted THEN Write("queue_rollback", Read("queue"))
                               ELSE UNCHANGED files
      [] op = "prepare"     -> Write("replacement", "new")
      [] op = "persist"     -> Sync({"rollback", "queue_rollback"})
      [] op = "mark"        -> LET i == Free("marker")
                               IN /\ Relink([dir EXCEPT !["marker"] = i])
                                  /\ content' = [content EXCEPT ![i] = "marker"]
                                  /\ disk' = [disk EXCEPT ![i] = {"marker"}]
      [] op = "replace"     -> Rename("replacement", "db")
      [] op = "drop_queue"  -> Unlink("queue")
      [] op = "new_queue"   -> IF QueueStaged THEN Write("queue", "new") ELSE UNCHANGED files
      [] op = "copy_back"   -> Write("db", Read("rollback"))
      [] op = "old_queue"   -> IF QueueExisted THEN Write("queue", Read("queue_rollback"))
                               ELSE UNCHANGED files
      [] op = "sync"        -> Sync({"db", "queue"})
      [] op = "reopen"      -> UNCHANGED files
      [] op = "sync_parent" -> SyncParent
      [] op = "unmark"      -> Unlink("marker")

(* What an operation that does not come to its end may have done.          *)
Target(op) ==
    CASE op = "save_db"                    -> "rollback"
      [] op = "save_queue"                 -> "queue_rollback"
      [] op = "prepare"                    -> "replacement"
      [] op \in {"new_queue", "old_queue"} -> "queue"
      [] op = "copy_back"                  -> "db"
      [] OTHER                             -> "none"

PartOf(op) ==
    \/ UNCHANGED files
    \/ Target(op) # "none" /\ Write(Target(op), "torn")

-----------------------------------------------------------------------------
Init ==
    /\ shape \in SUBSET {"old", "new"}
    /\ dir = [name \in Names |-> CASE name = "db" -> <<"db", 1>>
                                   [] name = "queue" /\ "old" \in shape -> <<"queue", 1>>
                                   [] OTHER -> NoFile]
    /\ log = <<>>
    /\ content = [i \in Inodes |-> "old"] /\ disk = [i \in Inodes |-> {"old"}]
    /\ task = "open" /\ at = 1 /\ answer = "none"
    /\ edited = FALSE
    /\ faults = 0 /\ crashes = 0

Begin(t) == task' = t /\ at' = 1

Restore ==
    /\ task = "open" /\ answer = "none"
    /\ Begin("restore") /\ answer' = "pending"
    /\ UNCHANGED <<files, shape, edited, faults, crashes>>

(* The next operation succeeds; the end of a program is the beginning of   *)
(* the next or an answer.                                                  *)
Ended ==
    CASE task = "restore"  -> Begin("swap") /\ UNCHANGED answer
      [] task = "swap"     -> Begin("open") /\ answer' = "restored"
      [] task = "rollback" -> Begin("open") /\ answer' = "failed"
      [] task = "recover"  -> Begin("open") /\ UNCHANGED answer

Step ==
    /\ task \in Programs
    /\ Effect(Op)
    /\ IF at < Len(Program(task)) THEN at' = at + 1 /\ UNCHANGED <<task, answer>> ELSE Ended
    /\ UNCHANGED <<shape, edited, faults, crashes>>

(* It fails.  Before the swap and in the rollback an error returns with    *)
(* the handle as it is, closed or reopened; in the swap it begins the      *)
(* rollback; in a recovery it ends the process.                            *)
Reopened == at > 5
Failed ==
    CASE task = "restore"  -> Begin("closed") /\ answer' = "failed"
      [] task = "swap"     -> Begin("rollback") /\ UNCHANGED answer
      [] task = "rollback" -> Begin(IF Reopened THEN "open" ELSE "closed") /\ answer' = "failed"
      [] task = "recover"  -> Begin("down") /\ UNCHANGED answer

Kind(op) == CASE op = "drop_queue" -> "remove" [] op = "sync_parent" -> "parent" [] OTHER -> "io"

Fault ==
    /\ task \in Programs /\ faults < MaxFaults /\ Kind(Op) \in Faults
    /\ faults' = faults + 1
    /\ PartOf(Op)
    /\ IF Op = "drop_queue" /\ task # "recover"
       THEN at' = at + 1 /\ UNCHANGED <<task, answer>>   \* the error is ignored
       ELSE Failed
    /\ UNCHANGED <<shape, edited, crashes>>

(* Somebody works with the open library: its database commits are synced.  *)
Edit ==
    /\ task = "open" /\ ~edited /\ Read("db") \in {"old", "new"} /\ answer # "none"
    /\ edited' = TRUE
    /\ LET i == dir["db"]
           value == IF content[i] = "old" THEN "old_edited" ELSE "new_edited"
       IN content' = [content EXCEPT ![i] = value] /\ disk' = [disk EXCEPT ![i] = {value}]
    /\ UNCHANGED <<dir, log, control, shape, faults, crashes>>

-----------------------------------------------------------------------------
(* The process ends, or the machine loses power.                           *)
Crash ==
    /\ crashes < MaxCrashes /\ task \notin {"stuck", "down"}
    /\ crashes' = crashes + 1
    /\ IF task \in Programs THEN PartOf(Op) ELSE UNCHANGED files
    /\ Begin("down")
    /\ UNCHANGED <<answer, shape, edited, faults>>

Unsynced == {i \in Inodes : Cardinality(disk[i]) > 1}

PowerLoss ==
    /\ crashes < MaxCrashes /\ task # "stuck"
    /\ crashes' = crashes + 1
    /\ dir' \in Possible
    /\ \E c \in [Unsynced -> Contents] :
          /\ \A i \in Unsynced : c[i] \in disk[i]
          /\ content' = [i \in Inodes |-> IF i \in Unsynced THEN c[i] ELSE content[i]]
    /\ log' = <<>> /\ disk' = [i \in Inodes |-> {content'[i]}]
    /\ Begin("down")
    /\ UNCHANGED <<answer, shape, edited, faults>>

HasBothRollbacks == Exists("rollback") /\ Exists("queue_rollback")
HasRollback == Exists("rollback") /\ (QueueExisted => Exists("queue_rollback"))

Startup ==
    /\ task = "down"
    /\ Begin(IF ~Exists("marker") THEN "open" ELSE IF HasRollback THEN "recover" ELSE "stuck")
    /\ log' = IF Settles THEN <<>> ELSE log
    /\ UNCHANGED <<dir, content, disk, answer, shape, edited, faults, crashes>>

Next == Restore \/ Step \/ Fault \/ Edit \/ Crash \/ PowerLoss \/ Startup

Spec == Init /\ [][Next]_vars

(* A restore and a recovery run on, and a process that ended is started    *)
(* again.                                                                  *)
FairSpec == Spec /\ WF_vars(Step) /\ WF_vars(Startup)

-----------------------------------------------------------------------------
TypeOK ==
    /\ dir \in [Names -> Inodes \cup {NoFile}]
    /\ log \in Seq([Names -> Inodes \cup {NoFile}])
    /\ content \in [Inodes -> Contents]
    /\ disk \in [Inodes -> SUBSET Contents]
    /\ task \in Tasks /\ at \in 1 .. 8
    /\ shape \in SUBSET {"old", "new"}
    /\ answer \in {"none", "pending", "restored", "failed"}
    /\ edited \in BOOLEAN
    /\ faults \in 0 .. MaxFaults /\ crashes \in 0 .. MaxCrashes

OldPair == Read("db") \in Old /\ Read("queue") = (IF QueueExisted THEN "old" ELSE NoFile)
NewPair == Read("db") \in New /\ Read("queue") = (IF QueueStaged THEN "new" ELSE NoFile)

(* README: "when the process ends during a restore the next start brings   *)
(* both databases back": whoever opens the library finds the two files of  *)
(* one pair, whole, whatever failed and wherever the process or the power  *)
(* went.                                                                   *)
PairIsWhole == task = "open" => OldPair \/ NewPair

(* What restore_backup answered stays true: a restore that was reported    *)
(* done is not undone by a loss of power, one that was reported failed is  *)
(* not found done after a restart.                                         *)
TheAnswerHolds ==
    task = "open" =>
        /\ answer = "restored" => NewPair
        /\ answer = "failed" => OldPair

(* Work done after a restore, however that ended, is not rolled back by a  *)
(* later start that finds a marker left behind.                            *)
EditsSurvive == task = "open" /\ edited => Read("db") \in {"old_edited", "new_edited"}

(* However often it is interrupted, a start ends with an open library.     *)
LibraryReopens == task \in {"down", "recover"} ~> task = "open"

=============================================================================
