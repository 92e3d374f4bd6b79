------------------------- MODULE RestoreUnitProofs -------------------------
(***************************************************************************)
(* What every opening of the library finds, for any number of failing      *)
(* calls and any number of ends of the process or of the power, if the     *)
(* directory changes of a process that ended settle before the next start  *)
(* and neither the sync of the directory nor the removal of the old queue  *)
(* fails: the two files of one pair, and what restore_backup answered.     *)
(***************************************************************************)
EXTENDS RestoreUnit, SequenceTheorems, TLAPS

-----------------------------------------------------------------------------
(* The invariant.  It speaks of the set D of directories that a loss of    *)
(* power may leave, of the directory d in use, of the content ct a reader  *)
(* finds and of the contents dk that a loss of power may leave in a file.  *)

(* The database file is a library's own or the replacement, every other    *)
(* file was created under its name: no two of them share a file.           *)
Dirs == {d \in [Names -> Inodes \cup {NoFile}] :
            /\ d["db"] \in {"db", "replacement"} \X (1 .. 3)
            /\ \A name \in Names \ {"db"} : d[name] \in ({name} \X (1 .. 3)) \cup {NoFile}}

Holds(dk, d, name, values) == d[name] # NoFile /\ dk[d[name]] \subseteq values
Reads(ct, d, name, value) == d[name] # NoFile /\ ct[d[name]] = value

DurableOld(sh, dk, d) ==
    /\ dk[d["db"]] \subseteq Old
    /\ IF "old" \in sh THEN Holds(dk, d, "queue", {"old"}) ELSE d["queue"] = NoFile
DurableNew(sh, dk, d) ==
    /\ dk[d["db"]] \subseteq New
    /\ IF "new" \in sh THEN Holds(dk, d, "queue", {"new"}) ELSE d["queue"] = NoFile

(* The copies a recovery starts from, and the marker that starts it.       *)
Saved(sh, dk, d) ==
    /\ Holds(dk, d, "rollback", {"old"})
    /\ "old" \in sh => Holds(dk, d, "queue_rollback", {"old"})
Guarded(sh, dk, d) == d["marker"] # NoFile /\ Saved(sh, dk, d)

(* What any start can make a pair of.                                      *)
Crashproof(sh, D, dk) ==
    \A d \in D : IF d["marker"] = NoFile THEN DurableOld(sh, dk, d) \/ DurableNew(sh, dk, d)
                                         ELSE Saved(sh, dk, d)

(* A number is left for one more file of a name, and for two queue files.  *)
Vacant(D, name) == \E i \in {name} \X (1 .. 3) : \A d \in D : d[name] # i
Rooms(D) == \E i, j \in {"queue"} \X (1 .. 3) :
               i # j /\ \A d \in D : d["queue"] # i /\ d["queue"] # j

(* The pair as the restore found it.                                       *)
Pristine(sh, dk, d) ==
    /\ DurableOld(sh, dk, d) /\ dk[d["db"]] \subseteq {"old"}
    /\ d["db"][1] = "db"

(* The restore before its operation at_: the pair is untouched.            *)
Saving(at_, sh, D, d, ct, dk) ==
    /\ \A e \in D :
          /\ Pristine(sh, dk, e)
          /\ at_ <= 1 => e["rollback"] = NoFile
          /\ at_ <= 2 => e["queue_rollback"] = NoFile
          /\ at_ <= 3 => e["replacement"] = NoFile
          /\ at_ <= 5 => e["marker"] = NoFile
          /\ e["marker"] # NoFile => Saved(sh, dk, e)
    /\ Rooms(D)
    /\ at_ > 1 => Reads(ct, d, "rollback", "old")
    /\ at_ > 2 /\ "old" \in sh => Reads(ct, d, "queue_rollback", "old")
    /\ at_ > 3 => Reads(ct, d, "replacement", "new")
    /\ at_ > 4 => Saved(sh, dk, d)
    /\ at_ > 5 => d["marker"] # NoFile

(* The swap: until the marker is removed every start takes it back.        *)
Swapping(at_, sh, D, d, ct, dk) ==
    /\ at_ <= 7 => \A e \in D : Guarded(sh, dk, e)
    /\ at_ <= 3 => Rooms(D)
    /\ Vacant(D, "queue")
    /\ at_ = 1 => Reads(ct, d, "replacement", "new")
    /\ at_ > 1 => ct[d["db"]] = "new"
    /\ at_ = 3 => d["queue"] = NoFile
    /\ at_ > 3 => IF "new" \in sh THEN Reads(ct, d, "queue", "new") ELSE d["queue"] = NoFile
    /\ at_ > 4 => DurableNew(sh, dk, d)
    /\ at_ > 7 => d["marker"] = NoFile

(* The rollback, and the recovery, which has no "reopen".                  *)
Reverting(at_, sh, D, d, ct, dk) ==
    /\ at_ <= 7 => \A e \in D : Guarded(sh, dk, e)
    /\ at_ <= 3 => Vacant(D, "queue")
    /\ at_ > 1 => ct[d["db"]] = "old"
    /\ at_ = 3 => d["queue"] = NoFile
    /\ at_ > 3 => IF "old" \in sh THEN Reads(ct, d, "queue", "old") ELSE d["queue"] = NoFile
    /\ at_ > 4 => DurableOld(sh, dk, d)
    /\ at_ = 7 => D = {d}
    /\ at_ > 7 => d["marker"] = NoFile
Place(t, at_) == IF t = "recover" /\ at_ > 4 THEN at_ + 1 ELSE at_

(* An open library: one directory, one pair, and a marker only after a     *)
(* rollback that could not remove it.                                      *)
Opened(sh, D, d, dk, ans, fl) ==
    /\ D = {d}
    /\ DurableOld(sh, dk, d) \/ DurableNew(sh, dk, d)
    /\ d["marker"] # NoFile => fl >= 2 /\ ans = "failed"

Underway(t, at_, sh, D, d, ct, dk, ans, fl) ==
    /\ t = "open" => Opened(sh, D, d, dk, ans, fl)
    /\ t = "restore" => at_ \in 1 .. 6 /\ ans = "pending" /\ Saving(at_, sh, D, d, ct, dk)
    /\ t = "swap" => at_ \in 1 .. 8 /\ ans = "pending" /\ Swapping(at_, sh, D, d, ct, dk)
    /\ t = "rollback" => at_ \in 1 .. 8 /\ ans = "pending" /\ fl >= 1
                         /\ Reverting(at_, sh, D, d, ct, dk)
    /\ t = "recover" => at_ \in 1 .. 7 /\ Reverting(Place(t, at_), sh, D, d, ct, dk)
    /\ t # "stuck"

Answered(t, sh, D, d, ct, dk, ans, ed) ==
    /\ ans = "none" => t \in {"open", "down"} /\ D = {d} /\ ~ed /\ Saving(1, sh, D, d, ct, dk)
    /\ ans = "restored" =>
          t \in {"open", "down"} /\ D = {d} /\ d["marker"] = NoFile /\ DurableNew(sh, dk, d)
    /\ ans = "failed" =>
          /\ \A e \in D : e["marker"] = NoFile => DurableOld(sh, dk, e)
          /\ t = "open" => DurableOld(sh, dk, d)

WorkKept(t, D, d, dk, ed, fl) ==
    ed /\ fl <= 1 =>
        /\ t \in {"open", "down"} /\ D = {d} /\ d["marker"] = NoFile
        /\ dk[d["db"]] \subseteq {"old_edited", "new_edited"}

FilesOK ==
    /\ log \in Seq(Dirs) /\ dir \in Dirs
    /\ content \in [Inodes -> Contents] /\ disk \in [Inodes -> SUBSET Contents]
    /\ \A i \in Inodes : content[i] \in disk[i]

ControlOK ==
    /\ task \in Tasks /\ at \in 1 .. 8 /\ shape \in SUBSET {"old", "new"}
    /\ answer \in {"none", "pending", "restored", "failed"} /\ edited \in BOOLEAN
    /\ faults \in 0 .. MaxFaults /\ crashes \in 0 .. MaxCrashes

IInv ==
    /\ FilesOK
    /\ ControlOK
    /\ Crashproof(shape, Possible, disk)
    /\ Underway(task, at, shape, Possible, dir, content, disk, answer, faults)
    /\ Answered(task, shape, Possible, dir, content, disk, answer, edited)
    /\ WorkKept(task, Possible, dir, disk, edited, faults)

USE NoFileIsNone

-----------------------------------------------------------------------------
(* Names, directories and programs.                                        *)
LEMMA FileNames ==
  ASSUME NEW name \in Names, NEW i \in {name} \X (1 .. 3)
  PROVE  i \in Inodes /\ i # NoFile /\ i[1] = name
BY DEF Inodes, Names

LEMMA DirFacts ==
  ASSUME NEW d \in Dirs
  PROVE  /\ d \in [Names -> Inodes \cup {NoFile}]
         /\ d["db"] \in Inodes /\ d["db"] # NoFile /\ d["db"][1] \in {"db", "replacement"}
         /\ \A name \in Names \ {"db"} :
               d[name] # NoFile => d[name] \in Inodes /\ d[name][1] = name
<1>1. d["db"] \in {"db"} \X (1 .. 3) \/ d["db"] \in {"replacement"} \X (1 .. 3)
  BY DEF Dirs
<1>2. "db" \in Names /\ "replacement" \in Names
  BY DEF Names
<1>3. d["db"] \in Inodes /\ d["db"] # NoFile /\ d["db"][1] \in {"db", "replacement"}
  BY <1>1, <1>2, FileNames
<1>4. ASSUME NEW name \in Names \ {"db"}, d[name] # NoFile
      PROVE  d[name] \in Inodes /\ d[name][1] = name
  <2>1. d[name] \in {name} \X (1 .. 3)
    BY <1>4 DEF Dirs
  <2> QED
    BY <2>1, FileNames
<1>5. d \in [Names -> Inodes \cup {NoFile}]
  BY DEF Dirs
<1> QED
  BY <1>3, <1>4, <1>5

(* A name is linked to a file created under it, or removed.                *)
LEMMA DirLinked ==
  ASSUME NEW d \in Dirs, NEW name \in Names, NEW i,
         i \in {name} \X (1 .. 3) \/ (i = NoFile /\ name # "db")
  PROVE  /\ [d EXCEPT ![name] = i] \in Dirs
         /\ [d EXCEPT ![name] = i][name] = i
         /\ \A other \in Names \ {name} : [d EXCEPT ![name] = i][other] = d[other]
<1> DEFINE e == [d EXCEPT ![name] = i]
<1>1. i \in Inodes \cup {NoFile}
  BY FileNames
<1>2. d \in [Names -> Inodes \cup {NoFile}]
  BY DirFacts
<1>3. /\ e \in [Names -> Inodes \cup {NoFile}]
      /\ e[name] = i
      /\ \A other \in Names \ {name} : e[other] = d[other]
  BY <1>1, <1>2
<1> HIDE DEF e
<1>4. "db" \in Names
  BY DEF Names
<1>5. e["db"] \in {"db", "replacement"} \X (1 .. 3)
  <2>1. CASE name = "db"
    BY <1>3, <2>1
  <2>2. CASE name # "db"
    <3>1. d["db"] \in {"db", "replacement"} \X (1 .. 3)
      BY DEF Dirs
    <3> QED
      BY <1>3, <1>4, <2>2, <3>1
  <2> QED
    BY <2>1, <2>2
<1>6. ASSUME NEW n \in Names \ {"db"}
      PROVE  e[n] \in ({n} \X (1 .. 3)) \cup {NoFile}
  <2>1. CASE n = name
    BY <1>3, <2>1
  <2>2. CASE n # name
    <3>1. d[n] \in ({n} \X (1 .. 3)) \cup {NoFile}
      BY DEF Dirs
    <3> QED
      BY <1>3, <2>2, <3>1
  <2> QED
    BY <2>1, <2>2
<1>7. e \in Dirs
  BY <1>3, <1>5, <1>6 DEF Dirs
<1> QED
  BY <1>3, <1>7 DEF e

(* The replacement becomes the database.                                   *)
LEMMA DirReplaced ==
  ASSUME NEW d \in Dirs, d["replacement"] # NoFile
  PROVE  LET e == [d EXCEPT !["db"] = d["replacement"], !["replacement"] = NoFile]
         IN /\ e \in Dirs
            /\ e["db"] = d["replacement"] /\ e["replacement"] = NoFile
            /\ \A other \in Names \ {"db", "replacement"} : e[other] = d[other]
<1> DEFINE e == [d EXCEPT !["db"] = d["replacement"], !["replacement"] = NoFile]
<1>1. d \in [Names -> Inodes \cup {NoFile}]
  BY DirFacts
<1>2. d["replacement"] \in {"replacement"} \X (1 .. 3)
  BY DEF Dirs, Names
<1>3. "db" \in Names /\ "replacement" \in Names /\ d["replacement"] \in Inodes
  BY <1>2, FileNames DEF Names
<1>4. /\ e \in [Names -> Inodes \cup {NoFile}]
      /\ e["db"] = d["replacement"] /\ e["replacement"] = NoFile
      /\ \A other \in Names \ {"db", "replacement"} : e[other] = d[other]
  BY <1>1, <1>3
<1> HIDE DEF e
<1>5. e["db"] \in {"db", "replacement"} \X (1 .. 3)
  BY <1>2, <1>4
<1>6. ASSUME NEW n \in Names \ {"db"}
      PROVE  e[n] \in ({n} \X (1 .. 3)) \cup {NoFile}
  <2>1. CASE n = "replacement"
    BY <1>4, <2>1
  <2>2. CASE n # "replacement"
    <3>1. d[n] \in ({n} \X (1 .. 3)) \cup {NoFile}
      BY DEF Dirs
    <3> QED
      BY <1>4, <2>2, <3>1
  <2> QED
    BY <2>1, <2>2
<1>7. e \in Dirs
  BY <1>4, <1>5, <1>6 DEF Dirs
<1> QED
  BY <1>4, <1>7 DEF e

Operations == {"save_db", "save_queue", "prepare", "persist", "mark", "replace",
               "drop_queue", "new_queue", "copy_back", "old_queue", "sync", "reopen",
               "sync_parent", "unmark"}

(* The end that the swap, the rollback and the recovery have in common.    *)
LEMMA Finishing ==
  ASSUME NEW start \in Seq(Operations)
  PROVE  /\ Len(start \o Finish) = Len(start) + 3
         /\ \A k \in 1 .. Len(start) : (start \o Finish)[k] = start[k]
         /\ (start \o Finish)[Len(start) + 1] = "sync_parent"
         /\ (start \o Finish)[Len(start) + 2] = "unmark"
         /\ (start \o Finish)[Len(start) + 3] = "sync_parent"
<1>1. Finish \in Seq(Operations)
  <2>1. "sync_parent" \in Operations /\ "unmark" \in Operations
    BY DEF Operations
  <2> QED
    BY <2>1 DEF Finish
<1>2. /\ Len(Finish) = 3 /\ Len(start) \in Nat
      /\ Finish[1] = "sync_parent" /\ Finish[2] = "unmark" /\ Finish[3] = "sync_parent"
  BY DEF Finish
<1> HIDE DEF Finish
<1>3. /\ Len(start \o Finish) = Len(start) + Len(Finish)
      /\ \A k \in 1 .. Len(start) + Len(Finish) :
            (start \o Finish)[k] = IF k <= Len(start) THEN start[k] ELSE Finish[k - Len(start)]
  BY <1>1, ConcatProperties
<1> QED
  BY <1>2, <1>3

LEMMA ProgramIs ==
  /\ Len(Program("restore")) = 6
  /\ Program("restore")[1] = "save_db" /\ Program("restore")[2] = "save_queue"
  /\ Program("restore")[3] = "prepare" /\ Program("restore")[4] = "persist"
  /\ Program("restore")[5] = "mark" /\ Program("restore")[6] = "sync_parent"
  /\ Len(Program("swap")) = 8
  /\ Program("swap")[1] = "replace" /\ Program("swap")[2] = "drop_queue"
  /\ Program("swap")[3] = "new_queue" /\ Program("swap")[4] = "sync"
  /\ Program("swap")[5] = "reopen" /\ Program("swap")[6] = "sync_parent"
  /\ Program("swap")[7] = "unmark" /\ Program("swap")[8] = "sync_parent"
  /\ Len(Program("rollback")) = 8
  /\ Program("rollback")[1] = "copy_back" /\ Program("rollback")[2] = "drop_queue"
  /\ Program("rollback")[3] = "old_queue" /\ Program("rollback")[4] = "sync"
  /\ Program("rollback")[5] = "reopen" /\ Program("rollback")[6] = "sync_parent"
  /\ Program("rollback")[7] = "unmark" /\ Program("rollback")[8] = "sync_parent"
  /\ Len(Program("recover")) = 7
  /\ Program("recover")[1] = "copy_back" /\ Program("recover")[2] = "drop_queue"
  /\ Program("recover")[3] = "old_queue" /\ Program("recover")[4] = "sync"
  /\ Program("recover")[5] = "sync_parent" /\ Program("recover")[6] = "unmark"
  /\ Program("recover")[7] = "sync_parent"
<1> DEFINE Swap == <<"replace", "drop_queue", "new_queue", "sync", "reopen">>
           Back == <<"copy_back", "drop_queue", "old_queue", "sync", "reopen">>
           Recovery == <<"copy_back", "drop_queue", "old_queue", "sync">>
<1>1. /\ Swap \in Seq(Operations) /\ Len(Swap) = 5
      /\ Back \in Seq(Operations) /\ Len(Back) = 5
      /\ Recovery \in Seq(Operations) /\ Len(Recovery) = 4
  BY DEF Operations
<1>2. /\ Swap[1] = "replace" /\ Swap[2] = "drop_queue" /\ Swap[3] = "new_queue"
      /\ Swap[4] = "sync" /\ Swap[5] = "reopen"
      /\ Back[1] = "copy_back" /\ Back[2] = "drop_queue" /\ Back[3] = "old_queue"
      /\ Back[4] = "sync" /\ Back[5] = "reopen"
      /\ Recovery[1] = "copy_back" /\ Recovery[2] = "drop_queue" /\ Recovery[3] = "old_queue"
      /\ Recovery[4] = "sync"
  OBVIOUS
<1>3. /\ Program("restore") = Save
      /\ Program("swap") = Swap \o Finish
      /\ Program("rollback") = Back \o Finish
      /\ Program("recover") = Recovery \o Finish
  BY DEF Program
<1>4. /\ Len(Save) = 6
      /\ Save[1] = "save_db" /\ Save[2] = "save_queue" /\ Save[3] = "prepare"
      /\ Save[4] = "persist" /\ Save[5] = "mark" /\ Save[6] = "sync_parent"
  BY DEF Save
<1> HIDE DEF Swap, Back, Recovery
<1>5. /\ Len(Swap \o Finish) = 8
      /\ (Swap \o Finish)[1] = "replace" /\ (Swap \o Finish)[2] = "drop_queue"
      /\ (Swap \o Finish)[3] = "new_queue" /\ (Swap \o Finish)[4] = "sync"
      /\ (Swap \o Finish)[5] = "reopen" /\ (Swap \o Finish)[6] = "sync_parent"
      /\ (Swap \o Finish)[7] = "unmark" /\ (Swap \o Finish)[8] = "sync_parent"
  <2>1. Swap \in Seq(Operations) /\ Len(Swap) = 5
    BY <1>1
  <2>2. /\ Len(Swap \o Finish) = Len(Swap) + 3
        /\ \A k \in 1 .. Len(Swap) : (Swap \o Finish)[k] = Swap[k]
        /\ (Swap \o Finish)[Len(Swap) + 1] = "sync_parent"
        /\ (Swap \o Finish)[Len(Swap) + 2] = "unmark"
        /\ (Swap \o Finish)[Len(Swap) + 3] = "sync_parent"
    BY <2>1, Finishing, Zenon
  <2>3. /\ Len(Swap \o Finish) = 8
        /\ \A k \in 1 .. 5 : (Swap \o Finish)[k] = Swap[k]
        /\ (Swap \o Finish)[6] = "sync_parent"
        /\ (Swap \o Finish)[7] = "unmark"
        /\ (Swap \o Finish)[8] = "sync_parent"
    BY <2>1, <2>2
  <2>4. /\ 1 \in 1 .. 5 /\ 2 \in 1 .. 5 /\ 3 \in 1 .. 5 /\ 4 \in 1 .. 5 /\ 5 \in 1 .. 5
    OBVIOUS
  <2> QED
    BY <1>2, <2>3, <2>4
<1>6. /\ Len(Back \o Finish) = 8
      /\ (Back \o Finish)[1] = "copy_back" /\ (Back \o Finish)[2] = "drop_queue"
      /\ (Back \o Finish)[3] = "old_queue" /\ (Back \o Finish)[4] = "sync"
      /\ (Back \o Finish)[5] = "reopen" /\ (Back \o Finish)[6] = "sync_parent"
      /\ (Back \o Finish)[7] = "unmark" /\ (Back \o Finish)[8] = "sync_parent"
  <2>1. Back \in Seq(Operations) /\ Len(Back) = 5
    BY <1>1
  <2>2. /\ Len(Back \o Finish) = Len(Back) + 3
        /\ \A k \in 1 .. Len(Back) : (Back \o Finish)[k] = Back[k]
        /\ (Back \o Finish)[Len(Back) + 1] = "sync_parent"
        /\ (Back \o Finish)[Len(Back) + 2] = "unmark"
        /\ (Back \o Finish)[Len(Back) + 3] = "sync_parent"
    BY <2>1, Finishing, Zenon
  <2>3. /\ Len(Back \o Finish) = 8
        /\ \A k \in 1 .. 5 : (Back \o Finish)[k] = Back[k]
        /\ (Back \o Finish)[6] = "sync_parent"
        /\ (Back \o Finish)[7] = "unmark"
        /\ (Back \o Finish)[8] = "sync_parent"
    BY <2>1, <2>2
  <2>4. /\ 1 \in 1 .. 5 /\ 2 \in 1 .. 5 /\ 3 \in 1 .. 5 /\ 4 \in 1 .. 5 /\ 5 \in 1 .. 5
    OBVIOUS
  <2> QED
    BY <1>2, <2>3, <2>4
<1>7. /\ Len(Recovery \o Finish) = 7
      /\ (Recovery \o Finish)[1] = "copy_back" /\ (Recovery \o Finish)[2] = "drop_queue"
      /\ (Recovery \o Finish)[3] = "old_queue" /\ (Recovery \o Finish)[4] = "sync"
      /\ (Recovery \o Finish)[5] = "sync_parent" /\ (Recovery \o Finish)[6] = "unmark"
      /\ (Recovery \o Finish)[7] = "sync_parent"
  <2>1. Recovery \in Seq(Operations) /\ Len(Recovery) = 4
    BY <1>1
  <2>2. /\ Len(Recovery \o Finish) = Len(Recovery) + 3
        /\ \A k \in 1 .. Len(Recovery) : (Recovery \o Finish)[k] = Recovery[k]
        /\ (Recovery \o Finish)[Len(Recovery) + 1] = "sync_parent"
        /\ (Recovery \o Finish)[Len(Recovery) + 2] = "unmark"
        /\ (Recovery \o Finish)[Len(Recovery) + 3] = "sync_parent"
    BY <2>1, Finishing, Zenon
  <2>3. /\ Len(Recovery \o Finish) = 7
        /\ \A k \in 1 .. 4 : (Recovery \o Finish)[k] = Recovery[k]
        /\ (Recovery \o Finish)[5] = "sync_parent"
        /\ (Recovery \o Finish)[6] = "unmark"
        /\ (Recovery \o Finish)[7] = "sync_parent"
    BY <2>1, <2>2
  <2>4. /\ 1 \in 1 .. 4 /\ 2 \in 1 .. 4 /\ 3 \in 1 .. 4 /\ 4 \in 1 .. 4
    OBVIOUS
  <2> QED
    BY <1>2, <2>3, <2>4
<1>8. /\ Len(Program("restore")) = 6
      /\ Program("restore")[1] = "save_db" /\ Program("restore")[2] = "save_queue"
      /\ Program("restore")[3] = "prepare" /\ Program("restore")[4] = "persist"
      /\ Program("restore")[5] = "mark" /\ Program("restore")[6] = "sync_parent"
  BY <1>3, <1>4
<1>9. /\ Len(Program("swap")) = 8
      /\ Program("swap")[1] = "replace" /\ Program("swap")[2] = "drop_queue"
      /\ Program("swap")[3] = "new_queue" /\ Program("swap")[4] = "sync"
      /\ Program("swap")[5] = "reopen" /\ Program("swap")[6] = "sync_parent"
      /\ Program("swap")[7] = "unmark" /\ Program("swap")[8] = "sync_parent"
  BY <1>3, <1>5
<1>10. /\ Len(Program("rollback")) = 8
      /\ Program("rollback")[1] = "copy_back" /\ Program("rollback")[2] = "drop_queue"
      /\ Program("rollback")[3] = "old_queue" /\ Program("rollback")[4] = "sync"
      /\ Program("rollback")[5] = "reopen" /\ Program("rollback")[6] = "sync_parent"
      /\ Program("rollback")[7] = "unmark" /\ Program("rollback")[8] = "sync_parent"
  BY <1>3, <1>6
<1>11. /\ Len(Program("recover")) = 7
      /\ Program("recover")[1] = "copy_back" /\ Program("recover")[2] = "drop_queue"
      /\ Program("recover")[3] = "old_queue" /\ Program("recover")[4] = "sync"
      /\ Program("recover")[5] = "sync_parent" /\ Program("recover")[6] = "unmark"
      /\ Program("recover")[7] = "sync_parent"
  BY <1>3, <1>7
<1> QED
  BY <1>8, <1>9, <1>10, <1>11

-----------------------------------------------------------------------------
(* What the operations on files do.                                        *)
Kinds(name) == IF name = "db" THEN {"db", "replacement"} ELSE {name}

(* One file was written, under a new name or in place.                     *)
Wrote(name, value) ==
    /\ FilesOK'
    /\ Possible' = Possible \cup {dir'}
    /\ dir'[name] # NoFile /\ content'[dir'[name]] = value
    /\ \A other \in Names \ {name} : dir'[other] = dir[other]
    /\ \A i \in Inodes : i[1] \notin Kinds(name) => content'[i] = content[i] /\ disk'[i] = disk[i]

(* Names changed, no file did.                                             *)
Linked ==
    /\ FilesOK'
    /\ Possible' = Possible \cup {dir'}
    /\ content' = content /\ disk' = disk

LEMMA PossibleDirs ==
  ASSUME FilesOK
  PROVE  Possible \subseteq Dirs /\ dir \in Possible
BY DEF FilesOK, Possible, Range

LEMMA Logged ==
  ASSUME log \in Seq(Dirs), dir \in Dirs, NEW e \in Dirs, Relink(e)
  PROVE  dir' = e /\ log' \in Seq(Dirs) /\ Possible' = Possible \cup {dir'}
<1>1. dir' = e /\ log' = Append(log, dir)
  BY DEF Relink
<1>2. /\ log' \in Seq(Dirs) /\ Len(log') = Len(log) + 1 /\ Len(log) \in Nat
      /\ \A k \in 1 .. Len(log) : log'[k] = log[k]
      /\ log'[Len(log) + 1] = dir
  BY <1>1, AppendProperties
<1>3. DOMAIN log' = 1 .. Len(log) + 1 /\ DOMAIN log = 1 .. Len(log)
  BY <1>2
<1>4. Range(log') = Range(log) \cup {dir}
  <2>1. ASSUME NEW d \in Range(log') PROVE d \in Range(log) \cup {dir}
    <3>1. PICK k \in 1 .. Len(log) + 1 : d = log'[k]
      BY <1>3 DEF Range
    <3>2. CASE k = Len(log) + 1
      BY <1>2, <3>1, <3>2
    <3>3. CASE k # Len(log) + 1
      <4>1. k \in 1 .. Len(log)
        BY <1>2, <3>3
      <4> QED
        BY <1>2, <1>3, <3>1, <4>1 DEF Range
    <3> QED
      BY <3>2, <3>3
  <2>2. ASSUME NEW d \in Range(log) PROVE d \in Range(log')
    <3>1. PICK k \in 1 .. Len(log) : d = log[k]
      BY <1>3 DEF Range
    <3>2. k \in 1 .. Len(log) + 1
      BY <1>2
    <3> QED
      BY <1>2, <1>3, <3>1, <3>2 DEF Range
  <2>3. dir \in Range(log')
    <3>1. Len(log) + 1 \in 1 .. Len(log) + 1
      BY <1>2
    <3> QED
      BY <1>2, <1>3, <3>1 DEF Range
  <2> QED
    BY <2>1, <2>2, <2>3
<1>5. Possible' = Range(log') \cup {dir'} /\ Possible = Range(log) \cup {dir}
  BY DEF Possible
<1> QED
  BY <1>1, <1>2, <1>4, <1>5

LEMMA FreeIs ==
  ASSUME FilesOK, NEW name \in Names \ {"db"}, Vacant(Possible, name),
         name = "replacement" => \A d \in Possible : d["db"][1] = "db"
  PROVE  Free(name) \in {name} \X (1 .. 3)
<1>1. PICK i \in {name} \X (1 .. 3) : \A d \in Possible : d[name] # i
  BY DEF Vacant
<1>2. i[1] = name /\ i # NoFile
  BY FileNames
<1>3. ASSUME NEW d \in Possible, NEW other \in Names PROVE d[other] # i
  <2>1. d \in Dirs
    BY PossibleDirs
  <2>2. CASE other = name
    BY <1>1, <2>2
  <2>3. CASE other = "db"
    BY <1>2, <2>1, <2>3, DirFacts
  <2>4. CASE other \notin {name, "db"}
    BY <1>2, <2>1, <2>4, DirFacts
  <2> QED
    BY <2>2, <2>3, <2>4
<1>4. \E j \in {name} \X (1 .. 3) : \A d \in Possible : \A other \in Names : d[other] # j
  BY <1>3
<1> QED
  BY <1>4 DEF Free

LEMMA WriteIs ==
  ASSUME FilesOK, NEW name \in Names, NEW value \in Contents, Write(name, value),
         Exists(name) \/ (name # "db" /\ Free(name) \in {name} \X (1 .. 3))
  PROVE  Wrote(name, value) /\ (Exists(name) => dir' = dir)
<1> DEFINE i == IF Exists(name) THEN dir[name] ELSE Free(name)
           left == (IF Exists(name) THEN disk[i] ELSE {}) \cup {"torn", value}
<1>1. dir \in Dirs
  BY DEF FilesOK
<1>2. i \in Inodes /\ i # NoFile /\ i[1] \in Kinds(name)
  <2>1. CASE Exists(name)
    BY <1>1, <2>1, DirFacts DEF Exists, Kinds
  <2>2. CASE ~Exists(name)
    BY <2>2, FileNames DEF Kinds
  <2> QED
    BY <2>1, <2>2
<1>3. /\ content' = [content EXCEPT ![i] = value]
      /\ disk' = [disk EXCEPT ![i] = left]
  BY DEF Write
<1>4. left \in SUBSET Contents /\ value \in left
  BY <1>2 DEF FilesOK, Contents
<1>5. /\ dir' \in Dirs /\ log' \in Seq(Dirs) /\ Possible' = Possible \cup {dir'}
      /\ dir'[name] = i /\ \A other \in Names \ {name} : dir'[other] = dir[other]
      /\ Exists(name) => dir' = dir
  <2>1. CASE Exists(name)
    <3>1. dir' = dir /\ log' = log
      BY <2>1 DEF Write
    <3>2. Possible' = Possible
      BY <3>1 DEF Possible
    <3> QED
      BY <1>1, <2>1, <3>1, <3>2, PossibleDirs DEF FilesOK
  <2>2. CASE ~Exists(name)
    <3>1. i \in {name} \X (1 .. 3)
      BY <2>2
    <3>2. Relink([dir EXCEPT ![name] = i])
      BY <2>2 DEF Write
    <3> HIDE DEF i
    <3>3. /\ [dir EXCEPT ![name] = i] \in Dirs
          /\ [dir EXCEPT ![name] = i][name] = i
          /\ \A other \in Names \ {name} : [dir EXCEPT ![name] = i][other] = dir[other]
      BY <1>1, <3>1, DirLinked
    <3>4. /\ dir' = [dir EXCEPT ![name] = i] /\ log' \in Seq(Dirs)
          /\ Possible' = Possible \cup {dir'}
      BY <1>1, <3>2, <3>3, Logged DEF FilesOK
    <3> QED
      BY <2>2, <3>3, <3>4
  <2> QED
    BY <2>1, <2>2
<1> HIDE DEF i, left
<1>6. /\ content' \in [Inodes -> Contents] /\ content'[i] = value
      /\ \A j \in Inodes \ {i} : content'[j] = content[j]
  BY <1>2, <1>3 DEF FilesOK
<1>7. /\ disk' \in [Inodes -> SUBSET Contents] /\ disk'[i] = left
      /\ \A j \in Inodes \ {i} : disk'[j] = disk[j]
  BY <1>2, <1>3, <1>4 DEF FilesOK
<1>8. \A j \in Inodes : content'[j] \in disk'[j]
  BY <1>4, <1>6, <1>7 DEF FilesOK
<1>9. FilesOK'
  BY <1>5, <1>6, <1>7, <1>8 DEF FilesOK
<1>10. \A j \in Inodes : j[1] \notin Kinds(name) => content'[j] = content[j] /\ disk'[j] = disk[j]
  BY <1>2, <1>6, <1>7
<1> QED
  BY <1>2, <1>5, <1>6, <1>9, <1>10 DEF Wrote

LEMMA MarkIs ==
  ASSUME FilesOK, Vacant(Possible, "marker"), Effect("mark")
  PROVE  Wrote("marker", "marker")
<1> DEFINE i == Free("marker")
<1>1. dir \in Dirs /\ "marker" \in Names
  BY DEF FilesOK, Names
<1>2. i \in {"marker"} \X (1 .. 3)
  BY <1>1, FreeIs
<1>3. i \in Inodes /\ i # NoFile /\ i[1] = "marker"
  BY <1>1, <1>2, FileNames
<1>4. /\ Relink([dir EXCEPT !["marker"] = i])
      /\ content' = [content EXCEPT ![i] = "marker"]
      /\ disk' = [disk EXCEPT ![i] = {"marker"}]
  BY DEF Effect
<1> HIDE DEF i
<1>5. /\ [dir EXCEPT !["marker"] = i] \in Dirs
      /\ [dir EXCEPT !["marker"] = i]["marker"] = i
      /\ \A other \in Names \ {"marker"} : [dir EXCEPT !["marker"] = i][other] = dir[other]
  BY <1>1, <1>2, DirLinked
<1>6. /\ dir' \in Dirs /\ log' \in Seq(Dirs) /\ Possible' = Possible \cup {dir'}
      /\ dir'["marker"] = i
      /\ \A other \in Names \ {"marker"} : dir'[other] = dir[other]
  BY <1>1, <1>4, <1>5, Logged DEF FilesOK
<1>7. /\ content' \in [Inodes -> Contents] /\ content'[i] = "marker"
      /\ \A j \in Inodes \ {i} : content'[j] = content[j]
  BY <1>3, <1>4 DEF FilesOK, Contents
<1>8. {"marker"} \in SUBSET Contents
  BY DEF Contents
<1>9. /\ disk' \in [Inodes -> SUBSET Contents] /\ disk'[i] = {"marker"}
      /\ \A j \in Inodes \ {i} : disk'[j] = disk[j]
  BY <1>3, <1>4, <1>8 DEF FilesOK
<1>10. \A j \in Inodes : content'[j] \in disk'[j]
  BY <1>7, <1>9 DEF FilesOK
<1>11. FilesOK'
  BY <1>6, <1>7, <1>9, <1>10 DEF FilesOK
<1> QED
  BY <1>3, <1>6, <1>7, <1>9, <1>11 DEF Wrote, Kinds

LEMMA UnlinkIs ==
  ASSUME FilesOK, NEW name \in Names \ {"db"}, Unlink(name)
  PROVE  /\ Linked /\ dir'[name] = NoFile
         /\ \A other \in Names \ {name} : dir'[other] = dir[other]
<1>1. dir \in Dirs /\ content' = content /\ disk' = disk
  BY DEF FilesOK, Unlink
<1>2. CASE Exists(name)
  <2>1. Relink([dir EXCEPT ![name] = NoFile])
    BY <1>2 DEF Unlink
  <2>2. /\ [dir EXCEPT ![name] = NoFile] \in Dirs
        /\ [dir EXCEPT ![name] = NoFile][name] = NoFile
        /\ \A other \in Names \ {name} : [dir EXCEPT ![name] = NoFile][other] = dir[other]
    BY <1>1, DirLinked
  <2>3. /\ dir' = [dir EXCEPT ![name] = NoFile] /\ log' \in Seq(Dirs)
        /\ Possible' = Possible \cup {dir'}
    BY <1>1, <2>1, <2>2, Logged DEF FilesOK
  <2> QED
    BY <1>1, <2>2, <2>3 DEF Linked, FilesOK
<1>3. CASE ~Exists(name)
  <2>1. dir' = dir /\ log' = log
    BY <1>3 DEF Unlink
  <2>2. Possible' = Possible /\ dir \in Possible
    BY <2>1, PossibleDirs DEF Possible
  <2> QED
    BY <1>1, <1>3, <2>1, <2>2 DEF Linked, FilesOK, Exists
<1> QED
  BY <1>2, <1>3

LEMMA ReplaceIs ==
  ASSUME FilesOK, dir["replacement"] # NoFile, Rename("replacement", "db")
  PROVE  /\ Linked /\ dir'["db"] = dir["replacement"]
         /\ \A other \in Names \ {"db", "replacement"} : dir'[other] = dir[other]
<1> DEFINE e == [dir EXCEPT !["db"] = dir["replacement"], !["replacement"] = NoFile]
<1>1. Relink(e) /\ content' = content /\ disk' = disk
  BY DEF Rename
<1>2. /\ e \in Dirs
      /\ e["db"] = dir["replacement"] /\ e["replacement"] = NoFile
      /\ \A other \in Names \ {"db", "replacement"} : e[other] = dir[other]
  BY DirReplaced DEF FilesOK
<1> HIDE DEF e
<1>3. dir' = e /\ log' \in Seq(Dirs) /\ Possible' = Possible \cup {dir'}
  BY <1>1, <1>2, Logged DEF FilesOK
<1> QED
  BY <1>1, <1>2, <1>3 DEF Linked, FilesOK

LEMMA SyncIs ==
  ASSUME FilesOK, NEW names \in SUBSET Names, Sync(names)
  PROVE  /\ FilesOK' /\ dir' = dir /\ Possible' = Possible /\ content' = content
         /\ \A i \in Inodes : disk'[i] \subseteq disk[i]
         /\ \A name \in names : dir[name] # NoFile => disk'[dir[name]] = {content[dir[name]]}
<1>1. /\ dir' = dir /\ log' = log /\ content' = content
      /\ disk' = [i \in Inodes |->
                    IF \E name \in names : dir[name] = i THEN {content[i]} ELSE disk[i]]
  BY DEF Sync
<1>2. Possible' = Possible
  BY <1>1 DEF Possible
<1>3. \A i \in Inodes : content[i] \in disk[i] /\ content[i] \in Contents
                        /\ disk[i] \in SUBSET Contents
  BY DEF FilesOK
<1>4. disk' \in [Inodes -> SUBSET Contents]
  BY <1>1, <1>3
<1>5. \A i \in Inodes : disk'[i] \subseteq disk[i] /\ content[i] \in disk'[i]
  BY <1>1, <1>3
<1>6. ASSUME NEW name \in names, dir[name] # NoFile
      PROVE  disk'[dir[name]] = {content[dir[name]]}
  <2>1. dir[name] \in Inodes
    BY <1>6, DirFacts DEF FilesOK
  <2> QED
    BY <1>1, <2>1
<1> QED
  BY <1>1, <1>2, <1>4, <1>5, <1>6 DEF FilesOK

LEMMA SyncParentIs ==
  ASSUME FilesOK, SyncParent
  PROVE  /\ FilesOK' /\ dir' = dir /\ Possible' = {dir}
         /\ content' = content /\ disk' = disk
<1>1. dir' = dir /\ log' = << >> /\ content' = content /\ disk' = disk
  BY DEF SyncParent
<1>2. << >> \in Seq(Dirs) /\ Range(<< >>) = {}
  BY DEF Range
<1>3. Possible' = {dir}
  BY <1>1, <1>2 DEF Possible
<1> QED
  BY <1>1, <1>2, <1>3 DEF FilesOK

LEMMA StartupIs ==
  ASSUME FilesOK, Settles, Startup
  PROVE  /\ FilesOK' /\ dir' = dir /\ Possible' = {dir}
         /\ content' = content /\ disk' = disk
<1>1. dir' = dir /\ log' = << >> /\ content' = content /\ disk' = disk
  BY DEF Startup
<1>2. << >> \in Seq(Dirs) /\ Range(<< >>) = {}
  BY DEF Range
<1>3. Possible' = {dir}
  BY <1>1, <1>2 DEF Possible
<1> QED
  BY <1>1, <1>2, <1>3 DEF FilesOK

LEMMA PowerLossIs ==
  ASSUME FilesOK, PowerLoss
  PROVE  /\ FilesOK' /\ dir' \in Possible /\ Possible' = {dir'}
         /\ \A i \in Inodes : disk'[i] \subseteq disk[i]
<1>1. dir' \in Possible /\ log' = << >> /\ disk' = [i \in Inodes |-> {content'[i]}]
  BY DEF PowerLoss
<1>2. << >> \in Seq(Dirs) /\ Range(<< >>) = {}
  BY DEF Range
<1>3. Possible' = {dir'}
  BY <1>1, <1>2 DEF Possible
<1>4. PICK c \in [Unsynced -> Contents] :
         /\ \A i \in Unsynced : c[i] \in disk[i]
         /\ content' = [i \in Inodes |-> IF i \in Unsynced THEN c[i] ELSE content[i]]
  BY DEF PowerLoss
<1>5. \A i \in Inodes : content'[i] \in disk[i] /\ content'[i] \in Contents
  BY <1>4 DEF FilesOK
<1>6. content' \in [Inodes -> Contents]
  BY <1>4, <1>5
<1>7. /\ disk' \in [Inodes -> SUBSET Contents]
      /\ \A i \in Inodes : content'[i] \in disk'[i] /\ disk'[i] \subseteq disk[i]
  BY <1>1, <1>5
<1>8. dir' \in Dirs
  BY <1>1, PossibleDirs
<1> QED
  BY <1>1, <1>2, <1>3, <1>6, <1>7, <1>8 DEF FilesOK

LEMMA NothingIs ==
  ASSUME FilesOK, UNCHANGED files
  PROVE  /\ FilesOK' /\ Linked /\ dir' = dir /\ Possible' = Possible
<1>1. dir' = dir /\ log' = log /\ content' = content /\ disk' = disk
  BY DEF files
<1>2. Possible' = Possible /\ dir \in Possible
  BY <1>1, PossibleDirs DEF Possible
<1> QED
  BY <1>1, <1>2 DEF FilesOK, Linked

-----------------------------------------------------------------------------
(* What they leave alone.                                                  *)
LEMMA WroteOther ==
  ASSUME FilesOK, NEW name \in Names, NEW value, Wrote(name, value),
         NEW n \in Names \ {name}, {n, name} # {"db", "replacement"}, NEW d \in Possible
  PROVE  /\ dir'[n] = dir[n]
         /\ d[n] # NoFile => content'[d[n]] = content[d[n]] /\ disk'[d[n]] = disk[d[n]]
<1>1. dir'[n] = dir[n]
  BY DEF Wrote
<1>2. ASSUME d[n] # NoFile
      PROVE  d[n] \in Inodes /\ d[n][1] \notin Kinds(name)
  <2>1. d \in Dirs
    BY PossibleDirs
  <2>2. CASE n = "db"
    <3>1. d["db"] \in Inodes /\ d["db"][1] \in {"db", "replacement"}
      BY <2>1, DirFacts
    <3>2. name # "db" /\ name # "replacement"
      BY <2>2
    <3> QED
      BY <2>2, <3>1, <3>2 DEF Kinds
  <2>3. CASE n # "db"
    <3>1. d[n] \in Inodes /\ d[n][1] = n
      BY <1>2, <2>1, <2>3, DirFacts
    <3>2. n \notin Kinds(name)
      BY <2>3 DEF Kinds
    <3> QED
      BY <3>1, <3>2
  <2> QED
    BY <2>2, <2>3
<1> QED
  BY <1>1, <1>2 DEF Wrote

LEMMA SavedKept ==
  ASSUME NEW sh, NEW d \in Dirs, NEW e \in Dirs, NEW dk1, NEW dk2,
         e["rollback"] = d["rollback"], e["queue_rollback"] = d["queue_rollback"],
         \A i \in Inodes : i[1] \in {"rollback", "queue_rollback"} => dk2[i] \subseteq dk1[i],
         Saved(sh, dk1, d)
  PROVE  Saved(sh, dk2, e)
<1>1. "rollback" \in Names \ {"db"} /\ "queue_rollback" \in Names \ {"db"}
  BY DEF Names
<1>2. ASSUME d["rollback"] # NoFile
      PROVE  dk2[d["rollback"]] \subseteq dk1[d["rollback"]]
  BY <1>1, <1>2, DirFacts
<1>3. ASSUME d["queue_rollback"] # NoFile
      PROVE  dk2[d["queue_rollback"]] \subseteq dk1[d["queue_rollback"]]
  BY <1>1, <1>3, DirFacts
<1> QED
  BY <1>2, <1>3 DEF Saved, Holds

LEMMA PairKept ==
  ASSUME NEW sh, NEW d \in Dirs, NEW e \in Dirs, NEW dk1, NEW dk2,
         e["db"] = d["db"], e["queue"] = d["queue"],
         \A i \in Inodes : i[1] \in {d["db"][1], "queue"} => dk2[i] \subseteq dk1[i]
  PROVE  /\ DurableOld(sh, dk1, d) => DurableOld(sh, dk2, e)
         /\ DurableNew(sh, dk1, d) => DurableNew(sh, dk2, e)
         /\ Pristine(sh, dk1, d) => Pristine(sh, dk2, e)
<1>1. "queue" \in Names \ {"db"}
  BY DEF Names
<1>2. dk2[d["db"]] \subseteq dk1[d["db"]]
  BY DirFacts
<1>3. ASSUME d["queue"] # NoFile
      PROVE  dk2[d["queue"]] \subseteq dk1[d["queue"]]
  BY <1>1, <1>3, DirFacts
<1>4. DurableOld(sh, dk1, d) => DurableOld(sh, dk2, e)
  BY <1>2, <1>3 DEF DurableOld, Holds
<1>5. DurableNew(sh, dk1, d) => DurableNew(sh, dk2, e)
  BY <1>2, <1>3 DEF DurableNew, Holds
<1> QED
  BY <1>2, <1>4, <1>5 DEF Pristine

LEMMA RoomsKept ==
  ASSUME NEW D, NEW d \in D, NEW e, e["queue"] = d["queue"] \/ e["queue"] = NoFile
  PROVE  /\ Rooms(D) => Rooms(D \cup {e})
         /\ Vacant(D, "queue") => Vacant(D \cup {e}, "queue")
<1>1. \A i \in {"queue"} \X (1 .. 3) : i # NoFile
  BY FileNames DEF Names
<1>2. ASSUME Rooms(D) PROVE Rooms(D \cup {e})
  <2>1. PICK i, j \in {"queue"} \X (1 .. 3) :
           i # j /\ \A f \in D : f["queue"] # i /\ f["queue"] # j
    BY <1>2 DEF Rooms
  <2>2. \A f \in D \cup {e} : f["queue"] # i /\ f["queue"] # j
    BY <1>1, <2>1
  <2> QED
    BY <2>1, <2>2 DEF Rooms
<1>3. ASSUME Vacant(D, "queue") PROVE Vacant(D \cup {e}, "queue")
  <2>1. PICK i \in {"queue"} \X (1 .. 3) : \A f \in D : f["queue"] # i
    BY <1>3 DEF Vacant
  <2>2. \A f \in D \cup {e} : f["queue"] # i
    BY <1>1, <2>1
  <2> QED
    BY <2>1, <2>2 DEF Vacant
<1> QED
  BY <1>2, <1>3

(* A second queue file leaves the number of a third.                       *)
LEMMA RoomsTaken ==
  ASSUME NEW D, NEW e, Rooms(D)
  PROVE  Vacant(D, "queue") /\ Vacant(D \cup {e}, "queue")
<1>1. PICK i, j \in {"queue"} \X (1 .. 3) :
         i # j /\ \A f \in D : f["queue"] # i /\ f["queue"] # j
  BY DEF Rooms
<1>2. Vacant(D, "queue")
  BY <1>1 DEF Vacant
<1>3. CASE e["queue"] # i
  <2>1. \A f \in D \cup {e} : f["queue"] # i
    BY <1>1, <1>3
  <2> QED
    BY <1>2, <2>1 DEF Vacant
<1>4. CASE e["queue"] = i
  <2>1. \A f \in D \cup {e} : f["queue"] # j
    BY <1>1, <1>4
  <2> QED
    BY <1>2, <2>1 DEF Vacant
<1> QED
  BY <1>3, <1>4

LEMMA OneDirectoryHasRooms ==
  ASSUME NEW d
  PROVE  Rooms({d})
<1>1. /\ <<"queue", 1>> \in {"queue"} \X (1 .. 3) /\ <<"queue", 2>> \in {"queue"} \X (1 .. 3)
      /\ <<"queue", 3>> \in {"queue"} \X (1 .. 3)
      /\ <<"queue", 1>> # <<"queue", 2>> /\ <<"queue", 1>> # <<"queue", 3>>
      /\ <<"queue", 2>> # <<"queue", 3>>
  OBVIOUS
<1>2. CASE d["queue"] = <<"queue", 1>>
  <2>1. \A f \in {d} : f["queue"] # <<"queue", 2>> /\ f["queue"] # <<"queue", 3>>
    BY <1>1, <1>2
  <2> QED
    BY <1>1, <2>1 DEF Rooms
<1>3. CASE d["queue"] = <<"queue", 2>>
  <2>1. \A f \in {d} : f["queue"] # <<"queue", 1>> /\ f["queue"] # <<"queue", 3>>
    BY <1>1, <1>3
  <2> QED
    BY <1>1, <2>1 DEF Rooms
<1>4. CASE d["queue"] \notin {<<"queue", 1>>, <<"queue", 2>>}
  <2>1. \A f \in {d} : f["queue"] # <<"queue", 1>> /\ f["queue"] # <<"queue", 2>>
    BY <1>4
  <2> QED
    BY <1>1, <2>1 DEF Rooms
<1> QED
  BY <1>2, <1>3, <1>4

-----------------------------------------------------------------------------
(* The restore, until the marker is on the disk.                           *)
CopyNames == {"rollback", "queue_rollback", "replacement", "marker"}

SavingNow(k) == Saving(k, shape, Possible, dir, content, disk)
SwappingNow(k) == Swapping(k, shape, Possible, dir, content, disk)
RevertingNow(k) == Reverting(k, shape, Possible, dir, content, disk)
SavingNext(k) == Saving(k, shape, Possible', dir', content', disk')
SwappingNext(k) == Swapping(k, shape, Possible', dir', content', disk')
RevertingNext(k) == Reverting(k, shape, Possible', dir', content', disk')

LEMMA CopyNamesAre ==
  ASSUME NEW name \in CopyNames
  PROVE  name \in Names \ {"db", "queue"} /\ Kinds(name) = {name}
BY DEF CopyNames, Names, Kinds

LEMMA CopyKeeps ==
  ASSUME FilesOK, NEW k \in 1 .. 6, SavingNow(k),
         NEW name \in CopyNames, NEW value, Wrote(name, value)
  PROVE  /\ \A e \in Possible' : Pristine(shape, disk', e)
         /\ Rooms(Possible')
         /\ \A n \in CopyNames \ {name} :
               /\ (\A d \in Possible : d[n] = NoFile) => \A e \in Possible' : e[n] = NoFile
               /\ dir'[n] = dir[n]
               /\ dir[n] # NoFile => /\ content'[dir[n]] = content[dir[n]]
                                     /\ disk'[dir[n]] = disk[dir[n]]
<1>1. /\ FilesOK' /\ Possible' = Possible \cup {dir'}
      /\ \A other \in Names \ {name} : dir'[other] = dir[other]
      /\ \A i \in Inodes : i[1] \in {"db", "queue"} => disk'[i] \subseteq disk[i]
  BY CopyNamesAre DEF Wrote
<1>2. Possible \subseteq Dirs /\ dir \in Possible /\ dir' \in Dirs
  BY <1>1, PossibleDirs DEF FilesOK
<1>3. dir'["db"] = dir["db"] /\ dir'["queue"] = dir["queue"]
  BY <1>1, CopyNamesAre DEF Names
<1>4. \A e \in Possible : Pristine(shape, disk, e) /\ e["db"][1] = "db"
  BY DEF SavingNow, Saving, Pristine
<1>5. \A e \in Possible : Pristine(shape, disk', e)
  BY <1>1, <1>2, <1>4, PairKept
<1>6. Pristine(shape, disk', dir')
  BY <1>1, <1>2, <1>3, <1>4, PairKept
<1>7. Rooms(Possible')
  BY <1>1, <1>2, <1>3, RoomsKept DEF SavingNow, Saving
<1>8. ASSUME NEW n \in CopyNames \ {name}
      PROVE  /\ (\A d \in Possible : d[n] = NoFile) => \A e \in Possible' : e[n] = NoFile
             /\ dir'[n] = dir[n]
             /\ dir[n] # NoFile => /\ content'[dir[n]] = content[dir[n]]
                                   /\ disk'[dir[n]] = disk[dir[n]]
  <2>1. n \in Names \ {name} /\ {n, name} # {"db", "replacement"}
    BY CopyNamesAre
  <2>2. dir'[n] = dir[n] /\ (dir[n] # NoFile => /\ content'[dir[n]] = content[dir[n]]
                                                /\ disk'[dir[n]] = disk[dir[n]])
    BY <1>2, <2>1, CopyNamesAre, WroteOther
  <2> QED
    BY <1>1, <1>2, <2>2
<1> QED
  BY <1>1, <1>5, <1>6, <1>7, <1>8

LEMMA CopyMade ==
  ASSUME FilesOK, NEW k \in 1 .. 6, SavingNow(k), NEW name \in CopyNames, NEW value \in Contents,
         \A d \in Possible : d[name] = NoFile, Write(name, value)
  PROVE  Wrote(name, value)
<1>1. name \in Names \ {"db"} /\ <<name, 1>> \in {name} \X (1 .. 3)
  BY CopyNamesAre
<1>2. Vacant(Possible, name)
  BY <1>1, FileNames DEF Vacant
<1>3. \A d \in Possible : d["db"][1] = "db"
  BY DEF SavingNow, Saving, Pristine
<1>4. Free(name) \in {name} \X (1 .. 3)
  BY <1>1, <1>2, <1>3, FreeIs
<1> QED
  BY <1>1, <1>4, WriteIs

LEMMA OldIsRead ==
  ASSUME FilesOK, NEW k \in 1 .. 6, SavingNow(k)
  PROVE  Read("db") = "old" /\ ("old" \in shape => Read("queue") = "old")
<1>1. Pristine(shape, disk, dir)
  BY PossibleDirs DEF SavingNow, Saving
<1>2. dir["db"] \in Inodes /\ dir["db"] # NoFile
  BY DirFacts DEF FilesOK
<1>3. "queue" \in Names \ {"db"}
  BY DEF Names
<1>4. dir["queue"] # NoFile => dir["queue"] \in Inodes
  BY <1>3, DirFacts DEF FilesOK
<1>5. content[dir["db"]] = "old"
  BY <1>1, <1>2 DEF FilesOK, Pristine
<1>6. ASSUME "old" \in shape
      PROVE  dir["queue"] # NoFile /\ content[dir["queue"]] = "old"
  <2>1. Holds(disk, dir, "queue", {"old"})
    BY <1>1, <1>6 DEF Pristine, DurableOld
  <2> QED
    BY <1>4, <2>1 DEF Holds, FilesOK
<1> QED
  BY <1>2, <1>5, <1>6 DEF Read, Exists

LEMMA SaveDb ==
  ASSUME FilesOK, SavingNow(1), Effect("save_db")
  PROVE  FilesOK' /\ SavingNext(2)
<1>1. Write("rollback", "old")
  BY OldIsRead DEF Effect
<1>2. "rollback" \in CopyNames /\ "old" \in Contents /\ \A d \in Possible : d["rollback"] = NoFile
  BY DEF SavingNow, Saving, CopyNames, Contents
<1>3. Wrote("rollback", "old")
  BY <1>1, <1>2, CopyMade
<1>4. /\ \A e \in Possible' : Pristine(shape, disk', e)
      /\ Rooms(Possible')
      /\ \A n \in CopyNames \ {"rollback"} :
            (\A d \in Possible : d[n] = NoFile) => \A e \in Possible' : e[n] = NoFile
  BY <1>2, <1>3, CopyKeeps
<1> QED
  BY <1>3, <1>4 DEF SavingNow, SavingNext, Saving, Wrote, Reads, CopyNames

LEMMA SaveQueue ==
  ASSUME FilesOK, SavingNow(2), Effect("save_queue")
  PROVE  FilesOK' /\ SavingNext(3)
<1>1. Reads(content, dir, "rollback", "old")
  BY DEF SavingNow, Saving
<1>2. CASE "old" \in shape
  <2>1. Write("queue_rollback", "old")
    BY <1>2, OldIsRead DEF Effect, QueueExisted
  <2>2. /\ "queue_rollback" \in CopyNames /\ "old" \in Contents
        /\ \A d \in Possible : d["queue_rollback"] = NoFile
    BY DEF SavingNow, Saving, CopyNames, Contents
  <2>3. Wrote("queue_rollback", "old")
    BY <2>1, <2>2, CopyMade
  <2>4. /\ \A e \in Possible' : Pristine(shape, disk', e)
        /\ Rooms(Possible')
        /\ \A n \in CopyNames \ {"queue_rollback"} :
              /\ (\A d \in Possible : d[n] = NoFile) => \A e \in Possible' : e[n] = NoFile
              /\ dir'[n] = dir[n]
              /\ dir[n] # NoFile => content'[dir[n]] = content[dir[n]]
    BY <2>2, <2>3, CopyKeeps
  <2>5. Reads(content', dir', "rollback", "old")
    BY <1>1, <2>4 DEF Reads, CopyNames
  <2> QED
    BY <2>3, <2>4, <2>5 DEF SavingNow, SavingNext, Saving, Wrote, Reads, CopyNames
<1>3. CASE "old" \notin shape
  <2>1. UNCHANGED files
    BY <1>3 DEF Effect, QueueExisted
  <2>2. /\ FilesOK' /\ dir' = dir /\ Possible' = Possible
        /\ content' = content /\ disk' = disk
    BY <2>1, NothingIs DEF files
  <2> QED
    BY <1>3, <2>2 DEF SavingNow, SavingNext, Saving
<1> QED
  BY <1>2, <1>3

LEMMA Prepare ==
  ASSUME FilesOK, SavingNow(3), Effect("prepare")
  PROVE  FilesOK' /\ SavingNext(4)
<1>1. Write("replacement", "new")
  BY DEF Effect
<1>2. /\ "replacement" \in CopyNames /\ "new" \in Contents
      /\ \A d \in Possible : d["replacement"] = NoFile
  BY DEF SavingNow, Saving, CopyNames, Contents
<1>3. Wrote("replacement", "new")
  BY <1>1, <1>2, CopyMade
<1>4. /\ \A e \in Possible' : Pristine(shape, disk', e)
      /\ Rooms(Possible')
      /\ \A n \in CopyNames \ {"replacement"} :
            /\ (\A d \in Possible : d[n] = NoFile) => \A e \in Possible' : e[n] = NoFile
            /\ dir'[n] = dir[n]
            /\ dir[n] # NoFile => content'[dir[n]] = content[dir[n]]
  BY <1>2, <1>3, CopyKeeps
<1>5. Reads(content', dir', "rollback", "old")
  BY <1>4 DEF SavingNow, Saving, Reads, CopyNames
<1>6. "old" \in shape => Reads(content', dir', "queue_rollback", "old")
  BY <1>4 DEF SavingNow, Saving, Reads, CopyNames
<1> QED
  BY <1>3, <1>4, <1>5, <1>6 DEF SavingNow, SavingNext, Saving, Wrote, Reads, CopyNames

LEMMA Persist ==
  ASSUME FilesOK, SavingNow(4), Effect("persist")
  PROVE  FilesOK' /\ SavingNext(5)
<1>1. Sync({"rollback", "queue_rollback"}) /\ {"rollback", "queue_rollback"} \in SUBSET Names
  BY DEF Effect, Names
<1>2. /\ FilesOK' /\ dir' = dir /\ Possible' = Possible /\ content' = content
      /\ \A i \in Inodes : disk'[i] \subseteq disk[i]
      /\ \A name \in {"rollback", "queue_rollback"} :
            dir[name] # NoFile => disk'[dir[name]] = {content[dir[name]]}
  BY <1>1, SyncIs
<1>3. \A e \in Possible : Pristine(shape, disk', e)
  <2>1. \A e \in Possible : Pristine(shape, disk, e) /\ e \in Dirs
    BY PossibleDirs DEF SavingNow, Saving
  <2> QED
    BY <1>2, <2>1, PairKept
<1>4. Saved(shape, disk', dir)
  BY <1>2 DEF SavingNow, Saving, Saved, Holds, Reads
<1> QED
  BY <1>2, <1>3, <1>4 DEF SavingNow, SavingNext, Saving

LEMMA Mark ==
  ASSUME FilesOK, SavingNow(5), Effect("mark")
  PROVE  FilesOK' /\ SavingNext(6)
<1>1. "marker" \in CopyNames /\ \A d \in Possible : d["marker"] = NoFile
  BY DEF SavingNow, Saving, CopyNames
<1>2. Vacant(Possible, "marker")
  <2>1. <<"marker", 1>> \in {"marker"} \X (1 .. 3) /\ "marker" \in Names
    BY DEF Names
  <2> QED
    BY <1>1, <2>1, FileNames DEF Vacant
<1>3. Wrote("marker", "marker")
  BY <1>2, MarkIs
<1>4. /\ \A e \in Possible' : Pristine(shape, disk', e)
      /\ Rooms(Possible')
      /\ \A n \in CopyNames \ {"marker"} :
            /\ (\A d \in Possible : d[n] = NoFile) => \A e \in Possible' : e[n] = NoFile
            /\ dir'[n] = dir[n]
            /\ dir[n] # NoFile => /\ content'[dir[n]] = content[dir[n]]
                                  /\ disk'[dir[n]] = disk[dir[n]]
  BY <1>1, <1>3, CopyKeeps
<1>5. \A n \in {"rollback", "queue_rollback", "replacement"} : n \in CopyNames \ {"marker"}
  BY DEF CopyNames
<1>6. /\ Reads(content', dir', "rollback", "old")
      /\ "old" \in shape => Reads(content', dir', "queue_rollback", "old")
      /\ Reads(content', dir', "replacement", "new")
  BY <1>4, <1>5 DEF SavingNow, Saving, Reads
<1>7. Saved(shape, disk', dir')
  BY <1>4, <1>5 DEF SavingNow, Saving, Saved, Holds
<1>8. \A e \in Possible' : e["marker"] # NoFile => Saved(shape, disk', e)
  BY <1>1, <1>3, <1>7 DEF Wrote
<1> QED
  BY <1>3, <1>4, <1>6, <1>7, <1>8 DEF SavingNext, Saving, Wrote

(* The directory is synced: every start takes the swap back from now on.   *)
LEMMA SaveSync ==
  ASSUME FilesOK, SavingNow(6), Effect("sync_parent")
  PROVE  FilesOK' /\ SwappingNext(1)
<1>1. /\ FilesOK' /\ dir' = dir /\ Possible' = {dir}
      /\ content' = content /\ disk' = disk
  BY SyncParentIs DEF Effect
<1>2. Rooms({dir}) /\ Vacant({dir}, "queue")
  BY OneDirectoryHasRooms, RoomsTaken
<1>3. Guarded(shape, disk, dir) /\ Reads(content, dir, "replacement", "new")
  BY DEF SavingNow, Saving, Guarded
<1> QED
  BY <1>1, <1>2, <1>3 DEF SwappingNext, Swapping

(* Cut short, it leaves the pair as it was.                                *)
TakenBack(sh, D, dk) ==
    \A e \in D : IF e["marker"] = NoFile THEN DurableOld(sh, dk, e) ELSE Saved(sh, dk, e)

LEMMA SavingTaken ==
  ASSUME NEW sh, NEW D, NEW d, NEW ct, NEW dk, NEW k, Saving(k, sh, D, d, ct, dk)
  PROVE  TakenBack(sh, D, dk)
BY DEF Saving, TakenBack, Pristine

LEMMA SavingPart ==
  ASSUME FilesOK, NEW k \in 1 .. 6, SavingNow(k), PartOf(Program("restore")[k])
  PROVE  FilesOK' /\ TakenBack(shape, Possible', disk')
<1> DEFINE op == Program("restore")[k]
<1>1. CASE UNCHANGED files
  <2>1. FilesOK' /\ Possible' = Possible /\ disk' = disk
    BY <1>1, NothingIs DEF files
  <2> QED
    BY <2>1, SavingTaken DEF SavingNow
<1>2. CASE Target(op) # "none" /\ Write(Target(op), "torn")
  <2> DEFINE name == Target(op)
  <2>1. k \in 1 .. 3 /\ name \in CopyNames /\ \A d \in Possible : d[name] = NoFile
    <3>1. k \in {1, 2, 3, 4, 5, 6}
      OBVIOUS
    <3>2. CASE k = 1
      BY <3>2, ProgramIs DEF SavingNow, Saving, Target, CopyNames
    <3>3. CASE k = 2
      BY <3>3, ProgramIs DEF SavingNow, Saving, Target, CopyNames
    <3>4. CASE k = 3
      BY <3>4, ProgramIs DEF SavingNow, Saving, Target, CopyNames
    <3>5. CASE k \in {4, 5, 6}
      BY <1>2, <3>5, ProgramIs DEF Target
    <3> QED
      BY <3>1, <3>2, <3>3, <3>4, <3>5
  <2>2. "torn" \in Contents
    BY DEF Contents
  <2> HIDE DEF name
  <2>3. Write(name, "torn")
    BY <1>2 DEF name
  <2>4. Wrote(name, "torn")
    BY <2>1, <2>2, <2>3, CopyMade
  <2>5. \A e \in Possible' : Pristine(shape, disk', e)
    BY <2>1, <2>4, CopyKeeps
  <2>6. \A e \in Possible' : e["marker"] = NoFile
    <3>1. "marker" \in CopyNames \ {name}
      <4>1. name # "marker"
        BY <1>2 DEF name, Target
      <4> QED
        BY <4>1 DEF CopyNames
    <3>2. \A d \in Possible : d["marker"] = NoFile
      BY <2>1 DEF SavingNow, Saving
    <3> QED
      BY <2>1, <2>4, <3>1, <3>2, CopyKeeps
  <2> QED
    BY <2>4, <2>5, <2>6 DEF TakenBack, Pristine, Wrote
<1> QED
  BY <1>1, <1>2 DEF PartOf

-----------------------------------------------------------------------------
(* The swap, the rollback and the recovery: all under the marker.          *)
AllGuarded == \A e \in Possible : Guarded(shape, disk, e)
AllGuardedNext == \A e \in Possible' : Guarded(shape, disk', e)

LEMMA QueueMade ==
  ASSUME FilesOK, Vacant(Possible, "queue"), NEW value \in Contents, Write("queue", value)
  PROVE  Wrote("queue", value)
<1>1. "queue" \in Names \ {"db"}
  BY DEF Names
<1>2. Free("queue") \in {"queue"} \X (1 .. 3)
  BY <1>1, FreeIs
<1> QED
  BY <1>1, <1>2, WriteIs

LEMMA DbWritten ==
  ASSUME FilesOK, NEW value \in Contents, Write("db", value)
  PROVE  Wrote("db", value) /\ dir' = dir
<1>1. "db" \in Names /\ Exists("db")
  BY DirFacts DEF Names, Exists, FilesOK
<1> QED
  BY <1>1, WriteIs

LEMMA GuardWritten ==
  ASSUME FilesOK, AllGuarded, NEW name \in {"db", "queue"}, NEW value, Wrote(name, value)
  PROVE  AllGuardedNext
<1>1. /\ dir'["marker"] = dir["marker"] /\ dir'["rollback"] = dir["rollback"]
      /\ dir'["queue_rollback"] = dir["queue_rollback"]
  BY DEF Wrote, Names
<1>2. /\ Possible \subseteq Dirs /\ dir \in Possible
      /\ dir' \in Dirs /\ Possible' = Possible \cup {dir'}
  BY PossibleDirs DEF Wrote, FilesOK
<1>3. \A i \in Inodes : i[1] \in {"rollback", "queue_rollback"} => disk'[i] \subseteq disk[i]
  BY DEF Wrote, Kinds
<1>4. \A e \in Possible : e["marker"] # NoFile /\ Saved(shape, disk, e)
  BY DEF AllGuarded, Guarded
<1>5. \A e \in Possible : Saved(shape, disk', e)
  BY <1>2, <1>3, <1>4, SavedKept
<1>6. Saved(shape, disk', dir')
  BY <1>1, <1>2, <1>3, <1>4, SavedKept
<1> QED
  BY <1>1, <1>2, <1>4, <1>5, <1>6 DEF AllGuardedNext, Guarded

LEMMA GuardLinked ==
  ASSUME FilesOK, AllGuarded, Linked,
         \A name \in {"marker", "rollback", "queue_rollback"} : dir'[name] = dir[name]
  PROVE  AllGuardedNext
<1>1. /\ Possible' = Possible \cup {dir'} /\ disk' = disk /\ dir \in Possible
  BY PossibleDirs DEF Linked
<1>2. Guarded(shape, disk, dir)
  BY <1>1 DEF AllGuarded
<1>3. Guarded(shape, disk, dir')
  BY <1>2 DEF Guarded, Saved, Holds
<1> QED
  BY <1>1, <1>3 DEF AllGuarded, AllGuardedNext

LEMMA GuardSynced ==
  ASSUME FilesOK, AllGuarded, dir' = dir, Possible' \subseteq Possible,
         \A i \in Inodes : disk'[i] \subseteq disk[i]
  PROVE  AllGuardedNext
<1>1. \A e \in Possible : e \in Dirs /\ e["marker"] # NoFile /\ Saved(shape, disk, e)
  BY PossibleDirs DEF AllGuarded, Guarded
<1>2. \A e \in Possible : Saved(shape, disk', e)
  BY <1>1, SavedKept
<1> QED
  BY <1>1, <1>2 DEF AllGuardedNext, Guarded

LEMMA SavedIsRead ==
  ASSUME FilesOK, AllGuarded
  PROVE  Read("rollback") = "old" /\ ("old" \in shape => Read("queue_rollback") = "old")
<1>1. Saved(shape, disk, dir)
  BY PossibleDirs DEF AllGuarded, Guarded
<1>2. /\ dir["rollback"] # NoFile => dir["rollback"] \in Inodes
      /\ dir["queue_rollback"] # NoFile => dir["queue_rollback"] \in Inodes
  BY DirFacts DEF FilesOK, Names
<1>3. dir["rollback"] # NoFile /\ content[dir["rollback"]] = "old"
  BY <1>1, <1>2 DEF Saved, Holds, FilesOK
<1>4. "old" \in shape => dir["queue_rollback"] # NoFile /\ content[dir["queue_rollback"]] = "old"
  BY <1>1, <1>2 DEF Saved, Holds, FilesOK
<1> QED
  BY <1>3, <1>4 DEF Read, Exists

(* The queue file that was written stands beside the database.             *)
LEMMA QueueBesideDb ==
  ASSUME FilesOK, NEW value, Wrote("queue", value)
  PROVE  /\ dir'["db"] = dir["db"] /\ content'[dir'["db"]] = content[dir["db"]]
         /\ Reads(content', dir', "queue", value)
<1>1. /\ "queue" \in Names /\ "db" \in Names \ {"queue"}
      /\ {"db", "queue"} # {"db", "replacement"}
  BY DEF Names
<1>2. dir \in Possible /\ dir["db"] # NoFile
  BY PossibleDirs, DirFacts
<1> QED
  BY <1>1, <1>2, WroteOther DEF Wrote, Reads

(* Both files are synced.                                                  *)
LEMMA BothSynced ==
  ASSUME FilesOK, Effect("sync")
  PROVE  /\ FilesOK' /\ dir' = dir /\ Possible' = Possible /\ content' = content
         /\ \A i \in Inodes : disk'[i] \subseteq disk[i]
         /\ disk'[dir["db"]] = {content[dir["db"]]}
         /\ dir["queue"] # NoFile => disk'[dir["queue"]] = {content[dir["queue"]]}
<1>1. Sync({"db", "queue"}) /\ {"db", "queue"} \in SUBSET Names
  BY DEF Effect, Names
<1>2. dir["db"] # NoFile
  BY DirFacts DEF FilesOK
<1> QED
  BY <1>1, <1>2, SyncIs

LEMMA Replace ==
  ASSUME FilesOK, SwappingNow(1), Effect("replace")
  PROVE  FilesOK' /\ SwappingNext(2)
<1>1. dir["replacement"] # NoFile /\ content[dir["replacement"]] = "new"
  BY DEF SwappingNow, Swapping, Reads
<1>2. /\ Linked /\ dir'["db"] = dir["replacement"]
      /\ \A other \in Names \ {"db", "replacement"} : dir'[other] = dir[other]
  BY <1>1, ReplaceIs DEF Effect
<1>3. AllGuarded /\ Rooms(Possible) /\ dir \in Possible
  BY PossibleDirs DEF SwappingNow, Swapping, AllGuarded
<1>4. AllGuardedNext
  BY <1>2, <1>3, GuardLinked DEF Names
<1>5. dir'["queue"] = dir["queue"] /\ Possible' = Possible \cup {dir'}
  BY <1>2 DEF Names, Linked
<1>6. Rooms(Possible') /\ Vacant(Possible', "queue")
  BY <1>3, <1>5, RoomsKept, RoomsTaken
<1> QED
  BY <1>1, <1>2, <1>4, <1>6 DEF SwappingNext, Swapping, AllGuardedNext, Linked

LEMMA QueueDropped ==
  ASSUME FilesOK, AllGuarded, Effect("drop_queue")
  PROVE  /\ FilesOK' /\ AllGuardedNext
         /\ dir'["queue"] = NoFile /\ dir'["db"] = dir["db"] /\ content' = content
         /\ Rooms(Possible) => Rooms(Possible')
         /\ Vacant(Possible, "queue") => Vacant(Possible', "queue")
<1>1. "queue" \in Names \ {"db"}
  BY DEF Names
<1>2. /\ Linked /\ dir'["queue"] = NoFile
      /\ \A other \in Names \ {"queue"} : dir'[other] = dir[other]
  BY <1>1, UnlinkIs DEF Effect
<1>3. AllGuardedNext
  BY <1>2, GuardLinked DEF Names
<1>4. Possible' = Possible \cup {dir'} /\ dir \in Possible
  BY <1>2, PossibleDirs DEF Linked
<1>5. /\ Rooms(Possible) => Rooms(Possible')
      /\ Vacant(Possible, "queue") => Vacant(Possible', "queue")
  BY <1>2, <1>4, RoomsKept
<1> QED
  BY <1>2, <1>3, <1>5 DEF Linked, Names

LEMMA SwapDrop ==
  ASSUME FilesOK, SwappingNow(2), Effect("drop_queue")
  PROVE  FilesOK' /\ SwappingNext(3)
<1>1. AllGuarded /\ Rooms(Possible)
  BY DEF SwappingNow, Swapping, AllGuarded
<1>2. /\ FilesOK' /\ AllGuardedNext
      /\ dir'["queue"] = NoFile /\ dir'["db"] = dir["db"] /\ content' = content
      /\ Rooms(Possible')
  BY <1>1, QueueDropped
<1>3. Vacant(Possible', "queue")
  BY <1>2, RoomsTaken
<1> QED
  BY <1>2, <1>3 DEF SwappingNow, SwappingNext, Swapping, AllGuardedNext

LEMMA NewQueue ==
  ASSUME FilesOK, SwappingNow(3), Effect("new_queue")
  PROVE  FilesOK' /\ SwappingNext(4)
<1>1. AllGuarded /\ Rooms(Possible) /\ dir["queue"] = NoFile /\ content[dir["db"]] = "new"
  BY DEF SwappingNow, Swapping, AllGuarded
<1>2. CASE "new" \in shape
  <2>1. Write("queue", "new") /\ "new" \in Contents /\ Vacant(Possible, "queue")
    BY <1>1, <1>2, RoomsTaken DEF Effect, QueueStaged, Contents
  <2>2. Wrote("queue", "new")
    BY <2>1, QueueMade
  <2>3. AllGuardedNext
    BY <1>1, <2>2, GuardWritten
  <2>4. Vacant(Possible', "queue")
    BY <1>1, <2>2, RoomsTaken DEF Wrote
  <2>5. content'[dir'["db"]] = "new" /\ Reads(content', dir', "queue", "new")
    BY <1>1, <2>2, QueueBesideDb
  <2> QED
    BY <1>2, <2>2, <2>3, <2>4, <2>5 DEF SwappingNext, Swapping, AllGuardedNext, Wrote
<1>3. CASE "new" \notin shape
  <2>1. UNCHANGED files
    BY <1>3 DEF Effect, QueueStaged
  <2>2. /\ FilesOK' /\ dir' = dir /\ Possible' = Possible
        /\ content' = content /\ disk' = disk
    BY <2>1, NothingIs DEF files
  <2> QED
    BY <1>1, <1>3, <2>2 DEF SwappingNow, SwappingNext, Swapping
<1> QED
  BY <1>2, <1>3

LEMMA SwapSync ==
  ASSUME FilesOK, SwappingNow(4), Effect("sync")
  PROVE  FilesOK' /\ SwappingNext(5)
<1>1. /\ FilesOK' /\ dir' = dir /\ Possible' = Possible /\ content' = content
      /\ \A i \in Inodes : disk'[i] \subseteq disk[i]
      /\ disk'[dir["db"]] = {content[dir["db"]]}
      /\ dir["queue"] # NoFile => disk'[dir["queue"]] = {content[dir["queue"]]}
  BY BothSynced
<1>2. AllGuardedNext
  BY <1>1, GuardSynced DEF SwappingNow, Swapping, AllGuarded
<1>3. DurableNew(shape, disk', dir')
  BY <1>1 DEF SwappingNow, Swapping, DurableNew, Holds, Reads, New
<1> QED
  BY <1>1, <1>2, <1>3 DEF SwappingNow, SwappingNext, Swapping, AllGuardedNext

LEMMA SwapReopen ==
  ASSUME FilesOK, SwappingNow(5), Effect("reopen")
  PROVE  FilesOK' /\ SwappingNext(6)
<1>1. UNCHANGED files
  BY DEF Effect
<1>2. /\ FilesOK' /\ dir' = dir /\ Possible' = Possible
      /\ content' = content /\ disk' = disk
  BY <1>1, NothingIs DEF files
<1> QED
  BY <1>2 DEF SwappingNow, SwappingNext, Swapping

LEMMA SwapSettles ==
  ASSUME FilesOK, SwappingNow(6), Effect("sync_parent")
  PROVE  FilesOK' /\ SwappingNext(7)
<1>1. /\ FilesOK' /\ dir' = dir /\ Possible' = {dir}
      /\ content' = content /\ disk' = disk
  BY SyncParentIs DEF Effect
<1>2. Vacant({dir}, "queue") /\ dir \in Possible
  BY OneDirectoryHasRooms, RoomsTaken, PossibleDirs
<1> QED
  BY <1>1, <1>2 DEF SwappingNow, SwappingNext, Swapping

(* The marker is removed.                                                  *)
LEMMA Unmarked ==
  ASSUME FilesOK, AllGuarded, Effect("unmark"),
         DurableOld(shape, disk, dir) \/ DurableNew(shape, disk, dir)
  PROVE  /\ Linked /\ dir'["marker"] = NoFile
         /\ dir'["db"] = dir["db"] /\ dir'["queue"] = dir["queue"]
         /\ DurableOld(shape, disk, dir) => /\ DurableOld(shape, disk', dir')
                                            /\ TakenBack(shape, Possible', disk')
         /\ DurableNew(shape, disk, dir) => DurableNew(shape, disk', dir')
         /\ Crashproof(shape, Possible', disk')
<1>1. "marker" \in Names \ {"db"}
  BY DEF Names
<1>2. /\ Linked /\ dir'["marker"] = NoFile
      /\ \A other \in Names \ {"marker"} : dir'[other] = dir[other]
  BY <1>1, UnlinkIs DEF Effect
<1>3. /\ dir'["db"] = dir["db"] /\ dir'["queue"] = dir["queue"]
      /\ Possible' = Possible \cup {dir'} /\ disk' = disk
  BY <1>2 DEF Names, Linked
<1>4. /\ DurableOld(shape, disk, dir) => DurableOld(shape, disk', dir')
      /\ DurableNew(shape, disk, dir) => DurableNew(shape, disk', dir')
  BY <1>3 DEF DurableOld, DurableNew, Holds
<1>5. \A e \in Possible : e["marker"] # NoFile /\ Saved(shape, disk', e)
  BY <1>3 DEF AllGuarded, Guarded
<1> QED
  BY <1>2, <1>3, <1>4, <1>5 DEF Crashproof, TakenBack

LEMMA SwapUnmark ==
  ASSUME FilesOK, SwappingNow(7), Effect("unmark")
  PROVE  FilesOK' /\ SwappingNext(8) /\ Crashproof(shape, Possible', disk')
<1>1. /\ AllGuarded /\ DurableNew(shape, disk, dir) /\ Vacant(Possible, "queue")
      /\ content[dir["db"]] = "new"
  BY DEF SwappingNow, Swapping, AllGuarded
<1>2. /\ Linked /\ dir'["marker"] = NoFile
      /\ dir'["db"] = dir["db"] /\ dir'["queue"] = dir["queue"]
      /\ DurableNew(shape, disk', dir') /\ Crashproof(shape, Possible', disk')
  BY <1>1, Unmarked
<1>3. Vacant(Possible', "queue")
  BY <1>1, <1>2, RoomsKept, PossibleDirs DEF Linked
<1> QED
  BY <1>1, <1>2, <1>3 DEF SwappingNow, SwappingNext, Swapping, Linked, Reads

LEMMA SwapDone ==
  ASSUME FilesOK, SwappingNow(8), Effect("sync_parent")
  PROVE  /\ FilesOK' /\ dir' = dir /\ Possible' = {dir'} /\ disk' = disk
         /\ dir'["marker"] = NoFile /\ DurableNew(shape, disk', dir')
<1>1. /\ FilesOK' /\ dir' = dir /\ Possible' = {dir}
      /\ content' = content /\ disk' = disk
  BY SyncParentIs DEF Effect
<1> QED
  BY <1>1 DEF SwappingNow, Swapping

LEMMA CopyBack ==
  ASSUME FilesOK, RevertingNow(1), Effect("copy_back")
  PROVE  FilesOK' /\ RevertingNext(2)
<1>1. AllGuarded /\ Vacant(Possible, "queue")
  BY DEF RevertingNow, Reverting, AllGuarded
<1>2. Write("db", "old") /\ "old" \in Contents
  BY <1>1, SavedIsRead DEF Effect, Contents
<1>3. Wrote("db", "old") /\ dir' = dir
  BY <1>2, DbWritten
<1>4. AllGuardedNext
  BY <1>1, <1>3, GuardWritten
<1>5. Possible' = Possible
  BY <1>3, PossibleDirs DEF Wrote
<1>6. FilesOK' /\ content'[dir'["db"]] = "old"
  BY <1>3 DEF Wrote
<1> QED
  BY <1>1, <1>4, <1>5, <1>6 DEF RevertingNext, Reverting, AllGuardedNext

LEMMA RevertDrop ==
  ASSUME FilesOK, RevertingNow(2), Effect("drop_queue")
  PROVE  FilesOK' /\ RevertingNext(3)
<1>1. AllGuarded /\ Vacant(Possible, "queue")
  BY DEF RevertingNow, Reverting, AllGuarded
<1>2. /\ FilesOK' /\ AllGuardedNext
      /\ dir'["queue"] = NoFile /\ dir'["db"] = dir["db"] /\ content' = content
      /\ Vacant(Possible', "queue")
  BY <1>1, QueueDropped
<1> QED
  BY <1>2 DEF RevertingNow, RevertingNext, Reverting, AllGuardedNext

LEMMA OldQueue ==
  ASSUME FilesOK, RevertingNow(3), Effect("old_queue")
  PROVE  FilesOK' /\ RevertingNext(4)
<1>1. AllGuarded /\ Vacant(Possible, "queue") /\ dir["queue"] = NoFile /\ content[dir["db"]] = "old"
  BY DEF RevertingNow, Reverting, AllGuarded
<1>2. CASE "old" \in shape
  <2>1. Write("queue", "old") /\ "old" \in Contents
    BY <1>1, <1>2, SavedIsRead DEF Effect, QueueExisted, Contents
  <2>2. Wrote("queue", "old")
    BY <1>1, <2>1, QueueMade
  <2>3. AllGuardedNext
    BY <1>1, <2>2, GuardWritten
  <2>4. content'[dir'["db"]] = "old" /\ Reads(content', dir', "queue", "old")
    BY <1>1, <2>2, QueueBesideDb
  <2> QED
    BY <1>2, <2>2, <2>3, <2>4 DEF RevertingNext, Reverting, AllGuardedNext, Wrote
<1>3. CASE "old" \notin shape
  <2>1. UNCHANGED files
    BY <1>3 DEF Effect, QueueExisted
  <2>2. /\ FilesOK' /\ dir' = dir /\ Possible' = Possible
        /\ content' = content /\ disk' = disk
    BY <2>1, NothingIs DEF files
  <2> QED
    BY <1>1, <1>3, <2>2 DEF RevertingNow, RevertingNext, Reverting
<1> QED
  BY <1>2, <1>3

LEMMA RevertSync ==
  ASSUME FilesOK, RevertingNow(4), Effect("sync")
  PROVE  FilesOK' /\ RevertingNext(5) /\ RevertingNext(6)
<1>1. /\ FilesOK' /\ dir' = dir /\ Possible' = Possible /\ content' = content
      /\ \A i \in Inodes : disk'[i] \subseteq disk[i]
      /\ disk'[dir["db"]] = {content[dir["db"]]}
      /\ dir["queue"] # NoFile => disk'[dir["queue"]] = {content[dir["queue"]]}
  BY BothSynced
<1>2. AllGuardedNext
  BY <1>1, GuardSynced DEF RevertingNow, Reverting, AllGuarded
<1>3. DurableOld(shape, disk', dir')
  BY <1>1 DEF RevertingNow, Reverting, DurableOld, Holds, Reads, Old
<1> QED
  BY <1>1, <1>2, <1>3 DEF RevertingNow, RevertingNext, Reverting, AllGuardedNext

LEMMA RevertReopen ==
  ASSUME FilesOK, RevertingNow(5), Effect("reopen")
  PROVE  FilesOK' /\ RevertingNext(6)
<1>1. UNCHANGED files
  BY DEF Effect
<1>2. /\ FilesOK' /\ dir' = dir /\ Possible' = Possible
      /\ content' = content /\ disk' = disk
  BY <1>1, NothingIs DEF files
<1> QED
  BY <1>2 DEF RevertingNow, RevertingNext, Reverting

LEMMA RevertSettles ==
  ASSUME FilesOK, RevertingNow(6), Effect("sync_parent")
  PROVE  FilesOK' /\ RevertingNext(7)
<1>1. /\ FilesOK' /\ dir' = dir /\ Possible' = {dir}
      /\ content' = content /\ disk' = disk
  BY SyncParentIs DEF Effect
<1>2. dir \in Possible
  BY PossibleDirs
<1> QED
  BY <1>1, <1>2 DEF RevertingNow, RevertingNext, Reverting

LEMMA RevertUnmark ==
  ASSUME FilesOK, RevertingNow(7), Effect("unmark")
  PROVE  FilesOK' /\ RevertingNext(8) /\ TakenBack(shape, Possible', disk')
<1>1. AllGuarded /\ DurableOld(shape, disk, dir) /\ content[dir["db"]] = "old"
  BY DEF RevertingNow, Reverting, AllGuarded
<1>2. /\ Linked /\ dir'["marker"] = NoFile
      /\ dir'["db"] = dir["db"] /\ dir'["queue"] = dir["queue"]
      /\ DurableOld(shape, disk', dir') /\ TakenBack(shape, Possible', disk')
  BY <1>1, Unmarked
<1> QED
  BY <1>1, <1>2 DEF RevertingNow, RevertingNext, Reverting, Linked, Reads

LEMMA RevertDone ==
  ASSUME FilesOK, RevertingNow(8), Effect("sync_parent")
  PROVE  /\ FilesOK' /\ dir' = dir /\ Possible' = {dir'} /\ disk' = disk
         /\ dir'["marker"] = NoFile /\ DurableOld(shape, disk', dir')
<1>1. /\ FilesOK' /\ dir' = dir /\ Possible' = {dir}
      /\ content' = content /\ disk' = disk
  BY SyncParentIs DEF Effect
<1> QED
  BY <1>1 DEF RevertingNow, Reverting

(* Cut short, or failed, these programs leave every directory guarded      *)
(* until the marker is removed.                                            *)
LEMMA GuardedPart ==
  ASSUME FilesOK, AllGuarded, NEW op, PartOf(op), Target(op) \in {"none", "db", "queue"},
         Target(op) = "queue" => Vacant(Possible, "queue")
  PROVE  /\ FilesOK' /\ AllGuardedNext
         /\ Rooms(Possible) => Vacant(Possible', "queue")
         /\ Target(op) # "queue" /\ Vacant(Possible, "queue") => Vacant(Possible', "queue")
<1>1. CASE UNCHANGED files
  <2>1. FilesOK' /\ Possible' = Possible /\ disk' = disk
    BY <1>1, NothingIs DEF files
  <2> QED
    BY <2>1, RoomsTaken DEF AllGuarded, AllGuardedNext
<1>2. CASE Target(op) # "none" /\ Write(Target(op), "torn")
  <2>1. "torn" \in Contents
    BY DEF Contents
  <2>2. CASE Target(op) = "db"
    <3>1. Wrote("db", "torn") /\ dir' = dir
      BY <1>2, <2>1, <2>2, DbWritten
    <3>2. AllGuardedNext
      BY <3>1, GuardWritten
    <3>3. FilesOK' /\ Possible' = Possible
      BY <3>1, PossibleDirs DEF Wrote
    <3> QED
      BY <3>2, <3>3, RoomsTaken
  <2>3. CASE Target(op) = "queue"
    <3>1. Wrote("queue", "torn")
      BY <1>2, <2>1, <2>3, QueueMade
    <3>2. AllGuardedNext
      BY <3>1, GuardWritten
    <3>3. FilesOK' /\ Possible' = Possible \cup {dir'}
      BY <3>1 DEF Wrote
    <3> QED
      BY <2>3, <3>2, <3>3, RoomsTaken
  <2> QED
    BY <1>2, <2>2, <2>3
<1> QED
  BY <1>1, <1>2 DEF PartOf

-----------------------------------------------------------------------------
(* The invariant holds of every state.                                     *)
USE Bounds

LEMMA TakenIsCrashproof ==
  ASSUME NEW sh, NEW D, NEW dk, TakenBack(sh, D, dk)
  PROVE  Crashproof(sh, D, dk)
BY DEF TakenBack, Crashproof

LEMMA GuardedIsTaken ==
  ASSUME AllGuardedNext
  PROVE  TakenBack(shape, Possible', disk')
BY DEF AllGuardedNext, Guarded, TakenBack

LEMMA InitInv ==
  ASSUME Init
  PROVE  IInv
<1>1. /\ log = << >> /\ shape \in SUBSET {"old", "new"}
      /\ content = [i \in Inodes |-> "old"] /\ disk = [i \in Inodes |-> {"old"}]
      /\ task = "open" /\ at = 1 /\ answer = "none" /\ edited = FALSE
      /\ faults = 0 /\ crashes = 0
  BY DEF Init
<1>2. /\ dir \in [Names -> Inodes \cup {NoFile}]
      /\ dir["db"] = <<"db", 1>>
      /\ dir["queue"] = IF "old" \in shape THEN <<"queue", 1>> ELSE NoFile
      /\ \A name \in Names \ {"db", "queue"} : dir[name] = NoFile
  <2> DEFINE f(name) == CASE name = "db" -> <<"db", 1>>
                          [] name = "queue" /\ "old" \in shape -> <<"queue", 1>>
                          [] OTHER -> NoFile
  <2>1. dir = [name \in Names |-> f(name)]
    BY DEF Init
  <2>2. /\ f("db") = <<"db", 1>>
        /\ f("queue") = IF "old" \in shape THEN <<"queue", 1>> ELSE NoFile
        /\ \A name \in Names \ {"db", "queue"} : f(name) = NoFile
    OBVIOUS
  <2>3. <<"db", 1>> \in Inodes /\ <<"queue", 1>> \in Inodes /\ "db" \in Names /\ "queue" \in Names
    BY DEF Inodes, Names
  <2> HIDE DEF f
  <2>4. \A name \in Names : f(name) \in Inodes \cup {NoFile}
    <3>1. \A name \in Names : name = "db" \/ name = "queue" \/ name \in Names \ {"db", "queue"}
      OBVIOUS
    <3> QED
      BY <2>2, <2>3, <3>1
  <2> QED
    BY <2>1, <2>2, <2>3, <2>4
<1>3. dir \in Dirs
  <2>1. /\ <<"db", 1>> \in {"db", "replacement"} \X (1 .. 3)
        /\ <<"queue", 1>> \in {"queue"} \X (1 .. 3)
    OBVIOUS
  <2> QED
    BY <1>2, <2>1 DEF Dirs
<1>4. << >> \in Seq(Dirs) /\ Range(<< >>) = {}
  BY DEF Range
<1>5. Possible = {dir}
  BY <1>1, <1>4 DEF Possible
<1>6. FilesOK
  <2>1. "old" \in Contents /\ {"old"} \in SUBSET Contents
    BY DEF Contents
  <2> QED
    BY <1>1, <1>3, <1>4, <2>1 DEF FilesOK
<1>7. ControlOK
  <2>1. 0 \in 0 .. MaxFaults /\ 0 \in 0 .. MaxCrashes /\ 1 \in 1 .. 8
    OBVIOUS
  <2>2. task \in Tasks /\ answer \in {"none", "pending", "restored", "failed"}
    BY <1>1 DEF Tasks
  <2> QED
    BY <1>1, <2>1, <2>2 DEF ControlOK
<1>8. Pristine(shape, disk, dir)
  <2>1. /\ dir["db"] \in Inodes /\ ("old" \in shape => dir["queue"] \in Inodes)
        /\ dir["db"][1] = "db" /\ ("old" \in shape => dir["queue"] # NoFile)
    BY <1>2, FileNames DEF Inodes, Names
  <2> QED
    BY <1>1, <1>2, <2>1 DEF Pristine, DurableOld, Holds, Old
<1>9. /\ dir["rollback"] = NoFile /\ dir["queue_rollback"] = NoFile
      /\ dir["replacement"] = NoFile /\ dir["marker"] = NoFile
  BY <1>2 DEF Names
<1>10. Rooms({dir})
  BY OneDirectoryHasRooms
<1>11. Saving(1, shape, Possible, dir, content, disk)
  BY <1>5, <1>8, <1>9, <1>10 DEF Saving
<1>12. Crashproof(shape, Possible, disk)
  BY <1>11, SavingTaken, TakenIsCrashproof
<1>13. DurableOld(shape, disk, dir)
  BY <1>8 DEF Pristine
<1>14. Underway(task, at, shape, Possible, dir, content, disk, answer, faults)
  BY <1>1, <1>5, <1>9, <1>13 DEF Underway, Opened
<1>15. Answered(task, shape, Possible, dir, content, disk, answer, edited)
  BY <1>1, <1>5, <1>11 DEF Answered
<1> QED
  BY <1>1, <1>6, <1>7, <1>12, <1>14, <1>15 DEF IInv, WorkKept

LEMMA RestoreInv ==
  ASSUME IInv, Restore
  PROVE  IInv'
<1>1. /\ task = "open" /\ answer = "none"
      /\ task' = "restore" /\ at' = 1 /\ answer' = "pending"
      /\ UNCHANGED <<dir, log, content, disk, shape, edited, faults, crashes>>
  BY DEF Restore, Begin, files
<1>2. Possible' = Possible
  BY <1>1 DEF Possible
<1>3. Saving(1, shape, Possible, dir, content, disk) /\ ~edited
  BY <1>1 DEF IInv, Answered
<1>4. FilesOK'
  BY <1>1 DEF IInv, FilesOK
<1>5. ControlOK'
  BY <1>1 DEF IInv, ControlOK, Tasks
<1>6. Crashproof(shape, Possible, disk)'
  BY <1>1, <1>2 DEF IInv, Crashproof, DurableOld, DurableNew, Saved, Holds
<1>7. Underway(task, at, shape, Possible, dir, content, disk, answer, faults)'
  BY <1>1, <1>2, <1>3 DEF Underway
<1> QED
  BY <1>1, <1>3, <1>4, <1>5, <1>6, <1>7 DEF IInv, Answered, WorkKept

LEMMA EditIs ==
  ASSUME FilesOK, Edit,
         DurableOld(shape, disk, dir) \/ DurableNew(shape, disk, dir)
  PROVE  /\ FilesOK' /\ dir' = dir /\ Possible' = Possible
         /\ disk'[dir["db"]] \subseteq {"old_edited", "new_edited"}
         /\ DurableOld(shape, disk, dir) => DurableOld(shape, disk', dir)
         /\ DurableNew(shape, disk, dir) => DurableNew(shape, disk', dir)
         /\ \A i \in Inodes : i[1] \in {"rollback", "queue_rollback"} => disk'[i] \subseteq disk[i]
<1> DEFINE i == dir["db"]
           value == IF content[i] = "old" THEN "old_edited" ELSE "new_edited"
<1>1. /\ dir' = dir /\ log' = log /\ Read("db") \in {"old", "new"}
      /\ content' = [content EXCEPT ![i] = value] /\ disk' = [disk EXCEPT ![i] = {value}]
  BY DEF Edit
<1>2. i \in Inodes /\ i # NoFile /\ i[1] \in {"db", "replacement"}
  BY DirFacts DEF FilesOK
<1>3. content[i] \in {"old", "new"} /\ content[i] \in disk[i]
  BY <1>1, <1>2 DEF Read, Exists, FilesOK
<1>4. value \in Contents /\ {value} \in SUBSET Contents /\ value \in {"old_edited", "new_edited"}
  BY DEF Contents
<1>5. /\ disk[i] \subseteq Old => value \in Old
      /\ disk[i] \subseteq New => value \in New
  BY <1>3 DEF Old, New
<1> HIDE DEF value, i
<1>6. /\ content' \in [Inodes -> Contents] /\ content'[i] = value
      /\ \A j \in Inodes \ {i} : content'[j] = content[j]
  BY <1>1, <1>2, <1>4 DEF FilesOK
<1>7. /\ disk' \in [Inodes -> SUBSET Contents] /\ disk'[i] = {value}
      /\ \A j \in Inodes \ {i} : disk'[j] = disk[j]
  BY <1>1, <1>2, <1>4 DEF FilesOK
<1>8. \A j \in Inodes : content'[j] \in disk'[j]
  BY <1>6, <1>7 DEF FilesOK
<1>9. FilesOK'
  BY <1>1, <1>6, <1>7, <1>8 DEF FilesOK
<1>10. dir["queue"] # NoFile => dir["queue"] \in Inodes \ {i}
  BY <1>2, DirFacts DEF FilesOK, Names
<1>11. dir["queue"] # NoFile => disk'[dir["queue"]] = disk[dir["queue"]]
  BY <1>7, <1>10
<1>12. DurableOld(shape, disk, dir) => DurableOld(shape, disk', dir)
  BY <1>5, <1>7, <1>11 DEF DurableOld, Holds, i
<1>13. DurableNew(shape, disk, dir) => DurableNew(shape, disk', dir)
  BY <1>5, <1>7, <1>11 DEF DurableNew, Holds, i
<1>14. Possible' = Possible
  BY <1>1 DEF Possible
<1>15. disk'[dir["db"]] \subseteq {"old_edited", "new_edited"}
  BY <1>4, <1>7 DEF i
<1>16. \A j \in Inodes : j[1] \in {"rollback", "queue_rollback"} => disk'[j] \subseteq disk[j]
  BY <1>2, <1>7
<1> QED
  BY <1>1, <1>9, <1>12, <1>13, <1>14, <1>15, <1>16

LEMMA EditInv ==
  ASSUME IInv, Edit
  PROVE  IInv'
<1>1. /\ task = "open" /\ answer # "none" /\ edited' = TRUE
      /\ UNCHANGED <<task, at, answer, shape, faults, crashes>>
  BY DEF Edit, control
<1>2. FilesOK /\ ControlOK
  BY DEF IInv
<1>3. Opened(shape, Possible, dir, disk, answer, faults)
  BY <1>1 DEF IInv, Underway
<1>4. DurableOld(shape, disk, dir) \/ DurableNew(shape, disk, dir)
  BY <1>3 DEF Opened
<1>5. /\ FilesOK' /\ dir' = dir /\ Possible' = Possible
      /\ disk'[dir["db"]] \subseteq {"old_edited", "new_edited"}
      /\ DurableOld(shape, disk, dir) => DurableOld(shape, disk', dir)
      /\ DurableNew(shape, disk, dir) => DurableNew(shape, disk', dir)
      /\ \A i \in Inodes : i[1] \in {"rollback", "queue_rollback"} => disk'[i] \subseteq disk[i]
  BY <1>2, <1>4, EditIs
<1>6. Possible = {dir} /\ Possible' = {dir}
  BY <1>3, <1>5 DEF Opened
<1>7. ControlOK'
  BY <1>1, <1>2 DEF ControlOK
<1>8. Crashproof(shape, Possible, disk)'
  <2>1. CASE dir["marker"] = NoFile
    BY <1>1, <1>4, <1>5, <1>6, <2>1 DEF Crashproof
  <2>2. CASE dir["marker"] # NoFile
    <3>1. Saved(shape, disk, dir) /\ dir \in Dirs
      BY <1>2, <1>6, <2>2 DEF IInv, Crashproof, FilesOK
    <3>2. Saved(shape, disk', dir)
      BY <1>5, <3>1, SavedKept
    <3> QED
      BY <1>1, <1>6, <2>2, <3>2 DEF Crashproof
  <2> QED
    BY <2>1, <2>2
<1>9. Opened(shape, Possible, dir, disk, answer, faults)'
  BY <1>1, <1>3, <1>4, <1>5, <1>6 DEF Opened
<1>10. Underway(task, at, shape, Possible, dir, content, disk, answer, faults)'
  BY <1>1, <1>9 DEF Underway
<1>11. Answered(task, shape, Possible, dir, content, disk, answer, edited)'
  <2>1. Answered(task, shape, Possible, dir, content, disk, answer, edited)
    BY DEF IInv
  <2> QED
    BY <1>1, <1>5, <1>6, <2>1 DEF Answered
<1>12. WorkKept(task, Possible, dir, disk, edited, faults)'
  <2>1. faults \in Int /\ (dir["marker"] # NoFile => faults >= 2)
    BY <1>2, <1>3 DEF ControlOK, Opened
  <2> QED
    BY <1>1, <1>5, <1>6, <2>1 DEF WorkKept
<1> QED
  BY <1>5, <1>7, <1>8, <1>10, <1>11, <1>12 DEF IInv

(* What a loss of power leaves of a directory that it may leave.           *)
LEMMA PowerLossInv ==
  ASSUME IInv, PowerLoss
  PROVE  IInv'
<1>1. /\ task # "stuck" /\ crashes < MaxCrashes /\ crashes' = crashes + 1
      /\ task' = "down" /\ at' = 1 /\ UNCHANGED <<answer, shape, edited, faults>>
  BY DEF PowerLoss, Begin
<1>2. FilesOK /\ ControlOK
  BY DEF IInv
<1>3. /\ FilesOK' /\ dir' \in Possible /\ Possible' = {dir'}
      /\ \A i \in Inodes : disk'[i] \subseteq disk[i]
  BY <1>2, PowerLossIs
<1>4. dir' \in Dirs
  BY <1>3 DEF FilesOK
<1>5. /\ DurableOld(shape, disk, dir') => DurableOld(shape, disk', dir')
      /\ DurableNew(shape, disk, dir') => DurableNew(shape, disk', dir')
      /\ Pristine(shape, disk, dir') => Pristine(shape, disk', dir')
  BY <1>3, <1>4, PairKept
<1>6. Saved(shape, disk, dir') => Saved(shape, disk', dir')
  BY <1>3, <1>4, SavedKept
<1>7. ControlOK'
  BY <1>1, <1>2 DEF ControlOK, Tasks
<1>8. Crashproof(shape, Possible, disk)'
  <2>1. Crashproof(shape, Possible, disk)
    BY DEF IInv
  <2> QED
    BY <1>1, <1>3, <1>5, <1>6, <2>1 DEF Crashproof
<1>9. Underway(task, at, shape, Possible, dir, content, disk, answer, faults)'
  BY <1>1 DEF Underway
<1>10. Answered(task, shape, Possible, dir, content, disk, answer, edited)'
  <2>1. Answered(task, shape, Possible, dir, content, disk, answer, edited)
    BY DEF IInv
  <2>2. ASSUME answer = "none"
        PROVE  dir' = dir /\ ~edited /\ Saving(1, shape, {dir'}, dir', content', disk')
    <3>1. Possible = {dir} /\ ~edited /\ Saving(1, shape, Possible, dir, content, disk)
      BY <2>1, <2>2 DEF Answered
    <3>2. dir' = dir
      BY <1>3, <3>1
    <3>3. /\ Pristine(shape, disk, dir') /\ Rooms({dir'})
          /\ dir'["rollback"] = NoFile /\ dir'["queue_rollback"] = NoFile
          /\ dir'["replacement"] = NoFile /\ dir'["marker"] = NoFile
      BY <3>1, <3>2 DEF Saving
    <3> QED
      BY <1>5, <3>1, <3>2, <3>3 DEF Saving
  <2>3. ASSUME answer = "restored"
        PROVE  dir'["marker"] = NoFile /\ DurableNew(shape, disk', dir')
    BY <1>3, <1>5, <2>1, <2>3 DEF Answered
  <2>4. ASSUME answer = "failed"
        PROVE  dir'["marker"] = NoFile => DurableOld(shape, disk', dir')
    BY <1>3, <1>5, <2>1, <2>4 DEF Answered
  <2> QED
    BY <1>1, <1>3, <2>2, <2>3, <2>4 DEF Answered
<1>11. WorkKept(task, Possible, dir, disk, edited, faults)'
  <2>1. WorkKept(task, Possible, dir, disk, edited, faults)
    BY DEF IInv
  <2>2. disk'[dir'["db"]] \subseteq disk[dir'["db"]]
    BY <1>3, <1>4, DirFacts
  <2> QED
    BY <1>1, <1>3, <2>1, <2>2 DEF WorkKept
<1> QED
  BY <1>3, <1>7, <1>8, <1>9, <1>10, <1>11 DEF IInv

LEMMA StartupInv ==
  ASSUME IInv, Settles, Startup
  PROVE  IInv'
<1>1. /\ task = "down" /\ at' = 1 /\ UNCHANGED <<answer, shape, edited, faults, crashes>>
      /\ task' = IF ~Exists("marker") THEN "open" ELSE IF HasRollback THEN "recover" ELSE "stuck"
  BY DEF Startup, Begin
<1>2. FilesOK /\ ControlOK
  BY DEF IInv
<1>3. /\ FilesOK' /\ dir' = dir /\ Possible' = {dir}
      /\ content' = content /\ disk' = disk /\ dir \in Possible
  BY <1>2, StartupIs, PossibleDirs
<1>4. IF dir["marker"] = NoFile THEN DurableOld(shape, disk, dir) \/ DurableNew(shape, disk, dir)
                                ELSE Saved(shape, disk, dir)
  BY <1>3 DEF IInv, Crashproof
<1>5. task' = IF dir["marker"] = NoFile THEN "open" ELSE "recover"
  <2>1. Exists("marker") <=> dir["marker"] # NoFile
    BY DEF Exists
  <2>2. ASSUME dir["marker"] # NoFile PROVE HasRollback
    BY <1>4, <2>2 DEF HasRollback, QueueExisted, Exists, Saved, Holds
  <2> QED
    BY <1>1, <2>1, <2>2
<1>6. ControlOK'
  BY <1>1, <1>2, <1>5 DEF ControlOK, Tasks
<1>7. Crashproof(shape, Possible, disk)'
  BY <1>1, <1>3, <1>4 DEF Crashproof
<1>8. Underway(task, at, shape, Possible, dir, content, disk, answer, faults)'
  <2>1. CASE dir["marker"] = NoFile
    <3>1. Opened(shape, Possible, dir, disk, answer, faults)'
      BY <1>1, <1>3, <1>4, <2>1 DEF Opened
    <3> QED
      BY <1>5, <2>1, <3>1 DEF Underway
  <2>2. CASE dir["marker"] # NoFile
    <3>1. Guarded(shape, disk, dir) /\ Vacant({dir}, "queue")
      BY <1>4, <2>2, OneDirectoryHasRooms, RoomsTaken DEF Guarded
    <3>2. Reverting(1, shape, {dir}, dir, content, disk)
      BY <3>1 DEF Reverting
    <3> QED
      BY <1>1, <1>3, <1>5, <2>2, <3>2 DEF Underway, Place
  <2> QED
    BY <2>1, <2>2
<1>9. Answered(task, shape, Possible, dir, content, disk, answer, edited)'
  <2>1. Answered(task, shape, Possible, dir, content, disk, answer, edited)
    BY DEF IInv
  <2>2. ASSUME answer = "none"
        PROVE  dir["marker"] = NoFile /\ ~edited /\ Saving(1, shape, {dir}, dir, content, disk)
    BY <1>3, <2>1, <2>2 DEF Answered, Saving
  <2>3. ASSUME answer = "restored"
        PROVE  dir["marker"] = NoFile /\ DurableNew(shape, disk, dir)
    BY <2>1, <2>3 DEF Answered
  <2>4. ASSUME answer = "failed"
        PROVE  dir["marker"] = NoFile => DurableOld(shape, disk, dir)
    BY <1>3, <2>1, <2>4 DEF Answered
  <2> QED
    BY <1>1, <1>3, <1>5, <2>2, <2>3, <2>4 DEF Answered
<1>10. WorkKept(task, Possible, dir, disk, edited, faults)'
  <2>1. WorkKept(task, Possible, dir, disk, edited, faults)
    BY DEF IInv
  <2> QED
    BY <1>1, <1>3, <1>5, <2>1 DEF WorkKept
<1> QED
  BY <1>3, <1>6, <1>7, <1>8, <1>9, <1>10 DEF IInv

(* What a failing or interrupted operation may have written, and which     *)
(* operations fail.                                                        *)
LEMMA TargetIs ==
  /\ \A k \in 1 .. 8 : Target(Program("swap")[k]) = IF k = 3 THEN "queue" ELSE "none"
  /\ \A k \in 1 .. 8 : Target(Program("rollback")[k]) =
                          IF k = 1 THEN "db" ELSE IF k = 3 THEN "queue" ELSE "none"
  /\ \A k \in 1 .. 7 : Target(Program("recover")[k]) =
                          IF k = 1 THEN "db" ELSE IF k = 3 THEN "queue" ELSE "none"
<1>1. /\ Target("replace") = "none" /\ Target("drop_queue") = "none"
      /\ Target("new_queue") = "queue" /\ Target("old_queue") = "queue"
      /\ Target("copy_back") = "db" /\ Target("sync") = "none" /\ Target("reopen") = "none"
      /\ Target("sync_parent") = "none" /\ Target("unmark") = "none"
  BY DEF Target
<1>2. \A k \in 1 .. 8 : k \in {1, 2, 3, 4, 5, 6, 7, 8}
  OBVIOUS
<1>3. \A k \in 1 .. 7 : k \in {1, 2, 3, 4, 5, 6, 7}
  OBVIOUS
<1>4. \A k \in 1 .. 8 : Target(Program("swap")[k]) = IF k = 3 THEN "queue" ELSE "none"
  BY <1>1, <1>2, ProgramIs
<1>5. \A k \in 1 .. 8 : Target(Program("rollback")[k]) =
                          IF k = 1 THEN "db" ELSE IF k = 3 THEN "queue" ELSE "none"
  BY <1>1, <1>2, ProgramIs
<1>6. \A k \in 1 .. 7 : Target(Program("recover")[k]) =
                          IF k = 1 THEN "db" ELSE IF k = 3 THEN "queue" ELSE "none"
  BY <1>1, <1>3, ProgramIs
<1> QED
  BY <1>4, <1>5, <1>6

LEMMA KindIs ==
  /\ \A k \in 1 .. 6 : Kind(Program("restore")[k]) = "io" => k <= 5
  /\ \A k \in 1 .. 8 : Kind(Program("swap")[k]) = "io" => k \in {1, 3, 4, 5, 7}
  /\ \A k \in 1 .. 8 : Kind(Program("rollback")[k]) = "io" => k \in {1, 3, 4, 5, 7}
  /\ \A k \in 1 .. 7 : Kind(Program("recover")[k]) = "io" => k \in {1, 3, 4, 6}
<1>1. Kind("drop_queue") = "remove" /\ Kind("sync_parent") = "parent"
  BY DEF Kind
<1>2. \A k \in 1 .. 8 : k \in {1, 2, 3, 4, 5, 6, 7, 8}
  OBVIOUS
<1>3. \A k \in 1 .. 6 : Kind(Program("restore")[k]) = "io" => k <= 5
  BY <1>1, <1>2, ProgramIs
<1>4. \A k \in 1 .. 8 : Kind(Program("swap")[k]) = "io" => k \in {1, 3, 4, 5, 7}
  BY <1>1, <1>2, ProgramIs
<1>5. \A k \in 1 .. 8 : Kind(Program("rollback")[k]) = "io" => k \in {1, 3, 4, 5, 7}
  BY <1>1, <1>2, ProgramIs
<1>6. \A k \in 1 .. 7 : Kind(Program("recover")[k]) = "io" => k \in {1, 3, 4, 6}
  BY <1>1, <1>2, ProgramIs
<1> QED
  BY <1>3, <1>4, <1>5, <1>6

LEMMA UnderwayIs ==
  ASSUME IInv
  PROVE  /\ task = "open" => Opened(shape, Possible, dir, disk, answer, faults)
         /\ task = "restore" => at \in 1 .. 6 /\ answer = "pending" /\ SavingNow(at)
         /\ task = "swap" => at \in 1 .. 8 /\ answer = "pending" /\ SwappingNow(at)
         /\ task = "rollback" =>
               at \in 1 .. 8 /\ answer = "pending" /\ faults >= 1 /\ RevertingNow(at)
         /\ task = "recover" => /\ at \in 1 .. 7
                                /\ RevertingNow(IF at > 4 THEN at + 1 ELSE at)
                                /\ answer \in {"pending", "failed"}
<1>1. task = "recover" => answer \in {"pending", "failed"}
  BY DEF IInv, Answered, ControlOK
<1> QED
  BY <1>1 DEF IInv, Underway, Place, SavingNow, SwappingNow, RevertingNow

LEMMA CutShort ==
  ASSUME IInv, task \in Programs, PartOf(Op)
  PROVE  FilesOK' /\ (TakenBack(shape, Possible', disk') \/ UNCHANGED files)
<1>1. FilesOK /\ Op = Program(task)[at]
  BY DEF IInv, Op
<1>2. CASE task = "restore"
  BY <1>1, <1>2, UnderwayIs, SavingPart
<1>3. CASE task = "swap"
  <2>1. at \in 1 .. 8 /\ SwappingNow(at)
    BY <1>3, UnderwayIs
  <2>2. Target(Op) = IF at = 3 THEN "queue" ELSE "none"
    BY <1>1, <1>3, <2>1, TargetIs
  <2>3. CASE at <= 7
    <3>1. AllGuarded /\ Vacant(Possible, "queue")
      BY <2>1, <2>3 DEF SwappingNow, Swapping, AllGuarded
    <3>2. FilesOK' /\ AllGuardedNext
      BY <1>1, <2>2, <3>1, GuardedPart
    <3> QED
      BY <3>2, GuardedIsTaken
  <2>4. CASE at = 8
    BY <1>1, <2>2, <2>4, NothingIs DEF PartOf
  <2> QED
    BY <2>1, <2>3, <2>4
<1>4. CASE task = "rollback"
  <2>1. at \in 1 .. 8 /\ RevertingNow(at)
    BY <1>4, UnderwayIs
  <2>2. Target(Op) = IF at = 1 THEN "db" ELSE IF at = 3 THEN "queue" ELSE "none"
    BY <1>1, <1>4, <2>1, TargetIs
  <2>3. CASE at <= 7
    <3>1. AllGuarded /\ (at <= 3 => Vacant(Possible, "queue"))
      BY <2>1, <2>3 DEF RevertingNow, Reverting, AllGuarded
    <3>2. FilesOK' /\ AllGuardedNext
      BY <1>1, <2>2, <3>1, GuardedPart
    <3> QED
      BY <3>2, GuardedIsTaken
  <2>4. CASE at = 8
    BY <1>1, <2>2, <2>4, NothingIs DEF PartOf
  <2> QED
    BY <2>1, <2>3, <2>4
<1>5. CASE task = "recover"
  <2>1. at \in 1 .. 7 /\ RevertingNow(IF at > 4 THEN at + 1 ELSE at)
    BY <1>5, UnderwayIs
  <2>2. Target(Op) = IF at = 1 THEN "db" ELSE IF at = 3 THEN "queue" ELSE "none"
    BY <1>1, <1>5, <2>1, TargetIs
  <2>3. CASE at <= 6
    <3>1. AllGuarded /\ (at <= 3 => Vacant(Possible, "queue"))
      BY <2>1, <2>3 DEF RevertingNow, Reverting, AllGuarded
    <3>2. FilesOK' /\ AllGuardedNext
      BY <1>1, <2>2, <3>1, GuardedPart
    <3> QED
      BY <3>2, GuardedIsTaken
  <2>4. CASE at = 7
    BY <1>1, <2>2, <2>4, NothingIs DEF PartOf
  <2> QED
    BY <2>1, <2>3, <2>4
<1> QED
  BY <1>2, <1>3, <1>4, <1>5 DEF Programs

(* A program that ends before its end leaves the library closed, or the    *)
(* process down.                                                           *)
LEMMA EndsClosed ==
  ASSUME IInv, task \in Programs, FilesOK', TakenBack(shape, Possible', disk'),
         task' \in {"closed", "down"}, at' = 1, answer' \in {"pending", "failed"},
         UNCHANGED <<shape, edited>>, faults' \in faults .. MaxFaults, crashes' \in 0 .. MaxCrashes
  PROVE  IInv'
<1>1. ~(edited /\ faults <= 1) /\ faults \in 0 .. MaxFaults /\ ControlOK
  BY DEF IInv, WorkKept, ControlOK, Programs
<1>2. ControlOK'
  BY <1>1 DEF ControlOK, Tasks
<1>3. Crashproof(shape, Possible, disk)'
  BY TakenIsCrashproof
<1>4. Underway(task, at, shape, Possible, dir, content, disk, answer, faults)'
  BY DEF Underway
<1>5. Answered(task, shape, Possible, dir, content, disk, answer, edited)'
  BY DEF Answered, TakenBack
<1>6. WorkKept(task, Possible, dir, disk, edited, faults)'
  BY <1>1 DEF WorkKept
<1> QED
  BY <1>2, <1>3, <1>4, <1>5, <1>6 DEF IInv

(* A restore that goes on owes its answer still.                           *)
LEMMA GoesOn ==
  ASSUME IInv, task \in {"restore", "swap", "rollback"}, FilesOK',
         Crashproof(shape, Possible', disk'),
         Underway(task', at', shape, Possible', dir', content', disk', answer', faults'),
         task' \in {"restore", "swap", "rollback"}, at' \in 1 .. 8, answer' = "pending",
         UNCHANGED <<shape, edited, crashes>>, faults' \in faults .. MaxFaults
  PROVE  IInv'
<1>1. ~(edited /\ faults <= 1) /\ faults \in 0 .. MaxFaults /\ ControlOK
  BY DEF IInv, WorkKept, ControlOK
<1>2. ControlOK'
  BY <1>1 DEF ControlOK, Tasks
<1>3. Crashproof(shape, Possible, disk)'
  OBVIOUS
<1>4. Underway(task, at, shape, Possible, dir, content, disk, answer, faults)'
  OBVIOUS
<1>5. Answered(task, shape, Possible, dir, content, disk, answer, edited)'
  BY DEF Answered
<1>6. WorkKept(task, Possible, dir, disk, edited, faults)'
  BY <1>1 DEF WorkKept
<1> QED
  BY <1>2, <1>3, <1>4, <1>5, <1>6 DEF IInv

LEMMA CrashInv ==
  ASSUME IInv, Crash
  PROVE  IInv'
<1>1. /\ task \notin {"stuck", "down"} /\ crashes < MaxCrashes /\ crashes' = crashes + 1
      /\ task' = "down" /\ at' = 1 /\ UNCHANGED <<answer, shape, edited, faults>>
      /\ IF task \in Programs THEN PartOf(Op) ELSE UNCHANGED files
  BY DEF Crash, Begin
<1>2. FilesOK /\ ControlOK
  BY DEF IInv
<1>3. ControlOK'
  BY <1>1, <1>2 DEF ControlOK, Tasks
<1>4. Underway(task, at, shape, Possible, dir, content, disk, answer, faults)'
  BY <1>1 DEF Underway
<1>5. FilesOK' /\ (UNCHANGED files \/ (task \in Programs /\ TakenBack(shape, Possible', disk')))
  BY <1>1, <1>2, CutShort, NothingIs
<1>6. CASE UNCHANGED files
  <2>1. Possible' = Possible /\ dir' = dir /\ content' = content /\ disk' = disk
    BY <1>6 DEF Possible, files
  <2>2. /\ Crashproof(shape, Possible, disk)
        /\ Answered(task, shape, Possible, dir, content, disk, answer, edited)
        /\ WorkKept(task, Possible, dir, disk, edited, faults)
    BY DEF IInv
  <2>3. Crashproof(shape, Possible, disk)'
    BY <1>1, <2>1, <2>2
  <2>4. Answered(task, shape, Possible, dir, content, disk, answer, edited)'
    BY <1>1, <2>1, <2>2 DEF Answered
  <2>5. WorkKept(task, Possible, dir, disk, edited, faults)'
    BY <1>1, <2>1, <2>2 DEF WorkKept
  <2> QED
    BY <1>3, <1>4, <1>5, <2>3, <2>4, <2>5 DEF IInv
<1>7. CASE task \in Programs /\ TakenBack(shape, Possible', disk')
  <2>1. /\ answer \in {"pending", "failed"} /\ faults' \in faults .. MaxFaults
        /\ crashes' \in 0 .. MaxCrashes
    BY <1>1, <1>2, <1>7 DEF IInv, Answered, ControlOK, Programs
  <2> QED
    BY <1>1, <1>5, <1>7, <2>1, EndsClosed
<1> QED
  BY <1>5, <1>6, <1>7

(* What a failing operation begins.                                        *)
LEMMA FaultIs ==
  ASSUME IInv, Faults \subseteq {"io"}, Fault
  PROVE  /\ task \in Programs /\ PartOf(Program(task)[at])
         /\ Kind(Program(task)[at]) = "io"
         /\ faults' = faults + 1 /\ faults' \in faults .. MaxFaults
         /\ UNCHANGED <<shape, edited, crashes>>
         /\ task = "restore"  => task' = "closed" /\ at' = 1 /\ answer' = "failed"
         /\ task = "swap"     => task' = "rollback" /\ at' = 1 /\ answer' = answer
         /\ task = "rollback" => /\ task' = IF at > 5 THEN "open" ELSE "closed"
                                 /\ at' = 1 /\ answer' = "failed"
         /\ task = "recover"  => task' = "down" /\ at' = 1 /\ answer' = answer
<1>1. /\ task \in Programs /\ faults < MaxFaults /\ Kind(Op) \in Faults
      /\ faults' = faults + 1 /\ PartOf(Op) /\ UNCHANGED <<shape, edited, crashes>>
  BY DEF Fault
<1>2. Op = Program(task)[at]
  BY <1>1 DEF Op
<1>3. Kind(Op) = "io" /\ Op # "drop_queue"
  BY <1>1 DEF Kind
<1>4. Failed
  BY <1>3 DEF Fault
<1>5. faults \in 0 .. MaxFaults
  BY DEF IInv, ControlOK
<1>6. faults' \in faults .. MaxFaults
  BY <1>1, <1>5
<1>7. task = "restore" => task' = "closed" /\ at' = 1 /\ answer' = "failed"
  BY <1>4 DEF Failed, Begin
<1>8. task = "swap" => task' = "rollback" /\ at' = 1 /\ answer' = answer
  BY <1>4 DEF Failed, Begin
<1>9. task = "rollback" => /\ task' = IF at > 5 THEN "open" ELSE "closed"
                           /\ at' = 1 /\ answer' = "failed"
  BY <1>4 DEF Failed, Begin, Reopened
<1>10. task = "recover" => task' = "down" /\ at' = 1 /\ answer' = answer
  BY <1>4 DEF Failed, Begin
<1> QED
  BY <1>1, <1>2, <1>3, <1>6, <1>7, <1>8, <1>9, <1>10

LEMMA FaultInv ==
  ASSUME IInv, Faults \subseteq {"io"}, Fault
  PROVE  IInv'
<1>1. /\ task \in Programs /\ PartOf(Program(task)[at])
      /\ Kind(Program(task)[at]) = "io"
      /\ faults' = faults + 1 /\ faults' \in faults .. MaxFaults
      /\ UNCHANGED <<shape, edited, crashes>>
      /\ FilesOK /\ ControlOK /\ crashes' \in 0 .. MaxCrashes
  BY FaultIs DEF IInv, ControlOK
<1>2. CASE task = "restore"
  <2>1. at \in 1 .. 6 /\ SavingNow(at)
    BY <1>2, UnderwayIs
  <2>2. FilesOK' /\ TakenBack(shape, Possible', disk')
    BY <1>1, <1>2, <2>1, SavingPart
  <2>3. task' = "closed" /\ at' = 1 /\ answer' = "failed"
    BY <1>2, FaultIs
  <2> QED
    BY <1>1, <2>2, <2>3, EndsClosed
<1>3. CASE task = "swap"
  <2>1. at \in 1 .. 8 /\ SwappingNow(at) /\ answer = "pending"
    BY <1>3, UnderwayIs
  <2>2. at \in {1, 3, 4, 5, 7}
    BY <1>1, <1>3, <2>1, KindIs
  <2>3. Target(Program(task)[at]) = IF at = 3 THEN "queue" ELSE "none"
    BY <1>3, <2>1, TargetIs
  <2>4. AllGuarded /\ (at = 3 => Rooms(Possible)) /\ Vacant(Possible, "queue")
    BY <2>1, <2>2 DEF SwappingNow, Swapping, AllGuarded
  <2>5. FilesOK' /\ AllGuardedNext /\ Vacant(Possible', "queue")
    BY <1>1, <2>3, <2>4, GuardedPart
  <2>6. task' = "rollback" /\ at' = 1 /\ answer' = "pending"
    BY <1>3, <2>1, FaultIs
  <2>7. Reverting(1, shape, Possible', dir', content', disk')
    BY <2>5 DEF Reverting, AllGuardedNext
  <2>8. faults' >= 1
    BY <1>1 DEF ControlOK
  <2>9. Underway(task', at', shape, Possible', dir', content', disk', answer', faults')
    BY <2>6, <2>7, <2>8 DEF Underway, Place
  <2>10. Crashproof(shape, Possible', disk')
    BY <2>5, GuardedIsTaken, TakenIsCrashproof
  <2> QED
    BY <1>1, <1>3, <2>5, <2>6, <2>9, <2>10, GoesOn
<1>4. CASE task = "rollback"
  <2>1. at \in 1 .. 8 /\ RevertingNow(at) /\ answer = "pending" /\ faults >= 1
    BY <1>4, UnderwayIs
  <2>2. at \in {1, 3, 4, 5, 7}
    BY <1>1, <1>4, <2>1, KindIs
  <2>3. Target(Program(task)[at]) =
           IF at = 1 THEN "db" ELSE IF at = 3 THEN "queue" ELSE "none"
    BY <1>4, <2>1, TargetIs
  <2>4. AllGuarded /\ (at = 3 => Vacant(Possible, "queue"))
    BY <2>1, <2>2 DEF RevertingNow, Reverting, AllGuarded
  <2>5. FilesOK' /\ TakenBack(shape, Possible', disk')
    BY <1>1, <2>3, <2>4, GuardedPart, GuardedIsTaken
  <2>6. CASE at <= 5
    <3>1. task' = "closed" /\ at' = 1 /\ answer' = "failed"
      BY <1>4, <2>1, <2>6, FaultIs
    <3> QED
      BY <1>1, <2>5, <3>1, EndsClosed
  <2>7. CASE at = 7
    <3>1. task' = "open" /\ at' = 1 /\ answer' = "failed"
      BY <1>4, <2>7, FaultIs
    <3>2. UNCHANGED files
      BY <1>1, <2>3, <2>7 DEF PartOf
    <3>3. Possible' = Possible /\ dir' = dir /\ content' = content /\ disk' = disk
      BY <3>2 DEF Possible, files
    <3>4. Possible = {dir} /\ DurableOld(shape, disk, dir)
      BY <2>1, <2>7 DEF RevertingNow, Reverting
    <3>5. faults' >= 2 /\ ~(edited /\ faults <= 1) /\ faults \in 0 .. MaxFaults
      BY <1>1, <1>4, <2>1 DEF IInv, WorkKept, ControlOK
    <3>6. ControlOK'
      BY <1>1, <3>1 DEF ControlOK, Tasks
    <3>7. Crashproof(shape, Possible, disk)'
      BY <1>1, <2>5, TakenIsCrashproof
    <3>8. Opened(shape, Possible, dir, disk, answer, faults)'
      BY <1>1, <3>1, <3>3, <3>4, <3>5 DEF Opened
    <3>9. Underway(task, at, shape, Possible, dir, content, disk, answer, faults)'
      BY <3>1, <3>8 DEF Underway
    <3>10. Answered(task, shape, Possible, dir, content, disk, answer, edited)'
      BY <1>1, <3>1, <3>3, <3>4 DEF Answered
    <3>11. WorkKept(task, Possible, dir, disk, edited, faults)'
      BY <1>1, <3>5 DEF WorkKept
    <3> QED
      BY <2>5, <3>6, <3>7, <3>9, <3>10, <3>11 DEF IInv
  <2> QED
    BY <2>2, <2>6, <2>7
<1>5. CASE task = "recover"
  <2>1. /\ at \in 1 .. 7 /\ RevertingNow(IF at > 4 THEN at + 1 ELSE at)
        /\ answer \in {"pending", "failed"}
    BY <1>5, UnderwayIs
  <2>2. at \in {1, 3, 4, 6}
    BY <1>1, <1>5, <2>1, KindIs
  <2>3. Target(Program(task)[at]) =
           IF at = 1 THEN "db" ELSE IF at = 3 THEN "queue" ELSE "none"
    BY <1>5, <2>1, TargetIs
  <2>4. AllGuarded /\ (at = 3 => Vacant(Possible, "queue"))
    BY <2>1, <2>2 DEF RevertingNow, Reverting, AllGuarded
  <2>5. FilesOK' /\ TakenBack(shape, Possible', disk')
    BY <1>1, <2>3, <2>4, GuardedPart, GuardedIsTaken
  <2>6. task' = "down" /\ at' = 1 /\ answer' \in {"pending", "failed"}
    BY <1>5, <2>1, FaultIs
  <2> QED
    BY <1>1, <2>5, <2>6, EndsClosed
<1> QED
  BY <1>1, <1>2, <1>3, <1>4, <1>5 DEF Programs

(* What a successful operation begins.                                     *)
LEMMA StepIs ==
  ASSUME IInv, Step
  PROVE  /\ task \in Programs /\ Effect(Program(task)[at])
         /\ UNCHANGED <<shape, edited, faults, crashes>>
         /\ at < Len(Program(task)) => at' = at + 1 /\ task' = task /\ answer' = answer
         /\ task = "restore" /\ at = 6 => task' = "swap" /\ at' = 1 /\ answer' = answer
         /\ task = "swap" /\ at = 8 => task' = "open" /\ at' = 1 /\ answer' = "restored"
         /\ task = "rollback" /\ at = 8 => task' = "open" /\ at' = 1 /\ answer' = "failed"
         /\ task = "recover" /\ at = 7 => task' = "open" /\ at' = 1 /\ answer' = answer
<1>1. /\ task \in Programs /\ Effect(Op) /\ UNCHANGED <<shape, edited, faults, crashes>>
      /\ IF at < Len(Program(task)) THEN at' = at + 1 /\ UNCHANGED <<task, answer>> ELSE Ended
  BY DEF Step
<1>2. Op = Program(task)[at]
  BY <1>1 DEF Op
<1>3. ~(6 < 6) /\ ~(7 < 7) /\ ~(8 < 8)
  OBVIOUS
<1>4. ASSUME task = "restore", at = 6
      PROVE  task' = "swap" /\ at' = 1 /\ answer' = answer
  <2>1. Len(Program(task)) = 6
    BY <1>4, ProgramIs
  <2>2. ~(at < Len(Program(task)))
    BY <1>3, <1>4, <2>1, Zenon
  <2>3. Ended
    BY <1>1, <2>2, Zenon
  <2> QED
    BY <1>4, <2>3 DEF Ended, Begin
<1>5. ASSUME task = "swap", at = 8
      PROVE  task' = "open" /\ at' = 1 /\ answer' = "restored"
  <2>1. Len(Program(task)) = 8
    BY <1>5, ProgramIs
  <2>2. ~(at < Len(Program(task)))
    BY <1>3, <1>5, <2>1, Zenon
  <2>3. Ended
    BY <1>1, <2>2, Zenon
  <2> QED
    BY <1>5, <2>3 DEF Ended, Begin
<1>6. ASSUME task = "rollback", at = 8
      PROVE  task' = "open" /\ at' = 1 /\ answer' = "failed"
  <2>1. Len(Program(task)) = 8
    BY <1>6, ProgramIs
  <2>2. ~(at < Len(Program(task)))
    BY <1>3, <1>6, <2>1, Zenon
  <2>3. Ended
    BY <1>1, <2>2, Zenon
  <2> QED
    BY <1>6, <2>3 DEF Ended, Begin
<1>7. ASSUME task = "recover", at = 7
      PROVE  task' = "open" /\ at' = 1 /\ answer' = answer
  <2>1. Len(Program(task)) = 7
    BY <1>7, ProgramIs
  <2>2. ~(at < Len(Program(task)))
    BY <1>3, <1>7, <2>1, Zenon
  <2>3. Ended
    BY <1>1, <2>2, Zenon
  <2> QED
    BY <1>7, <2>3 DEF Ended, Begin
<1> QED
  BY <1>1, <1>2, <1>4, <1>5, <1>6, <1>7

LEMMA SavingStep ==
  ASSUME FilesOK, NEW k \in 1 .. 6, SavingNow(k), Effect(Program("restore")[k])
  PROVE  FilesOK' /\ IF k = 6 THEN SwappingNext(1) ELSE SavingNext(k + 1)
<1>1. k \in {1, 2, 3, 4, 5, 6}
  OBVIOUS
<1>2. CASE k = 1
  BY <1>2, SaveDb, ProgramIs
<1>3. CASE k = 2
  BY <1>3, SaveQueue, ProgramIs
<1>4. CASE k = 3
  BY <1>4, Prepare, ProgramIs
<1>5. CASE k = 4
  BY <1>5, Persist, ProgramIs
<1>6. CASE k = 5
  BY <1>6, Mark, ProgramIs
<1>7. CASE k = 6
  BY <1>7, SaveSync, ProgramIs
<1> QED
  BY <1>1, <1>2, <1>3, <1>4, <1>5, <1>6, <1>7

LEMMA SwappingStep ==
  ASSUME FilesOK, NEW k \in 1 .. 7, SwappingNow(k), Effect(Program("swap")[k])
  PROVE  FilesOK' /\ SwappingNext(k + 1) /\ Crashproof(shape, Possible', disk')
<1>1. FilesOK' /\ SwappingNext(k + 1)
  <2>1. k \in {1, 2, 3, 4, 5, 6, 7}
    OBVIOUS
  <2>2. CASE k = 1
    BY <2>2, Replace, ProgramIs
  <2>3. CASE k = 2
    BY <2>3, SwapDrop, ProgramIs
  <2>4. CASE k = 3
    BY <2>4, NewQueue, ProgramIs
  <2>5. CASE k = 4
    BY <2>5, SwapSync, ProgramIs
  <2>6. CASE k = 5
    BY <2>6, SwapReopen, ProgramIs
  <2>7. CASE k = 6
    BY <2>7, SwapSettles, ProgramIs
  <2>8. CASE k = 7
    BY <2>8, SwapUnmark, ProgramIs
  <2> QED
    BY <2>1, <2>2, <2>3, <2>4, <2>5, <2>6, <2>7, <2>8
<1>2. CASE k < 7
  <2>1. AllGuardedNext
    BY <1>1, <1>2 DEF SwappingNext, Swapping, AllGuardedNext
  <2> QED
    BY <1>1, <2>1, GuardedIsTaken, TakenIsCrashproof
<1>3. CASE k = 7
  BY <1>3, SwapUnmark, ProgramIs
<1> QED
  BY <1>1, <1>2, <1>3

(* The position is the one in the rollback; the recovery leaves out the    *)
(* fifth.                                                                  *)
LEMMA RevertingStep ==
  ASSUME FilesOK, NEW k \in 1 .. 7, RevertingNow(k), Effect(Program("rollback")[k])
  PROVE  /\ FilesOK' /\ RevertingNext(k + 1) /\ (k = 4 => RevertingNext(6))
         /\ TakenBack(shape, Possible', disk')
<1>1. FilesOK' /\ RevertingNext(k + 1) /\ (k = 4 => RevertingNext(6))
  <2>1. k \in {1, 2, 3, 4, 5, 6, 7}
    OBVIOUS
  <2>2. CASE k = 1
    BY <2>2, CopyBack, ProgramIs
  <2>3. CASE k = 2
    BY <2>3, RevertDrop, ProgramIs
  <2>4. CASE k = 3
    BY <2>4, OldQueue, ProgramIs
  <2>5. CASE k = 4
    BY <2>5, RevertSync, ProgramIs
  <2>6. CASE k = 5
    BY <2>6, RevertReopen, ProgramIs
  <2>7. CASE k = 6
    BY <2>7, RevertSettles, ProgramIs
  <2>8. CASE k = 7
    BY <2>8, RevertUnmark, ProgramIs
  <2> QED
    BY <2>1, <2>2, <2>3, <2>4, <2>5, <2>6, <2>7, <2>8
<1>2. CASE k < 7
  <2>1. AllGuardedNext
    BY <1>1, <1>2 DEF RevertingNext, Reverting, AllGuardedNext
  <2> QED
    BY <1>1, <2>1, GuardedIsTaken
<1>3. CASE k = 7
  BY <1>3, RevertUnmark, ProgramIs
<1> QED
  BY <1>1, <1>2, <1>3

(* A program that comes to its end opens the library.                      *)
LEMMA EndsOpen ==
  ASSUME IInv, task \in Programs, FilesOK', Possible' = {dir'}, dir'["marker"] = NoFile,
         DurableOld(shape, disk', dir') \/ DurableNew(shape, disk', dir'),
         task' = "open", at' = 1, answer' \in {"pending", "restored", "failed"},
         answer' = "restored" => DurableNew(shape, disk', dir'),
         answer' = "failed" => DurableOld(shape, disk', dir'),
         UNCHANGED <<shape, edited, faults, crashes>>
  PROVE  IInv'
<1>1. ~(edited /\ faults <= 1) /\ ControlOK
  BY DEF IInv, WorkKept, Programs
<1>2. ControlOK'
  BY <1>1 DEF ControlOK, Tasks
<1>3. Crashproof(shape, Possible, disk)'
  BY DEF Crashproof
<1>4. Opened(shape, Possible, dir, disk, answer, faults)'
  BY DEF Opened
<1>5. Underway(task, at, shape, Possible, dir, content, disk, answer, faults)'
  BY <1>4 DEF Underway
<1>6. Answered(task, shape, Possible, dir, content, disk, answer, edited)'
  BY DEF Answered
<1>7. WorkKept(task, Possible, dir, disk, edited, faults)'
  BY <1>1 DEF WorkKept
<1> QED
  BY <1>2, <1>3, <1>5, <1>6, <1>7 DEF IInv

LEMMA StepInv ==
  ASSUME IInv, Step
  PROVE  IInv'
<1>1. /\ task \in Programs /\ Effect(Program(task)[at])
      /\ UNCHANGED <<shape, edited, faults, crashes>>
      /\ FilesOK /\ ControlOK /\ faults' \in faults .. MaxFaults
  BY StepIs DEF IInv, ControlOK
<1>2. CASE task = "restore"
  <2>1. at \in 1 .. 6 /\ SavingNow(at) /\ answer = "pending"
    BY <1>2, UnderwayIs
  <2>2. FilesOK' /\ IF at = 6 THEN SwappingNext(1) ELSE SavingNext(at + 1)
    BY <1>1, <1>2, <2>1, SavingStep
  <2>3. CASE at = 6
    <3>1. task' = "swap" /\ at' = 1 /\ answer' = "pending"
      BY <1>2, <2>1, <2>3, StepIs
    <3>2. AllGuardedNext
      BY <2>2, <2>3 DEF SwappingNext, Swapping, AllGuardedNext
    <3>3. Crashproof(shape, Possible', disk')
      BY <3>2, GuardedIsTaken, TakenIsCrashproof
    <3>4. Underway(task', at', shape, Possible', dir', content', disk', answer', faults')
      BY <2>2, <2>3, <3>1 DEF Underway, SwappingNext
    <3> QED
      BY <1>1, <1>2, <2>2, <3>1, <3>3, <3>4, GoesOn
  <2>4. CASE at # 6
    <3>1. at + 1 \in 1 .. 6 /\ at + 1 \in 1 .. 8 /\ at < Len(Program(task))
      BY <1>2, <2>1, <2>4, ProgramIs
    <3>2. task' = "restore" /\ at' = at + 1 /\ answer' = "pending"
      BY <1>2, <2>1, <3>1, StepIs
    <3>3. Crashproof(shape, Possible', disk')
      BY <2>2, <2>4, SavingTaken, TakenIsCrashproof DEF SavingNext
    <3>4. Underway(task', at', shape, Possible', dir', content', disk', answer', faults')
      BY <2>2, <2>4, <3>1, <3>2 DEF Underway, SavingNext
    <3> QED
      BY <1>1, <1>2, <2>2, <3>1, <3>2, <3>3, <3>4, GoesOn
  <2> QED
    BY <2>3, <2>4
<1>3. CASE task = "swap"
  <2>1. at \in 1 .. 8 /\ SwappingNow(at) /\ answer = "pending"
    BY <1>3, UnderwayIs
  <2>2. CASE at = 8
    <3>1. /\ FilesOK' /\ Possible' = {dir'}
          /\ dir'["marker"] = NoFile /\ DurableNew(shape, disk', dir')
      BY <1>1, <1>3, <2>1, <2>2, SwapDone, ProgramIs
    <3>2. task' = "open" /\ at' = 1 /\ answer' = "restored"
      BY <1>3, <2>2, StepIs
    <3> QED
      BY <1>1, <3>1, <3>2, EndsOpen
  <2>3. CASE at # 8
    <3>1. at \in 1 .. 7 /\ at + 1 \in 1 .. 8 /\ at < Len(Program(task))
      BY <1>3, <2>1, <2>3, ProgramIs
    <3>2. FilesOK' /\ SwappingNext(at + 1) /\ Crashproof(shape, Possible', disk')
      BY <1>1, <1>3, <2>1, <3>1, SwappingStep
    <3>3. task' = "swap" /\ at' = at + 1 /\ answer' = "pending"
      BY <1>3, <2>1, <3>1, StepIs
    <3>4. Underway(task', at', shape, Possible', dir', content', disk', answer', faults')
      BY <3>1, <3>2, <3>3 DEF Underway, SwappingNext
    <3> QED
      BY <1>1, <1>3, <3>1, <3>2, <3>3, <3>4, GoesOn
  <2> QED
    BY <2>2, <2>3
<1>4. CASE task = "rollback"
  <2>1. at \in 1 .. 8 /\ RevertingNow(at) /\ answer = "pending" /\ faults >= 1
    BY <1>4, UnderwayIs
  <2>2. CASE at = 8
    <3>1. /\ FilesOK' /\ Possible' = {dir'}
          /\ dir'["marker"] = NoFile /\ DurableOld(shape, disk', dir')
      BY <1>1, <1>4, <2>1, <2>2, RevertDone, ProgramIs
    <3>2. task' = "open" /\ at' = 1 /\ answer' = "failed"
      BY <1>4, <2>2, StepIs
    <3> QED
      BY <1>1, <3>1, <3>2, EndsOpen
  <2>3. CASE at # 8
    <3>1. at \in 1 .. 7 /\ at + 1 \in 1 .. 8 /\ at < Len(Program(task))
      BY <1>4, <2>1, <2>3, ProgramIs
    <3>2. FilesOK' /\ RevertingNext(at + 1) /\ TakenBack(shape, Possible', disk')
      BY <1>1, <1>4, <2>1, <3>1, RevertingStep
    <3>3. task' = "rollback" /\ at' = at + 1 /\ answer' = "pending"
      BY <1>4, <2>1, <3>1, StepIs
    <3>4. Underway(task', at', shape, Possible', dir', content', disk', answer', faults')
      BY <1>1, <2>1, <3>1, <3>2, <3>3 DEF Underway, RevertingNext, Place
    <3> QED
      BY <1>1, <1>4, <3>1, <3>2, <3>3, <3>4, GoesOn, TakenIsCrashproof
  <2> QED
    BY <2>2, <2>3
<1>5. CASE task = "recover"
  <2>1. /\ at \in 1 .. 7 /\ RevertingNow(IF at > 4 THEN at + 1 ELSE at)
        /\ answer \in {"pending", "failed"}
    BY <1>5, UnderwayIs
  <2>2. CASE at = 7
    <3>1. /\ FilesOK' /\ Possible' = {dir'}
          /\ dir'["marker"] = NoFile /\ DurableOld(shape, disk', dir')
      BY <1>1, <1>5, <2>1, <2>2, RevertDone, ProgramIs
    <3>2. task' = "open" /\ at' = 1 /\ answer' = answer
      BY <1>5, <2>2, StepIs
    <3> QED
      BY <1>1, <2>1, <3>1, <3>2, EndsOpen
  <2>3. CASE at # 7
    <3> DEFINE k == IF at > 4 THEN at + 1 ELSE at
    <3>1. /\ at \in {1, 2, 3, 4, 5, 6} /\ at + 1 \in 1 .. 7 /\ at + 1 \in 1 .. 8
          /\ at < Len(Program(task)) /\ k \in 1 .. 7
      BY <1>5, <2>1, <2>3, ProgramIs
    <3>2. Program("recover")[at] = Program("rollback")[k]
      BY <3>1, ProgramIs
    <3>3. RevertingNow(k) /\ Effect(Program("rollback")[k])
      BY <1>1, <1>5, <2>1, <3>2
    <3>4. Place("recover", at + 1) = IF at = 4 THEN 6 ELSE k + 1
      BY <3>1 DEF Place
    <3> HIDE DEF k
    <3>5. /\ FilesOK' /\ RevertingNext(k + 1) /\ (k = 4 => RevertingNext(6))
          /\ TakenBack(shape, Possible', disk')
      BY <1>1, <3>1, <3>3, RevertingStep
    <3>6. task' = "recover" /\ at' = at + 1 /\ answer' = answer
      BY <1>5, <3>1, StepIs
    <3>7. RevertingNext(Place("recover", at + 1))
      BY <3>4, <3>5 DEF k
    <3>8. Underway(task', at', shape, Possible', dir', content', disk', answer', faults')
      BY <3>1, <3>6, <3>7 DEF Underway, RevertingNext
    <3>9. ~(edited /\ faults <= 1)
      BY <1>5 DEF IInv, WorkKept
    <3>10. ControlOK'
      BY <1>1, <1>5, <3>1, <3>6 DEF ControlOK
    <3>11. Crashproof(shape, Possible, disk)'
      BY <1>1, <3>5, TakenIsCrashproof
    <3>12. Answered(task, shape, Possible, dir, content, disk, answer, edited)'
      BY <1>1, <2>1, <3>5, <3>6 DEF Answered, TakenBack
    <3>13. WorkKept(task, Possible, dir, disk, edited, faults)'
      BY <1>1, <3>9 DEF WorkKept
    <3>14. Underway(task, at, shape, Possible, dir, content, disk, answer, faults)'
      BY <1>1, <3>8
    <3> QED
      BY <3>5, <3>10, <3>11, <3>12, <3>13, <3>14 DEF IInv
  <2> QED
    BY <2>2, <2>3
<1> QED
  BY <1>1, <1>2, <1>3, <1>4, <1>5 DEF Programs

LEMMA StutterInv ==
  ASSUME IInv, UNCHANGED vars
  PROVE  IInv'
<1>1. /\ dir' = dir /\ log' = log /\ content' = content /\ disk' = disk
      /\ UNCHANGED <<task, at, answer, shape, edited, faults, crashes>>
  BY DEF vars, files, control
<1>2. Possible' = Possible
  BY <1>1 DEF Possible
<1>3. FilesOK' /\ ControlOK'
  BY <1>1 DEF IInv, FilesOK, ControlOK
<1>4. /\ Crashproof(shape, Possible, disk)'
      /\ Underway(task, at, shape, Possible, dir, content, disk, answer, faults)'
      /\ Answered(task, shape, Possible, dir, content, disk, answer, edited)'
      /\ WorkKept(task, Possible, dir, disk, edited, faults)'
  BY <1>1, <1>2 DEF IInv
<1> QED
  BY <1>3, <1>4 DEF IInv

-----------------------------------------------------------------------------
(* The invariant, for any number of failing calls and of ends of the       *)
(* process: what a loss of power may leave is at any time something that   *)
(* the next start can make a pair of.                                      *)
THEOREM AlwaysRecoverable ==
  ASSUME Settles, Faults \subseteq {"io"}
  PROVE  Spec => []IInv
<1>1. Init => IInv
  BY InitInv
<1>2. IInv /\ [Next]_vars => IInv'
  BY RestoreInv, StepInv, FaultInv, EditInv, CrashInv, PowerLossInv, StartupInv, StutterInv
     DEF Next
<1> QED
  BY <1>1, <1>2, PTL DEF Spec

(* Every variable keeps its type, and no number of a file is ever missing  *)
(* for a new one.                                                          *)
THEOREM TypeCorrect ==
  ASSUME Settles, Faults \subseteq {"io"}
  PROVE  Spec => []TypeOK
<1>1. IInv => TypeOK
  <2> SUFFICES ASSUME IInv PROVE TypeOK
    OBVIOUS
  <2>1. Dirs \subseteq [Names -> Inodes \cup {NoFile}]
    BY DEF Dirs
  <2>2. /\ dir \in [Names -> Inodes \cup {NoFile}]
        /\ log \in Seq([Names -> Inodes \cup {NoFile}])
    BY <2>1 DEF IInv, FilesOK
  <2> QED
    BY <2>2 DEF IInv, FilesOK, ControlOK, TypeOK
<1> QED
  BY <1>1, AlwaysRecoverable, PTL

(* No start finds a marker whose copies are not on the disk.               *)
THEOREM StartNeverStuck ==
  ASSUME Settles, Faults \subseteq {"io"}
  PROVE  Spec => [](task # "stuck")
<1>1. IInv => task # "stuck"
  BY DEF IInv, Underway
<1> QED
  BY <1>1, AlwaysRecoverable, PTL

(* What a reader of an open library finds.                                 *)
LEMMA OldIsFound ==
  ASSUME FilesOK, DurableOld(shape, disk, dir)
  PROVE  OldPair
<1>1. /\ dir["db"] \in Inodes /\ dir["db"] # NoFile
      /\ dir["queue"] # NoFile => dir["queue"] \in Inodes
  BY DirFacts DEF FilesOK, Names
<1> QED
  BY <1>1 DEF FilesOK, DurableOld, Holds, OldPair, Read, Exists, QueueExisted

LEMMA NewIsFound ==
  ASSUME FilesOK, DurableNew(shape, disk, dir)
  PROVE  NewPair
<1>1. /\ dir["db"] \in Inodes /\ dir["db"] # NoFile
      /\ dir["queue"] # NoFile => dir["queue"] \in Inodes
  BY DirFacts DEF FilesOK, Names
<1> QED
  BY <1>1 DEF FilesOK, DurableNew, Holds, NewPair, Read, Exists, QueueStaged

(* Whoever opens the library finds the two files of one pair, wherever the *)
(* restore, its rollback or the recovery was interrupted, and however      *)
(* often.                                                                  *)
THEOREM PairStaysWhole ==
  ASSUME Settles, Faults \subseteq {"io"}
  PROVE  Spec => []PairIsWhole
<1>1. IInv => PairIsWhole
  BY UnderwayIs, OldIsFound, NewIsFound DEF IInv, Opened, PairIsWhole
<1> QED
  BY <1>1, AlwaysRecoverable, PTL

(* A restore that was answered done is never undone by a loss of power,    *)
(* and one that was answered failed is never found done.                   *)
THEOREM AnswerStaysTrue ==
  ASSUME Settles, Faults \subseteq {"io"}
  PROVE  Spec => []TheAnswerHolds
<1>1. IInv => TheAnswerHolds
  <2> SUFFICES ASSUME IInv, task = "open" PROVE /\ answer = "restored" => NewPair
                                                /\ answer = "failed" => OldPair
    BY DEF TheAnswerHolds
  <2>1. FilesOK /\ Answered(task, shape, Possible, dir, content, disk, answer, edited)
    BY DEF IInv
  <2>2. answer = "restored" => DurableNew(shape, disk, dir)
    BY <2>1 DEF Answered
  <2>3. answer = "failed" => DurableOld(shape, disk, dir)
    BY <2>1 DEF Answered
  <2> QED
    BY <2>1, <2>2, <2>3, OldIsFound, NewIsFound
<1> QED
  BY <1>1, AlwaysRecoverable, PTL

(* With one failing call at most, work done after a restore is never       *)
(* rolled back by a later start: no marker is left behind.                 *)
THEOREM WorkSurvives ==
  ASSUME Settles, Faults \subseteq {"io"}, MaxFaults <= 1
  PROVE  Spec => []EditsSurvive
<1>1. IInv => EditsSurvive
  <2> SUFFICES ASSUME IInv, task = "open", edited
               PROVE  Read("db") \in {"old_edited", "new_edited"}
    BY DEF EditsSurvive
  <2>1. FilesOK /\ faults <= 1
    BY DEF IInv, ControlOK
  <2>2. disk[dir["db"]] \subseteq {"old_edited", "new_edited"}
    BY <2>1 DEF IInv, WorkKept
  <2>3. dir["db"] \in Inodes /\ dir["db"] # NoFile
    BY <2>1, DirFacts DEF FilesOK
  <2> QED
    BY <2>1, <2>2, <2>3 DEF FilesOK, Read, Exists
<1> QED
  BY <1>1, AlwaysRecoverable, PTL

=============================================================================
