------------------------------- MODULE DbGate -------------------------------
(***************************************************************************)
(* The library database handle, plumdeck-db/src/handle.rs: one mutex, one  *)
(* condition variable (`changed`) and a write lock arbitrate between       *)
(* pooled leases, queue accesses, background activities and the            *)
(* maintenance (backup, restore, shutdown) that replaces or closes the     *)
(* file.  Every action is one critical section of the state mutex; a       *)
(* thread blocked in Condvar::wait is in `asleep` until a notify_all, its  *)
(* deadline or a spurious wake-up takes it out.                            *)
(***************************************************************************)
EXTENDS Naturals, FiniteSets

CONSTANTS Threads,      \* threads calling the handle
          NoThread,     \* "nobody", the owner of a free lock
          PoolSize,     \* POOL_SIZE
          MaxReserves,  \* bound: reservations in a behaviour (generation)
          MaxOpens      \* bound: times the file is opened (epoch)

ASSUME DbGateAssumption ==
  /\ IsFiniteSet(Threads)
  /\ NoThread \notin Threads
  /\ PoolSize \in Nat \ {0}
  /\ MaxReserves \in Nat
  /\ MaxOpens \in Nat \ {0}

VARIABLES
  open,         \* State.inner is Some
  idle,         \* inner.idle.len()
  created,      \* inner.created
  leased,       \* State.leased
  accesses,     \* State.accesses
  activities,   \* State.activities
  maintenance,  \* State.maintenance
  generation,   \* State.generation
  epoch,        \* history: how many times a library file has been opened
  asleep,       \* threads inside Condvar::wait / wait_timeout
  writer,       \* owner of Shared.write
  guard,        \* thread holding the MaintenanceGuard
  conn,         \* conn[t]: epoch of the connection t has on lease, 0 if none
  accessing,    \* threads holding a QueueAccess
  working,      \* threads holding a DbActivity
  phase,        \* the blocking call each thread is in
  gen,          \* gen[t]: generation captured at the start of t's lease call
  late,         \* threads whose deadline has passed
  spanned       \* history: lease callers a reservation has overtaken

pool    == <<open, idle, created, leased>>
flags   == <<accesses, activities, maintenance, generation>>
holders == <<writer, guard, conn, accessing, working>>
calls   == <<phase, gen, late, spanned>>
vars    == <<pool, flags, epoch, asleep, holders, calls>>

Leasing  == {"lease", "wlease"}              \* in lease(), in write()'s lease()
Barred   == {"activity", "access"}           \* in wait_out_maintenance
Draining == {"reserve", "shutreserve"}       \* in reserve's loop
Timed    == Leasing \cup Draining \cup {"shutdown"}
Writing  == {"lockwrite", "writing"}
Phases   == {"run", "unlock", "shutgap", "shutclose", "shutend"}
              \cup Timed \cup Barred \cup Writing

Holders == {t \in Threads : conn[t] # 0}

FlagsOK == open \in BOOLEAN /\ maintenance \in BOOLEAN

TypeOK ==
  /\ FlagsOK
  /\ idle \in Nat /\ created \in Nat /\ leased \in Nat
  /\ accesses \in Nat /\ activities \in Nat
  /\ generation \in Nat /\ epoch \in Nat /\ epoch > 0
  /\ asleep \subseteq Threads /\ accessing \subseteq Threads
  /\ working \subseteq Threads
  /\ late \subseteq Threads /\ spanned \subseteq Threads
  /\ writer \in Threads \cup {NoThread} /\ guard \in Threads \cup {NoThread}
  /\ conn \in [Threads -> Nat] /\ gen \in [Threads -> Nat]
  /\ phase \in [Threads -> Phases]

Init ==
  /\ open = TRUE /\ idle = 0 /\ created = 0 /\ leased = 0
  /\ accesses = 0 /\ activities = 0 /\ maintenance = FALSE /\ generation = 0
  /\ epoch = 1 /\ asleep = {}
  /\ writer = NoThread /\ guard = NoThread
  /\ conn = [t \in Threads |-> 0]
  /\ accessing = {} /\ working = {}
  /\ phase = [t \in Threads |-> "run"]
  /\ gen = [t \in Threads |-> 0]
  /\ late = {} /\ spanned = {}

-----------------------------------------------------------------------------
Awake(t, p) == t \notin asleep /\ phase[t] = p

\* A thread free to make a call: not the maintenance holder, which owns the
\* gate, and not inside a queue access, whose SQL calls nothing.
Caller(t) == Awake(t, "run") /\ guard # t /\ t \notin accessing

\* Mutant: a state change that forgets to notify the waiters.
SilentChange == UNCHANGED asleep

NotifyAll   == asleep' = {}
Enter(t, p) == phase' = [phase EXCEPT ![t] = p]
Return(t)   == /\ Enter(t, "run")
               /\ gen' = [gen EXCEPT ![t] = 0]
               /\ late' = late \ {t}
               /\ spanned' = spanned \ {t}
Sleep(t, p) == /\ asleep' = asleep \cup {t}
               /\ Enter(t, p)

\* take_connection: an idle connection, else a new clone of the root.
TakeConnection(t) ==
  /\ open
  /\ \/ idle > 0 /\ idle' = idle - 1 /\ UNCHANGED created
     \/ idle = 0 /\ created < PoolSize /\ created' = created + 1 /\ UNCHANGED idle
  /\ leased' = leased + 1
  /\ conn' = [conn EXCEPT ![t] = epoch]
  /\ UNCHANGED open

CloneCanFail == open /\ idle = 0 /\ created < PoolSize
Exhausted    == open /\ idle = 0 /\ created >= PoolSize

\* The loop of lease_timeout, entered with the captured generation g; p is
\* the call it runs for.
LeaseRefused(t, g) ==
  /\ maintenance \/ generation # g \/ ~open \/ CloneCanFail
  /\ Return(t)
  /\ UNCHANGED <<pool, conn, asleep>>

\* Mutant: the waiter looks at the flag only, not at the generation.
GrantedToStaleWaiter(t, g, p) ==
  /\ ~maintenance /\ TakeConnection(t) /\ Return(t) /\ UNCHANGED asleep

LeaseGranted(t, g, p) ==
  /\ ~maintenance /\ generation = g
  /\ TakeConnection(t)
  /\ IF p = "wlease"
       THEN Enter(t, "lockwrite") /\ gen' = [gen EXCEPT ![t] = 0]
              /\ late' = late \ {t} /\ spanned' = spanned \ {t}
       ELSE Return(t)
  /\ UNCHANGED asleep

\* Mutant: the deadline of a pool waiter is never tested.
WaitsForEver(t, g, p) ==
  /\ ~maintenance /\ generation = g /\ Exhausted
  /\ Sleep(t, p) /\ gen' = [gen EXCEPT ![t] = g]
  /\ UNCHANGED <<pool, conn, late, spanned>>

LeaseWaits(t, g, p) ==
  /\ ~maintenance /\ generation = g /\ Exhausted
  /\ \/ t \in late /\ Return(t) /\ UNCHANGED asleep          \* PoolTimeout
     \/ /\ t \notin late /\ Sleep(t, p)
        /\ gen' = [gen EXCEPT ![t] = g] /\ UNCHANGED <<late, spanned>>
  /\ UNCHANGED <<pool, conn>>

LeaseLoop(t, g, p) ==
  /\ LeaseRefused(t, g) \/ LeaseGranted(t, g, p) \/ LeaseWaits(t, g, p)
  /\ UNCHANGED <<flags, epoch, writer, guard, accessing, working>>

\* lease_timeout, called directly or by write.
Lease(t, p) == Caller(t) /\ conn[t] = 0 /\ LeaseLoop(t, generation, p)

LeaseResumes(t) ==
  /\ t \notin asleep /\ phase[t] \in Leasing
  /\ LeaseLoop(t, gen[t], phase[t])

\* write: the lease is taken, then the write lock; the operation runs; the
\* tuple of guards drops the lease first and the lock second.
LockWrite(t) ==
  /\ Awake(t, "lockwrite") /\ writer = NoThread
  /\ writer' = t /\ Enter(t, "writing")
  /\ UNCHANGED <<pool, flags, epoch, asleep, guard, conn, accessing, working,
                 gen, late, spanned>>

\* Mutant: a discarded connection keeps its place in the pool.
DiscardLeaks(t) ==
  /\ conn[t] # 0
  /\ idle' \in {idle, idle + 1}
  /\ leased' = leased - 1 /\ conn' = [conn EXCEPT ![t] = 0] /\ NotifyAll
  /\ UNCHANGED <<open, created, flags, epoch, writer, guard, accessing, working,
                 gen, late, spanned>>

\* DbLease::drop, after its ROLLBACK: a connection that rolled back goes back
\* to the pool, one that could not is discarded.
ReturnConnection(t) ==
  /\ conn[t] # 0
  /\ \/ open /\ idle' = idle + 1 /\ UNCHANGED created
     \/ open /\ created' = created - 1 /\ UNCHANGED idle
     \/ ~open /\ UNCHANGED <<idle, created>>
  /\ leased' = leased - 1
  /\ conn' = [conn EXCEPT ![t] = 0]
  /\ NotifyAll
  /\ UNCHANGED <<open, flags, epoch, writer, guard, accessing, working,
                 gen, late, spanned>>

DropLease(t) ==
  \/ Awake(t, "run") /\ ReturnConnection(t) /\ UNCHANGED phase
  \/ Awake(t, "writing") /\ ReturnConnection(t) /\ Enter(t, "unlock")

UnlockWrite(t) ==
  /\ Awake(t, "unlock")
  /\ writer' = NoThread /\ Enter(t, "run")
  /\ UNCHANGED <<pool, flags, epoch, asleep, guard, conn, accessing, working,
                 gen, late, spanned>>

-----------------------------------------------------------------------------
\* activity and queue_access: wait_out_maintenance, then count the holder.
WaitOut(t, p) ==
  /\ \/ maintenance /\ Sleep(t, p) /\ UNCHANGED <<flags, accessing, working>>
     \/ /\ ~maintenance /\ Enter(t, "run") /\ UNCHANGED asleep
        /\ \/ /\ p = "activity"
              /\ activities' = activities + 1 /\ working' = working \cup {t}
              /\ UNCHANGED <<accesses, accessing>>
           \/ /\ p = "access"
              /\ accesses' = accesses + 1 /\ accessing' = accessing \cup {t}
              /\ UNCHANGED <<activities, working>>
        /\ UNCHANGED <<maintenance, generation>>
  /\ UNCHANGED <<pool, epoch, writer, guard, conn, gen, late, spanned>>

Activity(t)      == Caller(t) /\ t \notin working /\ WaitOut(t, "activity")
QueueAccess(t)   == Caller(t) /\ WaitOut(t, "access")
BarredResumes(t) == t \notin asleep /\ phase[t] \in Barred /\ WaitOut(t, phase[t])

DropActivity(t) ==
  /\ Awake(t, "run") /\ t \in working
  /\ activities' = activities - 1 /\ working' = working \ {t} /\ NotifyAll
  /\ UNCHANGED <<pool, accesses, maintenance, generation, epoch, writer, guard,
                 conn, accessing, calls>>

DropAccess(t) ==
  /\ Awake(t, "run") /\ t \in accessing
  /\ accesses' = accesses - 1 /\ accessing' = accessing \ {t} /\ NotifyAll
  /\ UNCHANGED <<pool, activities, maintenance, generation, epoch, writer,
                 guard, conn, working, calls>>

-----------------------------------------------------------------------------
\* Mutant: maintenance does not wait for the analysis queue.
DrainedLeases == leased = 0

Drained == leased = 0 /\ accesses = 0

\* The guard is handed to a restore (phase "run") or to shutdown's tail.
Granted(t, p) ==
  /\ guard' = t
  /\ Enter(t, IF p = "shutreserve" THEN "shutclose" ELSE "run")
  /\ late' = late \ {t}

\* reserve, its first critical section: refuse, or raise the flag, wake every
\* waiter, and take the guard or wait for the drain.
Reserve(t, p) ==
  \/ /\ maintenance \/ (activities # 0 /\ p = "reserve")
     /\ Return(t)
     /\ UNCHANGED <<flags, asleep, guard>>
  \/ /\ ~maintenance /\ (activities = 0 \/ p = "shutreserve")
     /\ maintenance' = TRUE /\ generation' = generation + 1
     /\ spanned' = spanned \cup {u \in Threads : phase[u] \in Leasing}
     /\ \/ Drained /\ Granted(t, p) /\ NotifyAll
        \/ /\ ~Drained /\ Enter(t, p) /\ asleep' = {t} \ late
           /\ UNCHANGED <<guard, late>>
     /\ UNCHANGED <<accesses, activities, gen>>

\* The rest of reserve's loop: the drain is tested before the deadline.
ReserveResumes(t) ==
  /\ t \notin asleep /\ phase[t] \in Draining
  /\ \/ /\ Drained /\ Granted(t, phase[t])
        /\ UNCHANGED <<flags, asleep, gen, spanned>>
     \/ /\ ~Drained /\ t \in late
        /\ maintenance' = FALSE /\ NotifyAll /\ Return(t)
        /\ UNCHANGED <<accesses, activities, generation, guard>>
     \/ /\ ~Drained /\ t \notin late
        /\ Sleep(t, phase[t]) /\ UNCHANGED <<flags, guard, gen, late, spanned>>
  /\ UNCHANGED <<pool, epoch, writer, conn, accessing, working>>

\* Bound: reservations made, and those shutdowns under way may still make.
MayReserve ==
  generation + Cardinality({u \in Threads : phase[u] \in {"shutdown", "shutgap"}})
    < MaxReserves

Maintenance(t) ==
  /\ Caller(t) /\ conn[t] = 0 /\ MayReserve
  /\ Reserve(t, "reserve")
  /\ UNCHANGED <<pool, epoch, writer, conn, accessing, working>>

\* shutdown: sleep while maintenance runs; closed already is success; then,
\* in a second critical section, reserve whatever the activities.
ShutdownLoop(t) ==
  /\ \/ maintenance /\ t \notin late /\ Sleep(t, "shutdown")
          /\ UNCHANGED <<gen, late, spanned>>
     \/ /\ (maintenance /\ t \in late) \/ (~maintenance /\ ~open)
        /\ Return(t) /\ UNCHANGED asleep
     \/ ~maintenance /\ open /\ Enter(t, "shutgap")
          /\ UNCHANGED <<asleep, gen, late, spanned>>
  /\ UNCHANGED <<pool, flags, epoch, holders>>

Shutdown(t)        == Caller(t) /\ conn[t] = 0 /\ MayReserve /\ ShutdownLoop(t)
ShutdownResumes(t) == Awake(t, "shutdown") /\ ShutdownLoop(t)
ShutdownReserves(t) ==
  /\ Awake(t, "shutgap") /\ Reserve(t, "shutreserve")
  /\ UNCHANGED <<pool, epoch, writer, conn, accessing, working>>

-----------------------------------------------------------------------------
Close == open' = FALSE /\ idle' = 0 /\ created' = 0 /\ UNCHANGED leased

EndMaintenance(t) ==
  /\ maintenance' = FALSE /\ guard' = NoThread /\ NotifyAll
  /\ UNCHANGED <<pool, accesses, activities, generation, epoch, writer, conn,
                 accessing, working>>

\* MaintenanceGuard::close, by the tail of shutdown and by a restore.
ShutdownCloses(t) ==
  /\ Awake(t, "shutclose")
  /\ leased = 0 /\ Close /\ Enter(t, "shutend")
  /\ UNCHANGED <<flags, epoch, asleep, holders, gen, late, spanned>>

ShutdownEnds(t) == Awake(t, "shutend") /\ EndMaintenance(t) /\ Return(t)

Holds(t) == Awake(t, "run") /\ guard = t

GuardLease(t) ==
  /\ Holds(t) /\ conn[t] = 0 /\ TakeConnection(t)
  /\ UNCHANGED <<flags, epoch, asleep, writer, guard, accessing, working, calls>>

\* Mutant: close does not look for the guard's own lease.
CloseUnderLease(t) ==
  /\ Holds(t) /\ open /\ Close
  /\ UNCHANGED <<flags, epoch, asleep, holders, calls>>

GuardClose(t) ==
  /\ Holds(t) /\ open /\ leased = 0 /\ Close
  /\ UNCHANGED <<flags, epoch, asleep, holders, calls>>

\* Mutant: anybody may reopen.
ReopenByAnybody(t) ==
  /\ Awake(t, "run") /\ ~open /\ epoch < MaxOpens
  /\ open' = TRUE /\ epoch' = epoch + 1
  /\ UNCHANGED <<idle, created, leased, flags, asleep, holders, calls>>

\* reopen, when DbInner::open succeeds: a library with no pooled connection.
GuardReopen(t) ==
  /\ Holds(t) /\ ~open /\ epoch < MaxOpens
  /\ open' = TRUE /\ epoch' = epoch + 1
  /\ UNCHANGED <<idle, created, leased, flags, asleep, holders, calls>>

\* MaintenanceGuard::drop; every caller has returned its lease by then.
GuardDrop(t) ==
  /\ Holds(t) /\ conn[t] = 0
  /\ EndMaintenance(t) /\ UNCHANGED calls

\* The clock: a timed wait ends with its deadline passed.
Expire(t) ==
  /\ phase[t] \in Timed /\ t \notin late
  /\ late' = late \cup {t} /\ asleep' = asleep \ {t}
  /\ UNCHANGED <<pool, flags, epoch, holders, phase, gen, spanned>>

\* Condvar::wait may return without a notification.
SpuriousWake(t) ==
  /\ t \in asleep /\ asleep' = asleep \ {t}
  /\ UNCHANGED <<pool, flags, epoch, holders, calls>>

-----------------------------------------------------------------------------
Call(t) == \/ Lease(t, "lease") \/ Lease(t, "wlease")
           \/ Activity(t) \/ QueueAccess(t) \/ Maintenance(t) \/ Shutdown(t)

Resume(t) == \/ LeaseResumes(t) \/ BarredResumes(t) \/ ReserveResumes(t)
             \/ ShutdownResumes(t) \/ ShutdownReserves(t)
             \/ ShutdownCloses(t) \/ ShutdownEnds(t)

Work(t) == \/ LockWrite(t) \/ DropLease(t) \/ UnlockWrite(t)
           \/ DropActivity(t) \/ DropAccess(t)
           \/ GuardLease(t) \/ GuardClose(t) \/ GuardReopen(t) \/ GuardDrop(t)

Next == \E t \in Threads : Call(t) \/ Resume(t) \/ Work(t)
                             \/ Expire(t) \/ SpuriousWake(t)

Spec == Init /\ [][Next]_vars

\* A woken thread runs, deadlines pass, and a holder gives back what it holds:
\* leases and accesses are scoped values, and a backup or a restore is a
\* finite script that takes and returns leases only so often (hence SF).
\* Nothing obliges a thread to make a call, nor to stop an activity.
Fairness ==
  \A t \in Threads :
    /\ WF_vars(Resume(t)) /\ WF_vars(Expire(t))
    /\ WF_vars(DropLease(t)) /\ WF_vars(DropAccess(t)) /\ SF_vars(GuardDrop(t))

FairSpec == Spec /\ Fairness
-----------------------------------------------------------------------------
Owners == {t \in Threads : guard = t \/ phase[t] \in Draining}

\* Backup and restore see a quiet library: while a thread holds the
\* MaintenanceGuard no other thread has a connection or is inside the queue,
\* and unless the guard belongs to shutdown no background activity is open.
MaintenanceIsExclusive ==
  guard # NoThread =>
    /\ maintenance
    /\ accessing = {} /\ Holders \subseteq {guard}
    /\ phase[guard] = "run" => working = {}

\* The flag that turns every lease away is always owned by exactly one thread
\* that will clear it, and is never left behind by a refusal or a timeout.
MaintenanceHasOneOwner ==
  /\ maintenance <=> Owners # {}
  /\ \A t, u \in Owners : t = u

\* The counters the drain test reads agree with the guards that are out, and
\* the pool neither leaks a connection nor lends more than POOL_SIZE.
PoolIsAccounted ==
  /\ leased = Cardinality(Holders)
  /\ accesses = Cardinality(accessing)
  /\ activities = Cardinality(working)
  /\ created <= PoolSize
  /\ IF open THEN created = idle + leased ELSE leased = 0

\* A connection on lease belongs to the library that is open now: no lease
\* survives the close and reopen of a restore.
NoStaleConnection == \A t \in Holders : open /\ conn[t] = epoch

\* A thread asleep on `changed` still has the reason it went to sleep for, so
\* no notification was missed.
NoLostWakeup ==
  \A t \in asleep :
    \/ phase[t] \in Leasing /\ ~maintenance /\ Exhausted
    \/ phase[t] \in Barred \cup {"shutdown"} /\ maintenance
    \/ phase[t] \in Draining /\ ~Drained

\* Writers are serialized, and the write lock is held from before the
\* operation until its lease is back.
WritersExclude ==
  \A t \in Threads :
    /\ phase[t] \in {"writing", "unlock"} <=> writer = t
    /\ phase[t] \in Writing => conn[t] = epoch

\* A lease call that a reservation has overtaken is refused even if
\* maintenance has ended when it wakes: it never gets a connection.
OvertakenLeaseIsRefused ==
  [][\A t \in spanned : conn[t] = 0 => conn'[t] = 0]_vars

\* A lease or write call comes back, or gets to queue for the write lock;
\* maintenance() and shutdown() come back with the guard or an error; and
\* activities and queue accesses, which have no timeout, are let in.
BlockedCallsReturn ==
  \A t \in Threads : /\ phase[t] \in Timed ~> phase[t] \notin Timed
                     /\ phase[t] \in Barred ~> phase[t] = "run"
-----------------------------------------------------------------------------
(***************************************************************************)
(* The inductive invariant behind the safety properties.  Each thread's    *)
(* phase fixes what it may hold; the counters are the sizes of the sets of *)
(* holders, which is what lets "leased = 0" mean "nobody has a connection".*)
(***************************************************************************)
Counts ==
  /\ leased = Cardinality(Holders)
  /\ accesses = Cardinality(accessing)
  /\ activities = Cardinality(working)

Pool ==
  /\ created = idle + leased /\ created <= PoolSize
  /\ ~open => created = 0

\* Who owns the maintenance flag, and what nobody else has meanwhile.
Ownership ==
  /\ MaintenanceHasOneOwner
  /\ guard # NoThread => /\ phase[guard] \in {"run", "shutclose", "shutend"}
                         /\ accessing = {} /\ Holders \subseteq {guard}
                         /\ phase[guard] = "run" => working = {}
  /\ \A t \in Threads :
       /\ phase[t] \in {"shutclose", "shutend"} => guard = t
       /\ phase[t] = "reserve" => working = {}

Holding ==
  \A t \in Threads :
    /\ conn[t] # 0 => /\ open /\ conn[t] = epoch
                      /\ phase[t] \in {"run"} \cup Writing \cup Barred
    /\ phase[t] \in Writing => conn[t] # 0
    /\ phase[t] \in {"writing", "unlock"} <=> writer = t
    /\ t \in accessing => phase[t] = "run"
    /\ phase[t] = "activity" => t \notin working

\* A lease caller remembers an older generation once it has been overtaken.
Overtaking ==
  \A t \in Threads : /\ gen[t] <= generation
                     /\ t \in spanned => phase[t] \in Leasing /\ gen[t] < generation

IndInv == TypeOK /\ Counts /\ Pool /\ Ownership /\ Holding /\ Overtaking /\ NoLostWakeup

\* The handle implements the library its callers rely on: used by many or
\* owned by one, replaced only by its owner.
Library == INSTANCE ExclusiveLibrary
             WITH version <- epoch, owner <- guard, using <- conn,
                  inside <- accessing
ImplementsLibrary == Library!Spec
=============================================================================
