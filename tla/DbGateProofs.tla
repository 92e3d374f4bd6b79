---------------------------- MODULE DbGateProofs ----------------------------
(***************************************************************************)
(* The database handle is safe for any number of threads, any pool size    *)
(* and any number of reservations: IndInv of DbGate is inductive, and the  *)
(* safety properties and the refinement of ExclusiveLibrary follow.  Each  *)
(* part of IndInv has a lemma with one step per action; the lemmas about   *)
(* cardinalities turn "leased = 0" into "nobody holds a connection".       *)
(***************************************************************************)
EXTENDS DbGate, FiniteSetTheorems, TLAPS

\* The vocabulary every action is written in.
USE DEF pool, flags, holders, calls, Leasing, Barred, Draining, Timed, Writing,
        Phases, Awake, Caller, NotifyAll, Enter, Return, Sleep

-----------------------------------------------------------------------------
\* Sizes of sets of threads when one thread joins or leaves.
LEMMA CardinalityFacts ==
  ASSUME NEW S \in SUBSET Threads, NEW t \in Threads
  PROVE  /\ Cardinality(S) \in Nat
         /\ Cardinality(S) = 0 <=> S = {}
         /\ t \notin S => Cardinality(S \cup {t}) = Cardinality(S) + 1
         /\ t \in S => /\ Cardinality(S \ {t}) = Cardinality(S) - 1
                       /\ Cardinality(S) > 0
<1>1. IsFiniteSet(S)
  BY DbGateAssumption, FS_Subset DEF DbGateAssumption
<1>2. Cardinality(S) \in Nat
  BY <1>1, FS_CardinalityType
<1>3. Cardinality(S) = 0 <=> S = {}
  BY <1>1, FS_EmptySet
<1>4. t \notin S => Cardinality(S \cup {t}) = Cardinality(S) + 1
  BY <1>1, FS_AddElement
<1>5. t \in S => Cardinality(S \ {t}) = Cardinality(S) - 1
  BY <1>1, FS_RemoveElement
<1> QED
  BY <1>2, <1>3, <1>4, <1>5

CountsAreZero ==
  /\ leased = 0 => Holders = {}
  /\ accesses = 0 => accessing = {}
  /\ activities = 0 => working = {}

CountsArePositive ==
  \A t \in Threads : /\ conn[t] # 0 => leased > 0
                     /\ t \in accessing => accesses > 0
                     /\ t \in working => activities > 0

\* What the counters say about the holders.
LEMMA CountFacts == IndInv => CountsAreZero /\ CountsArePositive
<1> SUFFICES ASSUME IndInv PROVE CountsAreZero /\ CountsArePositive
  OBVIOUS
<1>1. Holders \in SUBSET Threads /\ accessing \in SUBSET Threads
        /\ working \in SUBSET Threads
  BY DEF IndInv, TypeOK, Holders
<1>2. CASE Threads = {}
  BY <1>1, <1>2 DEF CountsAreZero, CountsArePositive
<1>3. CASE Threads # {}
  BY <1>1, <1>3, CardinalityFacts
     DEF IndInv, Counts, Holders, CountsAreZero, CountsArePositive
<1> QED
  BY <1>2, <1>3

\* A thread that takes a connection joins the holders.
LEMMA TakenHolders ==
  ASSUME TypeOK, NEW t \in Threads, conn[t] = 0, conn' = [conn EXCEPT ![t] = epoch]
  PROVE  Holders' = Holders \cup {t} /\ t \notin Holders /\ Holders \in SUBSET Threads
  BY DEF TypeOK, Holders

\* A thread that returns its connection leaves them.
LEMMA ReturnedHolders ==
  ASSUME TypeOK, NEW t \in Threads, conn[t] # 0, conn' = [conn EXCEPT ![t] = 0]
  PROVE  Holders' = Holders \ {t} /\ t \in Holders /\ Holders \in SUBSET Threads
  BY DEF TypeOK, Holders

\* The counters stay right when a thread takes a pooled connection.
LEMMA CountsTaken ==
  ASSUME TypeOK, Counts, NEW t \in Threads, conn[t] = 0, TakeConnection(t),
         UNCHANGED <<flags, accessing, working>>
  PROVE  Counts'
<1>1. Holders' = Holders \cup {t} /\ t \notin Holders /\ Holders \in SUBSET Threads
  BY TakenHolders DEF TakeConnection
<1>2. Cardinality(Holders') = Cardinality(Holders) + 1
  BY <1>1, CardinalityFacts
<1> QED
  BY <1>2 DEF Counts, TakeConnection

-----------------------------------------------------------------------------

\* A step of the handle keeps every variable in its type.
LEMMA TypeStep == IndInv /\ [Next]_vars => TypeOK'
<1> SUFFICES ASSUME IndInv, [Next]_vars PROVE TypeOK'
  OBVIOUS
<1>e. CountsAreZero /\ CountsArePositive
  BY CountFacts
<1>1. ASSUME NEW t \in Threads, NEW p \in Leasing, Lease(t, p)
      PROVE  TypeOK'
  <2>1. FlagsOK'
    BY <1>1, Zenon DEF IndInv, TypeOK, FlagsOK, Lease, LeaseLoop,
       LeaseRefused, LeaseGranted, LeaseWaits, TakeConnection
  <2> QED
    BY <1>1, <1>e, <2>1 DEF IndInv, TypeOK, Pool, Counts, Lease, LeaseLoop,
       LeaseRefused, LeaseGranted, LeaseWaits, TakeConnection,
       CountsArePositive
<1>2. ASSUME NEW t \in Threads, LeaseResumes(t)
      PROVE  TypeOK'
  <2>1. FlagsOK'
    BY <1>2, Zenon DEF IndInv, TypeOK, FlagsOK, LeaseResumes, LeaseLoop,
       LeaseRefused, LeaseGranted, LeaseWaits, TakeConnection
  <2> QED
    BY <1>2, <1>e, <2>1 DEF IndInv, TypeOK, Pool, Counts, LeaseResumes,
       LeaseLoop, LeaseRefused, LeaseGranted, LeaseWaits, TakeConnection,
       CountsArePositive
<1>3. ASSUME NEW t \in Threads, LockWrite(t)
      PROVE  TypeOK'
  <2>1. FlagsOK'
    BY <1>3, Zenon DEF IndInv, TypeOK, FlagsOK, LockWrite
  <2> QED
    BY <1>3, <1>e, <2>1 DEF IndInv, TypeOK, Pool, Counts, LockWrite,
       CountsArePositive
<1>4. ASSUME NEW t \in Threads, DropLease(t)
      PROVE  TypeOK'
  <2>1. FlagsOK'
    BY <1>4, Zenon DEF IndInv, TypeOK, FlagsOK, DropLease, ReturnConnection
  <2> QED
    BY <1>4, <1>e, <2>1 DEF IndInv, TypeOK, Pool, Counts, DropLease,
       ReturnConnection, CountsArePositive
<1>5. ASSUME NEW t \in Threads, UnlockWrite(t)
      PROVE  TypeOK'
  <2>1. FlagsOK'
    BY <1>5, Zenon DEF IndInv, TypeOK, FlagsOK, UnlockWrite
  <2> QED
    BY <1>5, <1>e, <2>1 DEF IndInv, TypeOK, Pool, Counts, UnlockWrite,
       CountsArePositive
<1>6. ASSUME NEW t \in Threads, Activity(t)
      PROVE  TypeOK'
  <2>1. FlagsOK'
    BY <1>6, Zenon DEF IndInv, TypeOK, FlagsOK, Activity, WaitOut
  <2> QED
    BY <1>6, <1>e, <2>1 DEF IndInv, TypeOK, Pool, Counts, Activity, WaitOut,
       CountsArePositive
<1>7. ASSUME NEW t \in Threads, QueueAccess(t)
      PROVE  TypeOK'
  <2>1. FlagsOK'
    BY <1>7, Zenon DEF IndInv, TypeOK, FlagsOK, QueueAccess, WaitOut
  <2> QED
    BY <1>7, <1>e, <2>1 DEF IndInv, TypeOK, Pool, Counts, QueueAccess,
       WaitOut, CountsArePositive
<1>8. ASSUME NEW t \in Threads, BarredResumes(t)
      PROVE  TypeOK'
  <2>1. FlagsOK'
    BY <1>8, Zenon DEF IndInv, TypeOK, FlagsOK, BarredResumes, WaitOut
  <2> QED
    BY <1>8, <1>e, <2>1 DEF IndInv, TypeOK, Pool, Counts, BarredResumes,
       WaitOut, CountsArePositive
<1>9. ASSUME NEW t \in Threads, DropActivity(t)
      PROVE  TypeOK'
  <2>1. FlagsOK'
    BY <1>9, Zenon DEF IndInv, TypeOK, FlagsOK, DropActivity
  <2> QED
    BY <1>9, <1>e, <2>1 DEF IndInv, TypeOK, Pool, Counts, DropActivity,
       CountsArePositive
<1>10. ASSUME NEW t \in Threads, DropAccess(t)
      PROVE  TypeOK'
  <2>1. FlagsOK'
    BY <1>10, Zenon DEF IndInv, TypeOK, FlagsOK, DropAccess
  <2> QED
    BY <1>10, <1>e, <2>1 DEF IndInv, TypeOK, Pool, Counts, DropAccess,
       CountsArePositive
<1>11. ASSUME NEW t \in Threads, Maintenance(t)
      PROVE  TypeOK'
  <2>1. FlagsOK'
    BY <1>11, Zenon DEF IndInv, TypeOK, FlagsOK, Maintenance, Reserve,
       Granted
  <2> QED
    BY <1>11, <1>e, <2>1 DEF IndInv, TypeOK, Pool, Counts, Maintenance,
       Reserve, Granted, CountsArePositive
<1>12. ASSUME NEW t \in Threads, ReserveResumes(t)
      PROVE  TypeOK'
  <2>1. FlagsOK'
    BY <1>12, Zenon DEF IndInv, TypeOK, FlagsOK, ReserveResumes, Granted
  <2> QED
    BY <1>12, <1>e, <2>1 DEF IndInv, TypeOK, Pool, Counts, ReserveResumes,
       Granted, CountsArePositive
<1>13. ASSUME NEW t \in Threads, Shutdown(t)
      PROVE  TypeOK'
  <2>1. FlagsOK'
    BY <1>13, Zenon DEF IndInv, TypeOK, FlagsOK, Shutdown, ShutdownLoop
  <2> QED
    BY <1>13, <1>e, <2>1 DEF IndInv, TypeOK, Pool, Counts, Shutdown,
       ShutdownLoop, CountsArePositive
<1>14. ASSUME NEW t \in Threads, ShutdownResumes(t)
      PROVE  TypeOK'
  <2>1. FlagsOK'
    BY <1>14, Zenon DEF IndInv, TypeOK, FlagsOK, ShutdownResumes,
       ShutdownLoop
  <2> QED
    BY <1>14, <1>e, <2>1 DEF IndInv, TypeOK, Pool, Counts, ShutdownResumes,
       ShutdownLoop, CountsArePositive
<1>15. ASSUME NEW t \in Threads, ShutdownReserves(t)
      PROVE  TypeOK'
  <2>1. FlagsOK'
    BY <1>15, Zenon DEF IndInv, TypeOK, FlagsOK, ShutdownReserves, Reserve,
       Granted
  <2> QED
    BY <1>15, <1>e, <2>1 DEF IndInv, TypeOK, Pool, Counts, ShutdownReserves,
       Reserve, Granted, CountsArePositive
<1>16. ASSUME NEW t \in Threads, ShutdownCloses(t)
      PROVE  TypeOK'
  <2>1. FlagsOK'
    BY <1>16, Zenon DEF IndInv, TypeOK, FlagsOK, ShutdownCloses, Close
  <2> QED
    BY <1>16, <1>e, <2>1 DEF IndInv, TypeOK, Pool, Counts, ShutdownCloses,
       Close, CountsArePositive
<1>17. ASSUME NEW t \in Threads, ShutdownEnds(t)
      PROVE  TypeOK'
  <2>1. FlagsOK'
    BY <1>17, Zenon DEF IndInv, TypeOK, FlagsOK, ShutdownEnds, EndMaintenance
  <2> QED
    BY <1>17, <1>e, <2>1 DEF IndInv, TypeOK, Pool, Counts, ShutdownEnds,
       EndMaintenance, CountsArePositive
<1>18. ASSUME NEW t \in Threads, GuardLease(t)
      PROVE  TypeOK'
  <2>1. FlagsOK'
    BY <1>18, Zenon DEF IndInv, TypeOK, FlagsOK, GuardLease, Holds,
       TakeConnection
  <2> QED
    BY <1>18, <1>e, <2>1 DEF IndInv, TypeOK, Pool, Counts, GuardLease, Holds,
       TakeConnection, CountsArePositive
<1>19. ASSUME NEW t \in Threads, GuardClose(t)
      PROVE  TypeOK'
  <2>1. FlagsOK'
    BY <1>19, Zenon DEF IndInv, TypeOK, FlagsOK, GuardClose, Holds, Close
  <2> QED
    BY <1>19, <1>e, <2>1 DEF IndInv, TypeOK, Pool, Counts, GuardClose, Holds,
       Close, CountsArePositive
<1>20. ASSUME NEW t \in Threads, GuardReopen(t)
      PROVE  TypeOK'
  <2>1. FlagsOK'
    BY <1>20, Zenon DEF IndInv, TypeOK, FlagsOK, GuardReopen, Holds
  <2>2. epoch' \in Nat /\ epoch' > 0
    BY <1>20 DEF IndInv, TypeOK, GuardReopen, Holds
  <2>3. UNCHANGED <<idle, created, leased, flags, asleep, holders, calls>>
    BY <1>20 DEF GuardReopen, Holds
  <2> QED
    BY <2>1, <2>2, <2>3 DEF IndInv, TypeOK
<1>21. ASSUME NEW t \in Threads, GuardDrop(t)
      PROVE  TypeOK'
  <2>1. FlagsOK'
    BY <1>21, Zenon DEF IndInv, TypeOK, FlagsOK, GuardDrop, Holds,
       EndMaintenance
  <2> QED
    BY <1>21, <1>e, <2>1 DEF IndInv, TypeOK, Pool, Counts, GuardDrop, Holds,
       EndMaintenance, CountsArePositive
<1>22. ASSUME NEW t \in Threads, Expire(t)
      PROVE  TypeOK'
  <2>1. FlagsOK'
    BY <1>22, Zenon DEF IndInv, TypeOK, FlagsOK, Expire
  <2> QED
    BY <1>22, <1>e, <2>1 DEF IndInv, TypeOK, Pool, Counts, Expire,
       CountsArePositive
<1>23. ASSUME NEW t \in Threads, SpuriousWake(t)
      PROVE  TypeOK'
  <2>1. FlagsOK'
    BY <1>23, Zenon DEF IndInv, TypeOK, FlagsOK, SpuriousWake
  <2> QED
    BY <1>23, <1>e, <2>1 DEF IndInv, TypeOK, Pool, Counts, SpuriousWake,
       CountsArePositive
<1>24. CASE UNCHANGED vars
  BY <1>24 DEF vars, IndInv, TypeOK, FlagsOK
<1> QED
  BY <1>1, <1>2, <1>3, <1>4, <1>5, <1>6, <1>7, <1>8, <1>9, <1>10, <1>11,
     <1>12, <1>13, <1>14, <1>15, <1>16, <1>17, <1>18, <1>19, <1>20, <1>21,
     <1>22, <1>23, <1>24 DEF Next, Call, Resume, Work

\* A step of the handle keeps the counters equal to the sets of holders.
LEMMA CountsStep == IndInv /\ [Next]_vars => Counts'
<1> SUFFICES ASSUME IndInv, [Next]_vars PROVE Counts'
  OBVIOUS
<1>e. CountsAreZero /\ CountsArePositive
  BY CountFacts
<1>1. ASSUME NEW t \in Threads, NEW p \in Leasing, Lease(t, p)
      PROVE  Counts'
  <2>1. CASE UNCHANGED <<leased, conn>>
    BY <1>1, <2>1 DEF IndInv, Counts, Holders, Lease, LeaseLoop,
       LeaseRefused, LeaseGranted, LeaseWaits
  <2>2. CASE TakeConnection(t)
    BY <1>1, <2>2, CountsTaken DEF IndInv, TypeOK, Holding, Lease, LeaseLoop,
       LeaseRefused, LeaseGranted, LeaseWaits
  <2> QED
    BY <1>1, <2>1, <2>2 DEF Lease, LeaseLoop, LeaseRefused, LeaseGranted,
       LeaseWaits
<1>2. ASSUME NEW t \in Threads, LeaseResumes(t)
      PROVE  Counts'
  <2>1. CASE UNCHANGED <<leased, conn>>
    BY <1>2, <2>1 DEF IndInv, Counts, Holders, LeaseResumes, LeaseLoop,
       LeaseRefused, LeaseGranted, LeaseWaits
  <2>2. CASE TakeConnection(t)
    BY <1>2, <2>2, CountsTaken DEF IndInv, TypeOK, Holding, LeaseResumes,
       LeaseLoop, LeaseRefused, LeaseGranted, LeaseWaits
  <2> QED
    BY <1>2, <2>1, <2>2 DEF LeaseResumes, LeaseLoop, LeaseRefused,
       LeaseGranted, LeaseWaits
<1>3. ASSUME NEW t \in Threads, LockWrite(t)
      PROVE  Counts'
  BY <1>3, CardinalityFacts DEF IndInv, TypeOK, Counts, Holders, LockWrite
<1>4. ASSUME NEW t \in Threads, DropLease(t)
      PROVE  Counts'
  BY <1>4, CardinalityFacts, ReturnedHolders DEF IndInv, TypeOK, Counts,
     DropLease, ReturnConnection
<1>5. ASSUME NEW t \in Threads, UnlockWrite(t)
      PROVE  Counts'
  BY <1>5, CardinalityFacts DEF IndInv, TypeOK, Counts, Holders, UnlockWrite
<1>6. ASSUME NEW t \in Threads, Activity(t)
      PROVE  Counts'
  BY <1>6, CardinalityFacts DEF IndInv, TypeOK, Counts, Holders, Activity,
     WaitOut
<1>7. ASSUME NEW t \in Threads, QueueAccess(t)
      PROVE  Counts'
  BY <1>7, CardinalityFacts DEF IndInv, TypeOK, Counts, Holders, QueueAccess,
     WaitOut
<1>8. ASSUME NEW t \in Threads, BarredResumes(t)
      PROVE  Counts'
  BY <1>8, CardinalityFacts DEF IndInv, TypeOK, Counts, Holders,
     BarredResumes, WaitOut, Holding
<1>9. ASSUME NEW t \in Threads, DropActivity(t)
      PROVE  Counts'
  BY <1>9, CardinalityFacts DEF IndInv, TypeOK, Counts, Holders, DropActivity
<1>10. ASSUME NEW t \in Threads, DropAccess(t)
      PROVE  Counts'
  BY <1>10, CardinalityFacts DEF IndInv, TypeOK, Counts, Holders, DropAccess
<1>11. ASSUME NEW t \in Threads, Maintenance(t)
      PROVE  Counts'
  BY <1>11, CardinalityFacts DEF IndInv, TypeOK, Counts, Holders,
     Maintenance, Reserve, Granted
<1>12. ASSUME NEW t \in Threads, ReserveResumes(t)
      PROVE  Counts'
  BY <1>12, CardinalityFacts DEF IndInv, TypeOK, Counts, Holders,
     ReserveResumes, Granted
<1>13. ASSUME NEW t \in Threads, Shutdown(t)
      PROVE  Counts'
  BY <1>13, CardinalityFacts DEF IndInv, TypeOK, Counts, Holders, Shutdown,
     ShutdownLoop
<1>14. ASSUME NEW t \in Threads, ShutdownResumes(t)
      PROVE  Counts'
  BY <1>14, CardinalityFacts DEF IndInv, TypeOK, Counts, Holders,
     ShutdownResumes, ShutdownLoop
<1>15. ASSUME NEW t \in Threads, ShutdownReserves(t)
      PROVE  Counts'
  BY <1>15, CardinalityFacts DEF IndInv, TypeOK, Counts, Holders,
     ShutdownReserves, Reserve, Granted
<1>16. ASSUME NEW t \in Threads, ShutdownCloses(t)
      PROVE  Counts'
  BY <1>16, CardinalityFacts DEF IndInv, TypeOK, Counts, Holders,
     ShutdownCloses, Close
<1>17. ASSUME NEW t \in Threads, ShutdownEnds(t)
      PROVE  Counts'
  BY <1>17, CardinalityFacts DEF IndInv, TypeOK, Counts, Holders,
     ShutdownEnds, EndMaintenance
<1>18. ASSUME NEW t \in Threads, GuardLease(t)
      PROVE  Counts'
  BY <1>18, CountsTaken DEF IndInv, GuardLease, Holds
<1>19. ASSUME NEW t \in Threads, GuardClose(t)
      PROVE  Counts'
  BY <1>19, CardinalityFacts DEF IndInv, TypeOK, Counts, Holders, GuardClose,
     Holds, Close
<1>20. ASSUME NEW t \in Threads, GuardReopen(t)
      PROVE  Counts'
  BY <1>20, CardinalityFacts DEF IndInv, TypeOK, Counts, Holders,
     GuardReopen, Holds
<1>21. ASSUME NEW t \in Threads, GuardDrop(t)
      PROVE  Counts'
  BY <1>21, CardinalityFacts DEF IndInv, TypeOK, Counts, Holders, GuardDrop,
     Holds, EndMaintenance
<1>22. ASSUME NEW t \in Threads, Expire(t)
      PROVE  Counts'
  BY <1>22, CardinalityFacts DEF IndInv, TypeOK, Counts, Holders, Expire
<1>23. ASSUME NEW t \in Threads, SpuriousWake(t)
      PROVE  Counts'
  BY <1>23, CardinalityFacts DEF IndInv, TypeOK, Counts, Holders,
     SpuriousWake
<1>24. CASE UNCHANGED vars
  BY <1>24 DEF vars, IndInv, Counts, Holders
<1> QED
  BY <1>1, <1>2, <1>3, <1>4, <1>5, <1>6, <1>7, <1>8, <1>9, <1>10, <1>11,
     <1>12, <1>13, <1>14, <1>15, <1>16, <1>17, <1>18, <1>19, <1>20, <1>21,
     <1>22, <1>23, <1>24 DEF Next, Call, Resume, Work

\* A step of the handle keeps the pool's book balanced.
LEMMA PoolStep == IndInv /\ [Next]_vars => Pool'
<1> SUFFICES ASSUME IndInv, [Next]_vars PROVE Pool'
  OBVIOUS
<1>e. CountsAreZero /\ CountsArePositive
  BY CountFacts
<1>1. ASSUME NEW t \in Threads, NEW p \in Leasing, Lease(t, p)
      PROVE  Pool'
  BY <1>1, DbGateAssumption, <1>e DEF IndInv, TypeOK, Pool, Holding,
     Ownership, Exhausted, DbGateAssumption, Lease, LeaseLoop, LeaseRefused,
     LeaseGranted, LeaseWaits, TakeConnection, CountsArePositive
<1>2. ASSUME NEW t \in Threads, LeaseResumes(t)
      PROVE  Pool'
  BY <1>2, DbGateAssumption, <1>e DEF IndInv, TypeOK, Pool, Holding,
     Ownership, Exhausted, DbGateAssumption, LeaseResumes, LeaseLoop,
     LeaseRefused, LeaseGranted, LeaseWaits, TakeConnection,
     CountsArePositive
<1>3. ASSUME NEW t \in Threads, LockWrite(t)
      PROVE  Pool'
  BY <1>3, DbGateAssumption, <1>e DEF IndInv, TypeOK, Pool, Holding,
     Ownership, Exhausted, DbGateAssumption, LockWrite, CountsArePositive
<1>4. ASSUME NEW t \in Threads, DropLease(t)
      PROVE  Pool'
  BY <1>4, DbGateAssumption, <1>e DEF IndInv, TypeOK, Pool, Holding,
     Ownership, Exhausted, DbGateAssumption, DropLease, ReturnConnection,
     CountsArePositive
<1>5. ASSUME NEW t \in Threads, UnlockWrite(t)
      PROVE  Pool'
  BY <1>5, DbGateAssumption, <1>e DEF IndInv, TypeOK, Pool, Holding,
     Ownership, Exhausted, DbGateAssumption, UnlockWrite, CountsArePositive
<1>6. ASSUME NEW t \in Threads, Activity(t)
      PROVE  Pool'
  BY <1>6, DbGateAssumption, <1>e DEF IndInv, TypeOK, Pool, Holding,
     Ownership, Exhausted, DbGateAssumption, Activity, WaitOut,
     CountsArePositive
<1>7. ASSUME NEW t \in Threads, QueueAccess(t)
      PROVE  Pool'
  BY <1>7, DbGateAssumption, <1>e DEF IndInv, TypeOK, Pool, Holding,
     Ownership, Exhausted, DbGateAssumption, QueueAccess, WaitOut,
     CountsArePositive
<1>8. ASSUME NEW t \in Threads, BarredResumes(t)
      PROVE  Pool'
  BY <1>8, DbGateAssumption, <1>e DEF IndInv, TypeOK, Pool, Holding,
     Ownership, Exhausted, DbGateAssumption, BarredResumes, WaitOut,
     CountsArePositive
<1>9. ASSUME NEW t \in Threads, DropActivity(t)
      PROVE  Pool'
  BY <1>9, DbGateAssumption, <1>e DEF IndInv, TypeOK, Pool, Holding,
     Ownership, Exhausted, DbGateAssumption, DropActivity, CountsArePositive
<1>10. ASSUME NEW t \in Threads, DropAccess(t)
      PROVE  Pool'
  BY <1>10, DbGateAssumption, <1>e DEF IndInv, TypeOK, Pool, Holding,
     Ownership, Exhausted, DbGateAssumption, DropAccess, CountsArePositive
<1>11. ASSUME NEW t \in Threads, Maintenance(t)
      PROVE  Pool'
  BY <1>11, DbGateAssumption, <1>e DEF IndInv, TypeOK, Pool, Holding,
     Ownership, Exhausted, DbGateAssumption, Maintenance, Reserve, Granted,
     CountsArePositive
<1>12. ASSUME NEW t \in Threads, ReserveResumes(t)
      PROVE  Pool'
  BY <1>12, DbGateAssumption, <1>e DEF IndInv, TypeOK, Pool, Holding,
     Ownership, Exhausted, DbGateAssumption, ReserveResumes, Granted,
     CountsArePositive
<1>13. ASSUME NEW t \in Threads, Shutdown(t)
      PROVE  Pool'
  BY <1>13, DbGateAssumption, <1>e DEF IndInv, TypeOK, Pool, Holding,
     Ownership, Exhausted, DbGateAssumption, Shutdown, ShutdownLoop,
     CountsArePositive
<1>14. ASSUME NEW t \in Threads, ShutdownResumes(t)
      PROVE  Pool'
  BY <1>14, DbGateAssumption, <1>e DEF IndInv, TypeOK, Pool, Holding,
     Ownership, Exhausted, DbGateAssumption, ShutdownResumes, ShutdownLoop,
     CountsArePositive
<1>15. ASSUME NEW t \in Threads, ShutdownReserves(t)
      PROVE  Pool'
  BY <1>15, DbGateAssumption, <1>e DEF IndInv, TypeOK, Pool, Holding,
     Ownership, Exhausted, DbGateAssumption, ShutdownReserves, Reserve,
     Granted, CountsArePositive
<1>16. ASSUME NEW t \in Threads, ShutdownCloses(t)
      PROVE  Pool'
  BY <1>16, DbGateAssumption, <1>e DEF IndInv, TypeOK, Pool, Holding,
     Ownership, Exhausted, DbGateAssumption, ShutdownCloses, Close,
     CountsArePositive
<1>17. ASSUME NEW t \in Threads, ShutdownEnds(t)
      PROVE  Pool'
  BY <1>17, DbGateAssumption, <1>e DEF IndInv, TypeOK, Pool, Holding,
     Ownership, Exhausted, DbGateAssumption, ShutdownEnds, EndMaintenance,
     CountsArePositive
<1>18. ASSUME NEW t \in Threads, GuardLease(t)
      PROVE  Pool'
  BY <1>18, DbGateAssumption, <1>e DEF IndInv, TypeOK, Pool, Holding,
     Ownership, Exhausted, DbGateAssumption, GuardLease, Holds,
     TakeConnection, CountsArePositive
<1>19. ASSUME NEW t \in Threads, GuardClose(t)
      PROVE  Pool'
  BY <1>19, DbGateAssumption, <1>e DEF IndInv, TypeOK, Pool, Holding,
     Ownership, Exhausted, DbGateAssumption, GuardClose, Holds, Close,
     CountsArePositive
<1>20. ASSUME NEW t \in Threads, GuardReopen(t)
      PROVE  Pool'
  BY <1>20, DbGateAssumption, <1>e DEF IndInv, TypeOK, Pool, Holding,
     Ownership, Exhausted, DbGateAssumption, GuardReopen, Holds,
     CountsArePositive
<1>21. ASSUME NEW t \in Threads, GuardDrop(t)
      PROVE  Pool'
  BY <1>21, DbGateAssumption, <1>e DEF IndInv, TypeOK, Pool, Holding,
     Ownership, Exhausted, DbGateAssumption, GuardDrop, Holds,
     EndMaintenance, CountsArePositive
<1>22. ASSUME NEW t \in Threads, Expire(t)
      PROVE  Pool'
  BY <1>22, DbGateAssumption, <1>e DEF IndInv, TypeOK, Pool, Holding,
     Ownership, Exhausted, DbGateAssumption, Expire, CountsArePositive
<1>23. ASSUME NEW t \in Threads, SpuriousWake(t)
      PROVE  Pool'
  BY <1>23, DbGateAssumption, <1>e DEF IndInv, TypeOK, Pool, Holding,
     Ownership, Exhausted, DbGateAssumption, SpuriousWake, CountsArePositive
<1>24. CASE UNCHANGED vars
  BY <1>24 DEF vars, IndInv, Pool
<1> QED
  BY <1>1, <1>2, <1>3, <1>4, <1>5, <1>6, <1>7, <1>8, <1>9, <1>10, <1>11,
     <1>12, <1>13, <1>14, <1>15, <1>16, <1>17, <1>18, <1>19, <1>20, <1>21,
     <1>22, <1>23, <1>24 DEF Next, Call, Resume, Work

\* A step of the handle keeps maintenance owned by one thread, alone.
LEMMA OwnershipStep == IndInv /\ [Next]_vars => Ownership'
<1> SUFFICES ASSUME IndInv, [Next]_vars PROVE Ownership'
  OBVIOUS
<1>e. CountsAreZero /\ CountsArePositive
  BY CountFacts
<1>1. ASSUME NEW t \in Threads, NEW p \in Leasing, Lease(t, p)
      PROVE  Ownership'
  BY <1>1, DbGateAssumption, <1>e DEF IndInv, TypeOK, Ownership, Holding,
     MaintenanceHasOneOwner, Owners, Holders, DbGateAssumption, Drained,
     Lease, LeaseLoop, LeaseRefused, LeaseGranted, LeaseWaits,
     TakeConnection, CountsAreZero
<1>2. ASSUME NEW t \in Threads, LeaseResumes(t)
      PROVE  Ownership'
  BY <1>2, DbGateAssumption, <1>e DEF IndInv, TypeOK, Ownership, Holding,
     MaintenanceHasOneOwner, Owners, Holders, DbGateAssumption, Drained,
     LeaseResumes, LeaseLoop, LeaseRefused, LeaseGranted, LeaseWaits,
     TakeConnection, CountsAreZero
<1>3. ASSUME NEW t \in Threads, LockWrite(t)
      PROVE  Ownership'
  BY <1>3, DbGateAssumption, <1>e DEF IndInv, TypeOK, Ownership, Holding,
     MaintenanceHasOneOwner, Owners, Holders, DbGateAssumption, Drained,
     LockWrite, CountsAreZero
<1>4. ASSUME NEW t \in Threads, DropLease(t)
      PROVE  Ownership'
  BY <1>4, DbGateAssumption, <1>e DEF IndInv, TypeOK, Ownership, Holding,
     MaintenanceHasOneOwner, Owners, Holders, DbGateAssumption, Drained,
     DropLease, ReturnConnection, CountsAreZero
<1>5. ASSUME NEW t \in Threads, UnlockWrite(t)
      PROVE  Ownership'
  BY <1>5, DbGateAssumption, <1>e DEF IndInv, TypeOK, Ownership, Holding,
     MaintenanceHasOneOwner, Owners, Holders, DbGateAssumption, Drained,
     UnlockWrite, CountsAreZero
<1>6. ASSUME NEW t \in Threads, Activity(t)
      PROVE  Ownership'
  BY <1>6, DbGateAssumption, <1>e DEF IndInv, TypeOK, Ownership, Holding,
     MaintenanceHasOneOwner, Owners, Holders, DbGateAssumption, Drained,
     Activity, WaitOut, CountsAreZero
<1>7. ASSUME NEW t \in Threads, QueueAccess(t)
      PROVE  Ownership'
  BY <1>7, DbGateAssumption, <1>e DEF IndInv, TypeOK, Ownership, Holding,
     MaintenanceHasOneOwner, Owners, Holders, DbGateAssumption, Drained,
     QueueAccess, WaitOut, CountsAreZero
<1>8. ASSUME NEW t \in Threads, BarredResumes(t)
      PROVE  Ownership'
  BY <1>8, DbGateAssumption, <1>e DEF IndInv, TypeOK, Ownership, Holding,
     MaintenanceHasOneOwner, Owners, Holders, DbGateAssumption, Drained,
     BarredResumes, WaitOut, CountsAreZero
<1>9. ASSUME NEW t \in Threads, DropActivity(t)
      PROVE  Ownership'
  BY <1>9, DbGateAssumption, <1>e DEF IndInv, TypeOK, Ownership, Holding,
     MaintenanceHasOneOwner, Owners, Holders, DbGateAssumption, Drained,
     DropActivity, CountsAreZero
<1>10. ASSUME NEW t \in Threads, DropAccess(t)
      PROVE  Ownership'
  BY <1>10, DbGateAssumption, <1>e DEF IndInv, TypeOK, Ownership, Holding,
     MaintenanceHasOneOwner, Owners, Holders, DbGateAssumption, Drained,
     DropAccess, CountsAreZero
<1>11. ASSUME NEW t \in Threads, Maintenance(t)
      PROVE  Ownership'
  BY <1>11, DbGateAssumption, <1>e DEF IndInv, TypeOK, Ownership, Holding,
     MaintenanceHasOneOwner, Owners, Holders, DbGateAssumption, Drained,
     Maintenance, Reserve, Granted, CountsAreZero
<1>12. ASSUME NEW t \in Threads, ReserveResumes(t)
      PROVE  Ownership'
  BY <1>12, DbGateAssumption, <1>e DEF IndInv, TypeOK, Ownership, Holding,
     MaintenanceHasOneOwner, Owners, Holders, DbGateAssumption, Drained,
     ReserveResumes, Granted, CountsAreZero
<1>13. ASSUME NEW t \in Threads, Shutdown(t)
      PROVE  Ownership'
  BY <1>13, DbGateAssumption, <1>e DEF IndInv, TypeOK, Ownership, Holding,
     MaintenanceHasOneOwner, Owners, Holders, DbGateAssumption, Drained,
     Shutdown, ShutdownLoop, CountsAreZero
<1>14. ASSUME NEW t \in Threads, ShutdownResumes(t)
      PROVE  Ownership'
  BY <1>14, DbGateAssumption, <1>e DEF IndInv, TypeOK, Ownership, Holding,
     MaintenanceHasOneOwner, Owners, Holders, DbGateAssumption, Drained,
     ShutdownResumes, ShutdownLoop, CountsAreZero
<1>15. ASSUME NEW t \in Threads, ShutdownReserves(t)
      PROVE  Ownership'
  BY <1>15, DbGateAssumption, <1>e DEF IndInv, TypeOK, Ownership, Holding,
     MaintenanceHasOneOwner, Owners, Holders, DbGateAssumption, Drained,
     ShutdownReserves, Reserve, Granted, CountsAreZero
<1>16. ASSUME NEW t \in Threads, ShutdownCloses(t)
      PROVE  Ownership'
  BY <1>16, DbGateAssumption, <1>e DEF IndInv, TypeOK, Ownership, Holding,
     MaintenanceHasOneOwner, Owners, Holders, DbGateAssumption, Drained,
     ShutdownCloses, Close, CountsAreZero
<1>17. ASSUME NEW t \in Threads, ShutdownEnds(t)
      PROVE  Ownership'
  BY <1>17, DbGateAssumption, <1>e DEF IndInv, TypeOK, Ownership, Holding,
     MaintenanceHasOneOwner, Owners, Holders, DbGateAssumption, Drained,
     ShutdownEnds, EndMaintenance, CountsAreZero
<1>18. ASSUME NEW t \in Threads, GuardLease(t)
      PROVE  Ownership'
  BY <1>18, DbGateAssumption, <1>e DEF IndInv, TypeOK, Ownership, Holding,
     MaintenanceHasOneOwner, Owners, Holders, DbGateAssumption, Drained,
     GuardLease, Holds, TakeConnection, CountsAreZero
<1>19. ASSUME NEW t \in Threads, GuardClose(t)
      PROVE  Ownership'
  BY <1>19, DbGateAssumption, <1>e DEF IndInv, TypeOK, Ownership, Holding,
     MaintenanceHasOneOwner, Owners, Holders, DbGateAssumption, Drained,
     GuardClose, Holds, Close, CountsAreZero
<1>20. ASSUME NEW t \in Threads, GuardReopen(t)
      PROVE  Ownership'
  BY <1>20, DbGateAssumption, <1>e DEF IndInv, TypeOK, Ownership, Holding,
     MaintenanceHasOneOwner, Owners, Holders, DbGateAssumption, Drained,
     GuardReopen, Holds, CountsAreZero
<1>21. ASSUME NEW t \in Threads, GuardDrop(t)
      PROVE  Ownership'
  BY <1>21, DbGateAssumption, <1>e DEF IndInv, TypeOK, Ownership, Holding,
     MaintenanceHasOneOwner, Owners, Holders, DbGateAssumption, Drained,
     GuardDrop, Holds, EndMaintenance, CountsAreZero
<1>22. ASSUME NEW t \in Threads, Expire(t)
      PROVE  Ownership'
  BY <1>22, DbGateAssumption, <1>e DEF IndInv, TypeOK, Ownership, Holding,
     MaintenanceHasOneOwner, Owners, Holders, DbGateAssumption, Drained,
     Expire, CountsAreZero
<1>23. ASSUME NEW t \in Threads, SpuriousWake(t)
      PROVE  Ownership'
  BY <1>23, DbGateAssumption, <1>e DEF IndInv, TypeOK, Ownership, Holding,
     MaintenanceHasOneOwner, Owners, Holders, DbGateAssumption, Drained,
     SpuriousWake, CountsAreZero
<1>24. CASE UNCHANGED vars
  BY <1>24 DEF vars, IndInv, Ownership, MaintenanceHasOneOwner, Owners,
     Holders
<1> QED
  BY <1>1, <1>2, <1>3, <1>4, <1>5, <1>6, <1>7, <1>8, <1>9, <1>10, <1>11,
     <1>12, <1>13, <1>14, <1>15, <1>16, <1>17, <1>18, <1>19, <1>20, <1>21,
     <1>22, <1>23, <1>24 DEF Next, Call, Resume, Work

\* A step of the handle keeps phases, leases and locks in agreement.
LEMMA HoldingStep == IndInv /\ [Next]_vars => Holding'
<1> SUFFICES ASSUME IndInv, [Next]_vars PROVE Holding'
  OBVIOUS
<1>e. CountsAreZero /\ CountsArePositive
  BY CountFacts
<1>1. ASSUME NEW t \in Threads, NEW p \in Leasing, Lease(t, p)
      PROVE  Holding'
  BY <1>1, DbGateAssumption, <1>e DEF IndInv, TypeOK, Ownership, Holding,
     Holders, DbGateAssumption, Lease, LeaseLoop, LeaseRefused, LeaseGranted,
     LeaseWaits, TakeConnection, CountsAreZero, Drained
<1>2. ASSUME NEW t \in Threads, LeaseResumes(t)
      PROVE  Holding'
  BY <1>2, DbGateAssumption, <1>e DEF IndInv, TypeOK, Ownership, Holding,
     Holders, DbGateAssumption, LeaseResumes, LeaseLoop, LeaseRefused,
     LeaseGranted, LeaseWaits, TakeConnection, CountsAreZero, Drained
<1>3. ASSUME NEW t \in Threads, LockWrite(t)
      PROVE  Holding'
  BY <1>3, DbGateAssumption, <1>e DEF IndInv, TypeOK, Ownership, Holding,
     Holders, DbGateAssumption, LockWrite, CountsAreZero, Drained
<1>4. ASSUME NEW t \in Threads, DropLease(t)
      PROVE  Holding'
  BY <1>4, DbGateAssumption, <1>e DEF IndInv, TypeOK, Ownership, Holding,
     Holders, DbGateAssumption, DropLease, ReturnConnection, CountsAreZero,
     Drained
<1>5. ASSUME NEW t \in Threads, UnlockWrite(t)
      PROVE  Holding'
  BY <1>5, DbGateAssumption, <1>e DEF IndInv, TypeOK, Ownership, Holding,
     Holders, DbGateAssumption, UnlockWrite, CountsAreZero, Drained
<1>6. ASSUME NEW t \in Threads, Activity(t)
      PROVE  Holding'
  BY <1>6, DbGateAssumption, <1>e DEF IndInv, TypeOK, Ownership, Holding,
     Holders, DbGateAssumption, Activity, WaitOut, CountsAreZero, Drained
<1>7. ASSUME NEW t \in Threads, QueueAccess(t)
      PROVE  Holding'
  BY <1>7, DbGateAssumption, <1>e DEF IndInv, TypeOK, Ownership, Holding,
     Holders, DbGateAssumption, QueueAccess, WaitOut, CountsAreZero, Drained
<1>8. ASSUME NEW t \in Threads, BarredResumes(t)
      PROVE  Holding'
  BY <1>8, DbGateAssumption, <1>e DEF IndInv, TypeOK, Ownership, Holding,
     Holders, DbGateAssumption, BarredResumes, WaitOut, CountsAreZero,
     Drained
<1>9. ASSUME NEW t \in Threads, DropActivity(t)
      PROVE  Holding'
  BY <1>9, DbGateAssumption, <1>e DEF IndInv, TypeOK, Ownership, Holding,
     Holders, DbGateAssumption, DropActivity, CountsAreZero, Drained
<1>10. ASSUME NEW t \in Threads, DropAccess(t)
      PROVE  Holding'
  BY <1>10, DbGateAssumption, <1>e DEF IndInv, TypeOK, Ownership, Holding,
     Holders, DbGateAssumption, DropAccess, CountsAreZero, Drained
<1>11. ASSUME NEW t \in Threads, Maintenance(t)
      PROVE  Holding'
  BY <1>11, DbGateAssumption, <1>e DEF IndInv, TypeOK, Ownership, Holding,
     Holders, DbGateAssumption, Maintenance, Reserve, Granted, CountsAreZero,
     Drained
<1>12. ASSUME NEW t \in Threads, ReserveResumes(t)
      PROVE  Holding'
  BY <1>12, DbGateAssumption, <1>e DEF IndInv, TypeOK, Ownership, Holding,
     Holders, DbGateAssumption, ReserveResumes, Granted, CountsAreZero,
     Drained
<1>13. ASSUME NEW t \in Threads, Shutdown(t)
      PROVE  Holding'
  BY <1>13, DbGateAssumption, <1>e DEF IndInv, TypeOK, Ownership, Holding,
     Holders, DbGateAssumption, Shutdown, ShutdownLoop, CountsAreZero,
     Drained
<1>14. ASSUME NEW t \in Threads, ShutdownResumes(t)
      PROVE  Holding'
  BY <1>14, DbGateAssumption, <1>e DEF IndInv, TypeOK, Ownership, Holding,
     Holders, DbGateAssumption, ShutdownResumes, ShutdownLoop, CountsAreZero,
     Drained
<1>15. ASSUME NEW t \in Threads, ShutdownReserves(t)
      PROVE  Holding'
  BY <1>15, DbGateAssumption, <1>e DEF IndInv, TypeOK, Ownership, Holding,
     Holders, DbGateAssumption, ShutdownReserves, Reserve, Granted,
     CountsAreZero, Drained
<1>16. ASSUME NEW t \in Threads, ShutdownCloses(t)
      PROVE  Holding'
  BY <1>16, DbGateAssumption, <1>e DEF IndInv, TypeOK, Ownership, Holding,
     Holders, DbGateAssumption, ShutdownCloses, Close, CountsAreZero, Drained
<1>17. ASSUME NEW t \in Threads, ShutdownEnds(t)
      PROVE  Holding'
  BY <1>17, DbGateAssumption, <1>e DEF IndInv, TypeOK, Ownership, Holding,
     Holders, DbGateAssumption, ShutdownEnds, EndMaintenance, CountsAreZero,
     Drained
<1>18. ASSUME NEW t \in Threads, GuardLease(t)
      PROVE  Holding'
  BY <1>18, DbGateAssumption, <1>e DEF IndInv, TypeOK, Ownership, Holding,
     Holders, DbGateAssumption, GuardLease, Holds, TakeConnection,
     CountsAreZero, Drained
<1>19. ASSUME NEW t \in Threads, GuardClose(t)
      PROVE  Holding'
  BY <1>19, DbGateAssumption, <1>e DEF IndInv, TypeOK, Ownership, Holding,
     Holders, DbGateAssumption, GuardClose, Holds, Close, CountsAreZero,
     Drained
<1>20. ASSUME NEW t \in Threads, GuardReopen(t)
      PROVE  Holding'
  BY <1>20, DbGateAssumption, <1>e DEF IndInv, TypeOK, Ownership, Holding,
     Holders, DbGateAssumption, GuardReopen, Holds, CountsAreZero, Drained
<1>21. ASSUME NEW t \in Threads, GuardDrop(t)
      PROVE  Holding'
  BY <1>21, DbGateAssumption, <1>e DEF IndInv, TypeOK, Ownership, Holding,
     Holders, DbGateAssumption, GuardDrop, Holds, EndMaintenance,
     CountsAreZero, Drained
<1>22. ASSUME NEW t \in Threads, Expire(t)
      PROVE  Holding'
  BY <1>22, DbGateAssumption, <1>e DEF IndInv, TypeOK, Ownership, Holding,
     Holders, DbGateAssumption, Expire, CountsAreZero, Drained
<1>23. ASSUME NEW t \in Threads, SpuriousWake(t)
      PROVE  Holding'
  BY <1>23, DbGateAssumption, <1>e DEF IndInv, TypeOK, Ownership, Holding,
     Holders, DbGateAssumption, SpuriousWake, CountsAreZero, Drained
<1>24. CASE UNCHANGED vars
  BY <1>24 DEF vars, IndInv, Holding
<1> QED
  BY <1>1, <1>2, <1>3, <1>4, <1>5, <1>6, <1>7, <1>8, <1>9, <1>10, <1>11,
     <1>12, <1>13, <1>14, <1>15, <1>16, <1>17, <1>18, <1>19, <1>20, <1>21,
     <1>22, <1>23, <1>24 DEF Next, Call, Resume, Work

\* A step of the handle keeps overtaken callers on an older generation.
LEMMA OvertakingStep == IndInv /\ [Next]_vars => Overtaking'
<1> SUFFICES ASSUME IndInv, [Next]_vars PROVE Overtaking'
  OBVIOUS
<1>e. CountsAreZero /\ CountsArePositive
  BY CountFacts
<1>1. ASSUME NEW t \in Threads, NEW p \in Leasing, Lease(t, p)
      PROVE  Overtaking'
  BY <1>1 DEF IndInv, TypeOK, Overtaking, Lease, LeaseLoop, LeaseRefused,
     LeaseGranted, LeaseWaits, TakeConnection
<1>2. ASSUME NEW t \in Threads, LeaseResumes(t)
      PROVE  Overtaking'
  BY <1>2 DEF IndInv, TypeOK, Overtaking, LeaseResumes, LeaseLoop,
     LeaseRefused, LeaseGranted, LeaseWaits, TakeConnection
<1>3. ASSUME NEW t \in Threads, LockWrite(t)
      PROVE  Overtaking'
  BY <1>3 DEF IndInv, TypeOK, Overtaking, LockWrite
<1>4. ASSUME NEW t \in Threads, DropLease(t)
      PROVE  Overtaking'
  BY <1>4 DEF IndInv, TypeOK, Overtaking, DropLease, ReturnConnection
<1>5. ASSUME NEW t \in Threads, UnlockWrite(t)
      PROVE  Overtaking'
  BY <1>5 DEF IndInv, TypeOK, Overtaking, UnlockWrite
<1>6. ASSUME NEW t \in Threads, Activity(t)
      PROVE  Overtaking'
  BY <1>6 DEF IndInv, TypeOK, Overtaking, Activity, WaitOut
<1>7. ASSUME NEW t \in Threads, QueueAccess(t)
      PROVE  Overtaking'
  BY <1>7 DEF IndInv, TypeOK, Overtaking, QueueAccess, WaitOut
<1>8. ASSUME NEW t \in Threads, BarredResumes(t)
      PROVE  Overtaking'
  BY <1>8 DEF IndInv, TypeOK, Overtaking, BarredResumes, WaitOut
<1>9. ASSUME NEW t \in Threads, DropActivity(t)
      PROVE  Overtaking'
  BY <1>9 DEF IndInv, TypeOK, Overtaking, DropActivity
<1>10. ASSUME NEW t \in Threads, DropAccess(t)
      PROVE  Overtaking'
  BY <1>10 DEF IndInv, TypeOK, Overtaking, DropAccess
<1>11. ASSUME NEW t \in Threads, Maintenance(t)
      PROVE  Overtaking'
  BY <1>11 DEF IndInv, TypeOK, Overtaking, Maintenance, Reserve, Granted
<1>12. ASSUME NEW t \in Threads, ReserveResumes(t)
      PROVE  Overtaking'
  BY <1>12 DEF IndInv, TypeOK, Overtaking, ReserveResumes, Granted
<1>13. ASSUME NEW t \in Threads, Shutdown(t)
      PROVE  Overtaking'
  BY <1>13 DEF IndInv, TypeOK, Overtaking, Shutdown, ShutdownLoop
<1>14. ASSUME NEW t \in Threads, ShutdownResumes(t)
      PROVE  Overtaking'
  BY <1>14 DEF IndInv, TypeOK, Overtaking, ShutdownResumes, ShutdownLoop
<1>15. ASSUME NEW t \in Threads, ShutdownReserves(t)
      PROVE  Overtaking'
  BY <1>15 DEF IndInv, TypeOK, Overtaking, ShutdownReserves, Reserve, Granted
<1>16. ASSUME NEW t \in Threads, ShutdownCloses(t)
      PROVE  Overtaking'
  BY <1>16 DEF IndInv, TypeOK, Overtaking, ShutdownCloses, Close
<1>17. ASSUME NEW t \in Threads, ShutdownEnds(t)
      PROVE  Overtaking'
  BY <1>17 DEF IndInv, TypeOK, Overtaking, ShutdownEnds, EndMaintenance
<1>18. ASSUME NEW t \in Threads, GuardLease(t)
      PROVE  Overtaking'
  BY <1>18 DEF IndInv, TypeOK, Overtaking, GuardLease, Holds, TakeConnection
<1>19. ASSUME NEW t \in Threads, GuardClose(t)
      PROVE  Overtaking'
  BY <1>19 DEF IndInv, TypeOK, Overtaking, GuardClose, Holds, Close
<1>20. ASSUME NEW t \in Threads, GuardReopen(t)
      PROVE  Overtaking'
  BY <1>20 DEF IndInv, TypeOK, Overtaking, GuardReopen, Holds
<1>21. ASSUME NEW t \in Threads, GuardDrop(t)
      PROVE  Overtaking'
  BY <1>21 DEF IndInv, TypeOK, Overtaking, GuardDrop, Holds, EndMaintenance
<1>22. ASSUME NEW t \in Threads, Expire(t)
      PROVE  Overtaking'
  BY <1>22 DEF IndInv, TypeOK, Overtaking, Expire
<1>23. ASSUME NEW t \in Threads, SpuriousWake(t)
      PROVE  Overtaking'
  BY <1>23 DEF IndInv, TypeOK, Overtaking, SpuriousWake
<1>24. CASE UNCHANGED vars
  BY <1>24 DEF vars, IndInv, Overtaking
<1> QED
  BY <1>1, <1>2, <1>3, <1>4, <1>5, <1>6, <1>7, <1>8, <1>9, <1>10, <1>11,
     <1>12, <1>13, <1>14, <1>15, <1>16, <1>17, <1>18, <1>19, <1>20, <1>21,
     <1>22, <1>23, <1>24 DEF Next, Call, Resume, Work

\* A step of the handle never leaves a thread asleep without its reason.
LEMMA WakeupStep == IndInv /\ [Next]_vars => NoLostWakeup'
<1> SUFFICES ASSUME IndInv, [Next]_vars PROVE NoLostWakeup'
  OBVIOUS
<1>e. CountsAreZero /\ CountsArePositive
  BY CountFacts
<1>1. ASSUME NEW t \in Threads, NEW p \in Leasing, Lease(t, p)
      PROVE  NoLostWakeup'
  BY <1>1, DbGateAssumption DEF IndInv, TypeOK, NoLostWakeup, Holding,
     Ownership, Holders, Exhausted, Drained, MaintenanceHasOneOwner, Owners,
     DbGateAssumption, Lease, LeaseLoop, LeaseRefused, LeaseGranted,
     LeaseWaits, TakeConnection
<1>2. ASSUME NEW t \in Threads, LeaseResumes(t)
      PROVE  NoLostWakeup'
  BY <1>2, DbGateAssumption DEF IndInv, TypeOK, NoLostWakeup, Holding,
     Ownership, Holders, Exhausted, Drained, MaintenanceHasOneOwner, Owners,
     DbGateAssumption, LeaseResumes, LeaseLoop, LeaseRefused, LeaseGranted,
     LeaseWaits, TakeConnection
<1>3. ASSUME NEW t \in Threads, LockWrite(t)
      PROVE  NoLostWakeup'
  BY <1>3, DbGateAssumption DEF IndInv, TypeOK, NoLostWakeup, Holding,
     Ownership, Holders, Exhausted, Drained, MaintenanceHasOneOwner, Owners,
     DbGateAssumption, LockWrite
<1>4. ASSUME NEW t \in Threads, DropLease(t)
      PROVE  NoLostWakeup'
  BY <1>4, DbGateAssumption DEF IndInv, TypeOK, NoLostWakeup, Holding,
     Ownership, Holders, Exhausted, Drained, MaintenanceHasOneOwner, Owners,
     DbGateAssumption, DropLease, ReturnConnection
<1>5. ASSUME NEW t \in Threads, UnlockWrite(t)
      PROVE  NoLostWakeup'
  BY <1>5, DbGateAssumption DEF IndInv, TypeOK, NoLostWakeup, Holding,
     Ownership, Holders, Exhausted, Drained, MaintenanceHasOneOwner, Owners,
     DbGateAssumption, UnlockWrite
<1>6. ASSUME NEW t \in Threads, Activity(t)
      PROVE  NoLostWakeup'
  BY <1>6, DbGateAssumption DEF IndInv, TypeOK, NoLostWakeup, Holding,
     Ownership, Holders, Exhausted, Drained, MaintenanceHasOneOwner, Owners,
     DbGateAssumption, Activity, WaitOut
<1>7. ASSUME NEW t \in Threads, QueueAccess(t)
      PROVE  NoLostWakeup'
  BY <1>7, DbGateAssumption DEF IndInv, TypeOK, NoLostWakeup, Holding,
     Ownership, Holders, Exhausted, Drained, MaintenanceHasOneOwner, Owners,
     DbGateAssumption, QueueAccess, WaitOut
<1>8. ASSUME NEW t \in Threads, BarredResumes(t)
      PROVE  NoLostWakeup'
  BY <1>8, DbGateAssumption DEF IndInv, TypeOK, NoLostWakeup, Holding,
     Ownership, Holders, Exhausted, Drained, MaintenanceHasOneOwner, Owners,
     DbGateAssumption, BarredResumes, WaitOut
<1>9. ASSUME NEW t \in Threads, DropActivity(t)
      PROVE  NoLostWakeup'
  BY <1>9, DbGateAssumption DEF IndInv, TypeOK, NoLostWakeup, Holding,
     Ownership, Holders, Exhausted, Drained, MaintenanceHasOneOwner, Owners,
     DbGateAssumption, DropActivity
<1>10. ASSUME NEW t \in Threads, DropAccess(t)
      PROVE  NoLostWakeup'
  BY <1>10, DbGateAssumption DEF IndInv, TypeOK, NoLostWakeup, Holding,
     Ownership, Holders, Exhausted, Drained, MaintenanceHasOneOwner, Owners,
     DbGateAssumption, DropAccess
<1>11. ASSUME NEW t \in Threads, Maintenance(t)
      PROVE  NoLostWakeup'
  BY <1>11, DbGateAssumption DEF IndInv, TypeOK, NoLostWakeup, Holding,
     Ownership, Holders, Exhausted, Drained, MaintenanceHasOneOwner, Owners,
     DbGateAssumption, Maintenance, Reserve, Granted
<1>12. ASSUME NEW t \in Threads, ReserveResumes(t)
      PROVE  NoLostWakeup'
  BY <1>12, DbGateAssumption DEF IndInv, TypeOK, NoLostWakeup, Holding,
     Ownership, Holders, Exhausted, Drained, MaintenanceHasOneOwner, Owners,
     DbGateAssumption, ReserveResumes, Granted
<1>13. ASSUME NEW t \in Threads, Shutdown(t)
      PROVE  NoLostWakeup'
  BY <1>13, DbGateAssumption DEF IndInv, TypeOK, NoLostWakeup, Holding,
     Ownership, Holders, Exhausted, Drained, MaintenanceHasOneOwner, Owners,
     DbGateAssumption, Shutdown, ShutdownLoop
<1>14. ASSUME NEW t \in Threads, ShutdownResumes(t)
      PROVE  NoLostWakeup'
  BY <1>14, DbGateAssumption DEF IndInv, TypeOK, NoLostWakeup, Holding,
     Ownership, Holders, Exhausted, Drained, MaintenanceHasOneOwner, Owners,
     DbGateAssumption, ShutdownResumes, ShutdownLoop
<1>15. ASSUME NEW t \in Threads, ShutdownReserves(t)
      PROVE  NoLostWakeup'
  BY <1>15, DbGateAssumption DEF IndInv, TypeOK, NoLostWakeup, Holding,
     Ownership, Holders, Exhausted, Drained, MaintenanceHasOneOwner, Owners,
     DbGateAssumption, ShutdownReserves, Reserve, Granted
<1>16. ASSUME NEW t \in Threads, ShutdownCloses(t)
      PROVE  NoLostWakeup'
  BY <1>16, DbGateAssumption DEF IndInv, TypeOK, NoLostWakeup, Holding,
     Ownership, Holders, Exhausted, Drained, MaintenanceHasOneOwner, Owners,
     DbGateAssumption, ShutdownCloses, Close
<1>17. ASSUME NEW t \in Threads, ShutdownEnds(t)
      PROVE  NoLostWakeup'
  BY <1>17, DbGateAssumption DEF IndInv, TypeOK, NoLostWakeup, Holding,
     Ownership, Holders, Exhausted, Drained, MaintenanceHasOneOwner, Owners,
     DbGateAssumption, ShutdownEnds, EndMaintenance
<1>18. ASSUME NEW t \in Threads, GuardLease(t)
      PROVE  NoLostWakeup'
  BY <1>18, DbGateAssumption DEF IndInv, TypeOK, NoLostWakeup, Holding,
     Ownership, Holders, Exhausted, Drained, MaintenanceHasOneOwner, Owners,
     DbGateAssumption, GuardLease, Holds, TakeConnection
<1>19. ASSUME NEW t \in Threads, GuardClose(t)
      PROVE  NoLostWakeup'
  BY <1>19, DbGateAssumption DEF IndInv, TypeOK, NoLostWakeup, Holding,
     Ownership, Holders, Exhausted, Drained, MaintenanceHasOneOwner, Owners,
     DbGateAssumption, GuardClose, Holds, Close
<1>20. ASSUME NEW t \in Threads, GuardReopen(t)
      PROVE  NoLostWakeup'
  BY <1>20, DbGateAssumption DEF IndInv, TypeOK, NoLostWakeup, Holding,
     Ownership, Holders, Exhausted, Drained, MaintenanceHasOneOwner, Owners,
     DbGateAssumption, GuardReopen, Holds
<1>21. ASSUME NEW t \in Threads, GuardDrop(t)
      PROVE  NoLostWakeup'
  BY <1>21, DbGateAssumption DEF IndInv, TypeOK, NoLostWakeup, Holding,
     Ownership, Holders, Exhausted, Drained, MaintenanceHasOneOwner, Owners,
     DbGateAssumption, GuardDrop, Holds, EndMaintenance
<1>22. ASSUME NEW t \in Threads, Expire(t)
      PROVE  NoLostWakeup'
  BY <1>22, DbGateAssumption DEF IndInv, TypeOK, NoLostWakeup, Holding,
     Ownership, Holders, Exhausted, Drained, MaintenanceHasOneOwner, Owners,
     DbGateAssumption, Expire
<1>23. ASSUME NEW t \in Threads, SpuriousWake(t)
      PROVE  NoLostWakeup'
  BY <1>23, DbGateAssumption DEF IndInv, TypeOK, NoLostWakeup, Holding,
     Ownership, Holders, Exhausted, Drained, MaintenanceHasOneOwner, Owners,
     DbGateAssumption, SpuriousWake
<1>24. CASE UNCHANGED vars
  BY <1>24 DEF vars, IndInv, NoLostWakeup, Exhausted, Drained
<1> QED
  BY <1>1, <1>2, <1>3, <1>4, <1>5, <1>6, <1>7, <1>8, <1>9, <1>10, <1>11,
     <1>12, <1>13, <1>14, <1>15, <1>16, <1>17, <1>18, <1>19, <1>20, <1>21,
     <1>22, <1>23, <1>24 DEF Next, Call, Resume, Work

-----------------------------------------------------------------------------
LEMMA InitIndInv == Init => IndInv
<1> SUFFICES ASSUME Init PROVE IndInv
  OBVIOUS
<1>1. FlagsOK
  BY Zenon DEF Init, FlagsOK
<1>2. TypeOK
  BY <1>1 DEF Init, TypeOK
<1>3. Counts
  <2>1. Holders = {}
    BY DEF Init, Holders
  <2> QED
    BY <2>1, FS_EmptySet DEF Init, Counts
<1>4. Pool /\ Holding /\ Overtaking /\ NoLostWakeup
  BY DbGateAssumption
     DEF Init, Pool, Holding, Overtaking, NoLostWakeup, DbGateAssumption
<1>5. Ownership
  BY DbGateAssumption
     DEF Init, Ownership, MaintenanceHasOneOwner, Owners, DbGateAssumption
<1> QED
  BY <1>2, <1>3, <1>4, <1>5 DEF IndInv

\* IndInv holds in every reachable state.
THEOREM Invariance == Spec => []IndInv
<1>1. IndInv /\ [Next]_vars => IndInv'
  BY TypeStep, CountsStep, PoolStep, OwnershipStep, HoldingStep, OvertakingStep,
     WakeupStep DEF IndInv
<1> QED
  BY InitIndInv, <1>1, PTL DEF Spec

-----------------------------------------------------------------------------
\* Every variable keeps its type.
THEOREM TypeCorrect == Spec => []TypeOK
<1>1. IndInv => TypeOK
  BY DEF IndInv
<1> QED
  BY Invariance, <1>1, PTL

\* While a thread holds the MaintenanceGuard no other thread is at the library
\* or inside the queue (MaintenanceGuard's contract in handle.rs).
THEOREM Exclusion == Spec => []MaintenanceIsExclusive
<1>1. IndInv => MaintenanceIsExclusive
  <2> SUFFICES ASSUME IndInv, guard # NoThread PROVE MaintenanceIsExclusive
    BY DEF MaintenanceIsExclusive
  <2>1. guard \in Owners
    BY DEF IndInv, TypeOK, Owners
  <2> QED
    BY <2>1 DEF IndInv, Ownership, MaintenanceHasOneOwner, MaintenanceIsExclusive
<1> QED
  BY Invariance, <1>1, PTL

\* The maintenance flag is up exactly while one thread is bound to lower it.
THEOREM OneOwner == Spec => []MaintenanceHasOneOwner
<1>1. IndInv => MaintenanceHasOneOwner
  BY DEF IndInv, Ownership
<1> QED
  BY Invariance, <1>1, PTL

\* No connection leaks and the pool never exceeds POOL_SIZE.
THEOREM Accounting == Spec => []PoolIsAccounted
<1>1. IndInv => PoolIsAccounted
  BY DEF IndInv, TypeOK, Pool, Counts, PoolIsAccounted
<1> QED
  BY Invariance, <1>1, PTL

\* A leased connection belongs to the library that is open now.
THEOREM Freshness == Spec => []NoStaleConnection
<1>1. IndInv => NoStaleConnection
  BY DEF IndInv, Holding, NoStaleConnection, Holders
<1> QED
  BY Invariance, <1>1, PTL

\* No thread sleeps on `changed` after its reason to sleep is gone.
THEOREM WakeupsReach == Spec => []NoLostWakeup
<1>1. IndInv => NoLostWakeup
  BY DEF IndInv
<1> QED
  BY Invariance, <1>1, PTL

\* Writers exclude each other and work on the open library.
THEOREM Serialization == Spec => []WritersExclude
<1>1. IndInv => WritersExclude
  BY DEF IndInv, Holding, WritersExclude
<1> QED
  BY Invariance, <1>1, PTL

\* A lease call overtaken by a reservation never gets a connection.
THEOREM Overtaken == Spec => OvertakenLeaseIsRefused
<1>1. ASSUME IndInv, [Next]_vars, NEW t \in spanned, conn[t] = 0
      PROVE  conn'[t] = 0
  <2>1. t \in Threads /\ phase[t] \in Leasing /\ gen[t] # generation
    BY <1>1 DEF IndInv, TypeOK, Overtaking
  <2>2. ASSUME NEW u \in Threads, conn' = [conn EXCEPT ![u] = epoch],
               u # t \/ conn' = conn
        PROVE  conn'[t] = 0
    BY <1>1, <2>1, <2>2 DEF IndInv, TypeOK
  <2>3. ASSUME NEW u \in Threads, Call(u) PROVE conn'[t] = 0
    <3>1. ASSUME NEW p \in Leasing, Lease(u, p) PROVE conn'[t] = 0
      BY <1>1, <2>1, <2>2, <3>1
         DEF Lease, LeaseLoop, LeaseRefused, LeaseGranted, LeaseWaits, TakeConnection
    <3> QED
      BY <1>1, <2>3, <3>1
         DEF Call, Activity, QueueAccess, WaitOut, Maintenance, Shutdown, ShutdownLoop
  <2>4. ASSUME NEW u \in Threads, Resume(u) PROVE conn'[t] = 0
    <3>1. CASE LeaseResumes(u)
      BY <1>1, <2>1, <2>2, <3>1
         DEF LeaseResumes, LeaseLoop, LeaseRefused, LeaseGranted, LeaseWaits,
             TakeConnection
    <3> QED
      BY <1>1, <2>4, <3>1
         DEF Resume, BarredResumes, WaitOut, ReserveResumes, ShutdownResumes,
             ShutdownLoop, ShutdownReserves, ShutdownCloses, ShutdownEnds,
             EndMaintenance
  <2>5. ASSUME NEW u \in Threads, Work(u) PROVE conn'[t] = 0
    BY <1>1, <2>1, <2>5
       DEF Work, LockWrite, DropLease, ReturnConnection, UnlockWrite, DropActivity,
           DropAccess, GuardLease, TakeConnection, GuardClose, GuardReopen, Holds,
           GuardDrop, EndMaintenance, IndInv, TypeOK
  <2>6. ASSUME NEW u \in Threads, Expire(u) \/ SpuriousWake(u) PROVE conn'[t] = 0
    BY <1>1, <2>6 DEF Expire, SpuriousWake
  <2> QED
    BY <1>1, <2>3, <2>4, <2>5, <2>6 DEF Next, vars
<1>2. IndInv /\ [Next]_vars
        => [\A t \in spanned : conn[t] = 0 => conn'[t] = 0]_vars
  BY <1>1
<1> QED
  BY Invariance, <1>2, PTL DEF Spec, OvertakenLeaseIsRefused

-----------------------------------------------------------------------------
\* Maintenance is reserved by nobody when the flag is down, and the thread
\* that drains is the only candidate for the guard.
LEMMA NobodyOwns ==
  ASSUME IndInv
  PROVE  /\ ~maintenance => guard = NoThread
         /\ \A t \in Threads : phase[t] \in Draining => guard = NoThread
  BY DbGateAssumption
     DEF IndInv, TypeOK, Ownership, MaintenanceHasOneOwner, Owners, DbGateAssumption

\* A step of the handle is a step of the library, or changes nothing there.
LEMMA LibraryStep ==
  ASSUME IndInv, [Next]_vars
  PROVE  [Library!Next]_(Library!vars)
<1> USE DEF Library!vars
<1>e. CountsAreZero
  BY CountFacts
<1>f. conn \in [Threads -> Nat] /\ epoch \in Nat /\ epoch > 0
  BY DEF IndInv, TypeOK
<1>1. ASSUME NEW t \in Threads, NEW p \in Leasing, Lease(t, p)
      PROVE  Library!Use(t) \/ UNCHANGED Library!vars
  BY <1>1, <1>f, NobodyOwns
     DEF Lease, LeaseLoop, LeaseRefused, LeaseGranted, LeaseWaits, TakeConnection,
         Library!Use
<1>2. ASSUME NEW t \in Threads, LeaseResumes(t)
      PROVE  Library!Use(t) \/ UNCHANGED Library!vars
  BY <1>2, <1>f, NobodyOwns
     DEF LeaseResumes, LeaseLoop, LeaseRefused, LeaseGranted, LeaseWaits,
         TakeConnection, Library!Use, IndInv, Holding
<1>3. ASSUME NEW t \in Threads, Activity(t) \/ QueueAccess(t) \/ BarredResumes(t)
      PROVE  Library!EnterQueue(t) \/ UNCHANGED Library!vars
  BY <1>3, NobodyOwns
     DEF Activity, QueueAccess, BarredResumes, WaitOut, Library!EnterQueue, IndInv,
         Holding
<1>4. ASSUME NEW t \in Threads,
             Maintenance(t) \/ ReserveResumes(t) \/ ShutdownReserves(t)
      PROVE  Library!Own(t) \/ UNCHANGED Library!vars
  <2>1. guard' = guard \/ (guard' = t /\ Drained /\ guard = NoThread)
    BY <1>4, NobodyOwns
       DEF Maintenance, ReserveResumes, ShutdownReserves, Reserve, Granted
  <2>2. UNCHANGED <<epoch, open, conn, accessing>>
    BY <1>4 DEF Maintenance, ReserveResumes, ShutdownReserves
  <2>3. CASE Drained
    <3>1. accessing = {} /\ \A u \in Threads : conn[u] = 0
      BY <1>e, <2>3 DEF CountsAreZero, Drained, Holders
    <3> QED
      BY <2>1, <2>2, <3>1 DEF Library!Own
  <2> QED
    BY <2>1, <2>2, <2>3
<1>5. ASSUME NEW t \in Threads,
             \/ Shutdown(t) \/ ShutdownResumes(t) \/ LockWrite(t) \/ UnlockWrite(t)
             \/ DropActivity(t) \/ Expire(t) \/ SpuriousWake(t)
      PROVE  UNCHANGED Library!vars
  BY <1>5 DEF Shutdown, ShutdownResumes, ShutdownLoop, LockWrite, UnlockWrite,
              DropActivity, Expire, SpuriousWake
<1>6. ASSUME NEW t \in Threads, ShutdownCloses(t) \/ GuardClose(t)
      PROVE  Library!CloseFile(t) \/ UNCHANGED Library!vars
  <2>1. leased = 0 /\ guard = t /\ open' = FALSE
          /\ UNCHANGED <<epoch, guard, conn, accessing>>
    BY <1>6 DEF ShutdownCloses, GuardClose, Holds, Close, IndInv, Ownership
  <2>2. conn[t] = 0
    BY <1>e, <2>1 DEF CountsAreZero, Holders
  <2>3. open \in BOOLEAN
    BY DEF IndInv, TypeOK, FlagsOK
  <2>4. CASE open
    BY <2>1, <2>2, <2>4 DEF Library!CloseFile
  <2>5. CASE ~open
    <3>1. open = FALSE
      BY <2>3, <2>5, Zenon
    <3> QED
      BY <2>1, <3>1
  <2> QED
    BY <2>4, <2>5
<1>7. ASSUME NEW t \in Threads, ShutdownEnds(t) \/ GuardDrop(t)
      PROVE  Library!Disown(t)
  <2>1. CASE ShutdownEnds(t)
    BY <2>1 DEF ShutdownEnds, EndMaintenance, Library!Disown, IndInv, Ownership, Holding
  <2>2. CASE GuardDrop(t)
    BY <2>2 DEF GuardDrop, Holds, EndMaintenance, Library!Disown
  <2> QED
    BY <1>7, <2>1, <2>2
<1>8. ASSUME NEW t \in Threads, GuardLease(t) PROVE Library!Use(t)
  BY <1>8 DEF GuardLease, Holds, TakeConnection, Library!Use
<1>9. ASSUME NEW t \in Threads, GuardReopen(t) PROVE Library!OpenFile(t)
  BY <1>9 DEF GuardReopen, Holds, Library!OpenFile
<1>10. ASSUME NEW t \in Threads, DropLease(t) PROVE Library!EndUse(t)
  BY <1>10 DEF DropLease, ReturnConnection, Library!EndUse
<1>11. ASSUME NEW t \in Threads, DropAccess(t) PROVE Library!LeaveQueue(t)
  BY <1>11 DEF DropAccess, Library!LeaveQueue
<1>12. CASE UNCHANGED vars
  BY <1>12 DEF vars
<1> QED
  BY <1>1, <1>2, <1>3, <1>4, <1>5, <1>6, <1>7, <1>8, <1>9, <1>10, <1>11, <1>12
     DEF Next, Call, Resume, Work, Library!Next

\* The database handle implements ExclusiveLibrary.
THEOREM Refinement == Spec => ImplementsLibrary
<1>1. Init => Library!Init
  BY DEF Init, Library!Init
<1>2. IndInv /\ [Next]_vars => [Library!Next]_(Library!vars)
  BY LibraryStep
<1> QED
  BY <1>1, <1>2, Invariance, PTL DEF Spec, ImplementsLibrary, Library!Spec
=============================================================================
