-------------------------- MODULE ExclusiveLibrary --------------------------
(***************************************************************************)
(* What the database handle promises its callers, without queues, flags or *)
(* timeouts: one library file with a version; threads that use a version,  *)
(* threads inside the analysis queue, and at most one owner, who alone may *)
(* close the file and open another in its place, once nobody else uses it. *)
(***************************************************************************)
EXTENDS Naturals

CONSTANTS Threads, NoThread

VARIABLES version, open, owner, using, inside

vars == <<version, open, owner, using, inside>>

Init == /\ version = 1 /\ open = TRUE /\ owner = NoThread
        /\ using = [t \in Threads |-> 0] /\ inside = {}

Use(t) == /\ open /\ owner \in {NoThread, t} /\ using[t] = 0
          /\ using' = [using EXCEPT ![t] = version]
          /\ UNCHANGED <<version, open, owner, inside>>

EndUse(t) == /\ using[t] # 0
             /\ using' = [using EXCEPT ![t] = 0]
             /\ UNCHANGED <<version, open, owner, inside>>

EnterQueue(t) == /\ owner = NoThread /\ t \notin inside
                 /\ inside' = inside \cup {t}
                 /\ UNCHANGED <<version, open, owner, using>>

LeaveQueue(t) == /\ t \in inside
                 /\ inside' = inside \ {t}
                 /\ UNCHANGED <<version, open, owner, using>>

Own(t) == /\ owner = NoThread /\ inside = {} /\ \A u \in Threads : using[u] = 0
          /\ owner' = t
          /\ UNCHANGED <<version, open, using, inside>>

CloseFile(t) == /\ owner = t /\ open /\ using[t] = 0
                /\ open' = FALSE
                /\ UNCHANGED <<version, owner, using, inside>>

OpenFile(t) == /\ owner = t /\ ~open
               /\ open' = TRUE /\ version' = version + 1
               /\ UNCHANGED <<owner, using, inside>>

Disown(t) == /\ owner = t /\ using[t] = 0
             /\ owner' = NoThread
             /\ UNCHANGED <<version, open, using, inside>>

Next == \E t \in Threads : \/ Use(t) \/ EndUse(t)
                           \/ EnterQueue(t) \/ LeaveQueue(t)
                           \/ Own(t) \/ CloseFile(t) \/ OpenFile(t) \/ Disown(t)

Spec == Init /\ [][Next]_vars
=============================================================================
