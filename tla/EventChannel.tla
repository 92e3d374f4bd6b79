------------------------------ MODULE EventChannel ------------------------------
(***************************************************************************)
(* What the notification relay promises to the engine's host and to the    *)
(* webview: notifications arrive once, in order and without a gap, until   *)
(* the channel breaks; a broken channel keeps nothing of what was still    *)
(* under way but the notification in hand, and may announce the break.     *)
(***************************************************************************)
EXTENDS Integers, Sequences

VARIABLES
    state,      \* "open", "broken" or "closed"
    accepted,   \* the notifications taken so far, numbered from 1
    queue,      \* those not delivered yet, and announcements of a break
    delivered   \* what the webview has been handed

vars == <<state, accepted, queue, delivered>>

Down == 0       \* the announcement { running: false, reason: ... }

Init == state = "open" /\ accepted = 0 /\ queue = <<>> /\ delivered = <<>>

Accept ==
    /\ state = "open"
    /\ accepted' = accepted + 1
    /\ queue' = Append(queue, accepted')
    /\ UNCHANGED <<state, delivered>>

Deliver ==
    /\ queue # <<>>
    /\ queue' = Tail(queue)
    /\ delivered' = Append(delivered, Head(queue))
    /\ UNCHANGED <<state, accepted>>

(* All but the notification in hand is discarded.                          *)
Cut(after) == \E k \in 0 .. 1 : k <= Len(queue) /\ queue' = SubSeq(queue, 1, k) \o after

Break ==
    /\ state = "open"
    /\ state' = "broken"
    /\ Cut(<<>>) \/ Cut(<<Down>>)
    /\ UNCHANGED <<accepted, delivered>>

Remind ==
    /\ state = "broken"
    /\ Cut(<<Down>>)
    /\ UNCHANGED <<state, accepted, delivered>>

Lose ==
    /\ state # "open"
    /\ queue # <<>>
    /\ queue' = Tail(queue)
    /\ UNCHANGED <<state, accepted, delivered>>

Close ==
    /\ state' = "closed"
    /\ Cut(<<>>)
    /\ UNCHANGED <<accepted, delivered>>

Next == Accept \/ Deliver \/ Break \/ Remind \/ Lose \/ Close

Spec == Init /\ [][Next]_vars

(* Nothing stays in the channel for ever.                                  *)
FairSpec == Spec /\ WF_vars(Deliver \/ Lose)

=============================================================================
