------------------------------- MODULE EngineView -------------------------------
(***************************************************************************)
(* The webview's copy of the engine's state: applySnapshot,                *)
(* applySnapshotWithEvents and reduceEngineEvent of protocol.ts.           *)
(***************************************************************************)
EXTENDS EngineHost

(* createInitialClientState; epoch 0 stands for a snapshot not yet taken.  *)
NoView ==
    [epoch |-> 0, session |-> 0, rev |-> 0, seq |-> 0, dropped |-> FALSE,
     invalidated |-> FALSE, decks |-> [d \in Decks |-> NewDeck], mixer |-> 0]

ApplySnapshot(snapshot) ==
    [epoch |-> snapshot.epoch, session |-> snapshot.session, rev |-> snapshot.rev,
     seq |-> snapshot.seq, dropped |-> FALSE, invalidated |-> FALSE,
     decks |-> snapshot.decks, mixer |-> snapshot.mixer]

(* The state an event carries, laid over the snapshot; meters are kept     *)
(* beside it.                                                              *)
Overlaid(view, event) ==
    CASE event.kind = "deck"     -> [view EXCEPT !.rev = event.rev, !.decks[event.deck] = event.data]
      [] event.kind = "mixer"    -> [view EXCEPT !.rev = event.rev, !.mixer = event.data]
      [] event.kind = "position" ->
           [view EXCEPT !.rev = event.rev,
                        !.decks = [d \in Decks |-> [@[d] EXCEPT !.status = event.data[d]]]]
      [] event.kind = "meters"   -> view

(* Events of another engine and events already counted are dropped; a gap  *)
(* in the numbers is remembered; an invalidation of another session than   *)
(* the snapshot's, and state older than the snapshot's, only count.        *)
Foreign(view, event) == view.epoch # 0 /\ event.epoch # view.epoch
NeverMissed(view, event) == FALSE
Missed(view, event) == view.seq > 0 /\ event.seq > view.seq + 1

Counted(view, event) ==
    [view EXCEPT !.seq = event.seq, !.dropped = @ \/ Missed(view, event)]

ReduceEvent(view, event) ==
    LET next == Counted(view, event)
    IN IF Foreign(view, event) \/ event.seq <= view.seq THEN view
       ELSE IF event.kind = "invalidated" THEN
              IF view.epoch # 0 /\ event.data # view.session THEN next
              ELSE [next EXCEPT !.invalidated = TRUE]
       ELSE IF view.epoch = 0 \/ event.rev < view.rev THEN next
       ELSE Overlaid(next, event)

(* Only events of the engine and newer than the snapshot are replayed.     *)
Replayable(snapshot, event) == event.epoch = snapshot.epoch /\ event.seq > snapshot.seq
ApplySnapshotWithEvents(snapshot, events) ==
    LET next[k \in 0 .. Len(events)] ==
          IF k = 0 THEN ApplySnapshot(snapshot)
          ELSE IF Replayable(snapshot, events[k]) THEN ReduceEvent(next[k - 1], events[k])
          ELSE next[k - 1]
    IN next[Len(events)]

=============================================================================
