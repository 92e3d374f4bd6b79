------------------------------- MODULE MCDjEngine -------------------------------
EXTENDS DjEngine, TLC

LoadOps == {[name |-> "load", deck |-> d, track |-> t] : d \in Decks, t \in Tracks}
(* Of the operations that change a deck and say so in one event, one that   *)
(* needs a track and one that does not stand for the others.               *)
SomeOps ==
    LoadOps \cup {[name |-> "mixer"], [name |-> "meters"]}
    \cup {[name |-> op, deck |-> d] : d \in Decks, op \in {"unload", "play", "mark"}}

TracksAlike == Permutations(Tracks)

(* A state that takes three calls to reach: the application has started    *)
(* the engine, the webview has connected to it and has asked for a track,  *)
(* and all that was sent has arrived: hello twice, a request for a         *)
(* snapshot, one for Junction's state, and the load.                       *)
LoadAsked(track) ==
    LET first == BeginSession(NewEngine(1), [id |-> 1]).e
        second == [BeginSession(first, [id |-> 2]).e EXCEPT !.last = 5]
    IN DeckLoad(second, CHOOSE d \in Decks : TRUE, track).e

Loading(engine) ==
    /\ running = 1 /\ lifecycle = Nobody
    /\ proc = [p \in Procs |->
                 IF p = 1 THEN [NotStarted(1) EXCEPT
                     !.life = "up", !.alive = TRUE, !.stdin = "open", !.nextId = 5,
                     !.session = 2, !.engine = engine]
                 ELSE NotStarted(p)]
    /\ call = [c \in Callers |-> Idle]
    /\ client = [session |-> [epoch |-> 1, n |-> 2],
                 view |-> ApplySnapshot(Snapshot(engine)),
                 buffering |-> FALSE, buffer |-> <<>>]
    /\ calls = 1 /\ faults = 0

(* Behaviours begin with the application or with the load under way, which *)
(* is counted as one call: two more follow.                                *)
BeginOrGoOn ==
    /\ Init \/ \E track \in Tracks : Loading(LoadAsked(track))
    /\ [][Next]_vars

=============================================================================
