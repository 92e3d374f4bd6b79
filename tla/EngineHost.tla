------------------------------- MODULE EngineHost -------------------------------
(***************************************************************************)
(* The state machine of the DJ engine host: Engine of engine.rs and the    *)
(* dispatch of runtime.rs, as functions of an engine record.               *)
(*                                                                         *)
(* Of a deck the model keeps what its guards read and what a load resets:  *)
(* the status, the track, the load in flight, whether marks (hot cues, a   *)
(* loop) are set on it, and one value for the settings a load leaves alone *)
(* (tempo, keylock, sync); of the mixer and the audio configuration, one   *)
(* value.  A position is not kept, but the periodic event that repeats the *)
(* status is.  Parameters are valid: an invalid one changes nothing.       *)
(***************************************************************************)
EXTENDS Integers, Sequences

CONSTANTS Decks, Tracks, NoTrack

ASSUME TrackNames == NoTrack \notin Tracks

Loaded == {"ready", "playing", "paused"}
Settings == {0, 1}

NewDeck == [status |-> "empty", track |-> NoTrack, load |-> 0, marks |-> FALSE, setting |-> 0]

(* An engine numbers its sessions, loads, revisions and events from one;   *)
(* `epoch` stands for engine_id, `last` for last_command_id.               *)
NewEngine(epoch) ==
    [epoch |-> epoch, session |-> 0, last |-> 0, rev |-> 0, seq |-> 0,
     decks |-> [d \in Decks |-> NewDeck], mixer |-> 0, meters |-> FALSE, loads |-> {},
     nextLoad |-> 0]

Snapshot(e) ==
    [epoch |-> e.epoch, session |-> e.session, rev |-> e.rev, seq |-> e.seq,
     decks |-> e.decks, mixer |-> e.mixer]

(* make_event: the next sequence number, the revision as it is.            *)
Event(e, kind, deck, data) ==
    [epoch |-> e.epoch, kind |-> kind, deck |-> deck, seq |-> e.seq + 1, rev |-> e.rev,
     data |-> data]
Emitting(e, kind, deck, data) ==
    [e |-> [e EXCEPT !.seq = @ + 1], ok |-> TRUE,
     events |-> <<Event(e, kind, deck, data)>>]

Unchanged(e) == [e |-> e, ok |-> TRUE, events |-> <<>>]
Refused(e) == [e |-> e, ok |-> FALSE, events |-> <<>>]

(* Every change of a deck is one revision and one deck.state event.        *)
ChangeDeck(e, d, deck) ==
    Emitting([e EXCEPT !.rev = @ + 1, !.decks[d] = deck], "deck", d, deck)

-----------------------------------------------------------------------------
(* The operations                                                          *)

DeckLoad(e, d, t) ==
    LET id == e.nextLoad + 1
    IN ChangeDeck([e EXCEPT !.nextLoad = id,
                            !.loads = @ \cup {[deck |-> d, load |-> id, track |-> t]}],
                  d, [e.decks[d] EXCEPT !.status = "loading", !.track = NoTrack,
                                        !.load = id, !.marks = FALSE])

DeckUnload(e, d) ==
    ChangeDeck([e EXCEPT !.loads = {l \in @ : l.deck # d}], d, NewDeck)

(* play and pause                                                          *)
DeckTransport(e, d, status) ==
    IF e.decks[d].status \in Loaded
    THEN ChangeDeck(e, d, [e.decks[d] EXCEPT !.status = status])
    ELSE Refused(e)

(* A hot cue or a loop is set on a loaded track only, a hot cue is cleared *)
(* on any deck, and a loop must be there to be enabled or disabled.        *)
DeckMark(e, d) ==
    IF e.decks[d].status \in Loaded
    THEN ChangeDeck(e, d, [e.decks[d] EXCEPT !.marks = TRUE])
    ELSE Refused(e)
DeckClear(e, d) == ChangeDeck(e, d, [e.decks[d] EXCEPT !.marks = FALSE])
LoopEnable(e, d) == IF e.decks[d].marks THEN ChangeDeck(e, d, e.decks[d]) ELSE Refused(e)

(* A seek, and a jump to a hot cue, moves the position only.               *)
DeckSeek(e, d) ==
    IF e.decks[d].status \in Loaded THEN ChangeDeck(e, d, e.decks[d]) ELSE Refused(e)

(* Tempo and keylock are set on any deck, sync on a loaded one.             *)
DeckAdjust(e, d) == ChangeDeck(e, d, [e.decks[d] EXCEPT !.setting = 1 - @])
DeckSync(e, d) ==
    IF e.decks[d].status \in Loaded THEN DeckAdjust(e, d) ELSE Refused(e)

(* Gains, EQ, PFL, crossfader, audio configuration                         *)
MixerSet(e) ==
    LET f == [e EXCEPT !.rev = @ + 1, !.mixer = 1 - @]
    IN Emitting(f, "mixer", NoTrack, f.mixer)

(* The meters are switched on or off: a revision without an event.         *)
MetersSubscribe(e) == Unchanged([e EXCEPT !.rev = @ + 1, !.meters = ~@])

(* Engine::handle                                                          *)
Handle(e, op) ==
    CASE op.name = "load"     -> DeckLoad(e, op.deck, op.track)
      [] op.name = "unload"   -> DeckUnload(e, op.deck)
      [] op.name = "play"     -> DeckTransport(e, op.deck, "playing")
      [] op.name = "pause"    -> DeckTransport(e, op.deck, "paused")
      [] op.name = "mark"     -> DeckMark(e, op.deck)
      [] op.name = "clear"    -> DeckClear(e, op.deck)
      [] op.name = "enable"   -> LoopEnable(e, op.deck)
      [] op.name = "seek"     -> DeckSeek(e, op.deck)
      [] op.name = "adjust"   -> DeckAdjust(e, op.deck)
      [] op.name = "sync"     -> DeckSync(e, op.deck)
      [] op.name = "mixer"    -> MixerSet(e)
      [] op.name = "meters"   -> MetersSubscribe(e)
      [] op.name = "snapshot" -> Unchanged(e)
      [] op.name = "junction" -> Refused(e)  \* the simulator's unknown_op

-----------------------------------------------------------------------------
(* Time: a tick resolves a due load, stops a deck at the end of its track, *)
(* repeats the positions or reports the meters.  Loads take as long as     *)
(* they like, so any one may be the next to be due; two due in one tick    *)
(* are two steps here.  The deck.loaded and deck.load_failed events only   *)
(* announce the deck.state event that follows them, and are left out.      *)

AnyLoad(e, l) == l \in e.loads
Awaited(e, l) == e.decks[l.deck].load = l.load

ResolveLoad(e, l, status) ==
    LET f == [e EXCEPT !.loads = @ \ {l}]
        resolved == [e.decks[l.deck] EXCEPT !.status = status, !.load = 0,
                         !.track = IF status = "ready" THEN l.track ELSE NoTrack]
    IN IF Awaited(e, l) THEN ChangeDeck(f, l.deck, resolved) ELSE Unchanged(f)

Playing(e) == {d \in Decks : e.decks[d].status = "playing"}
ReachEnd(e, d) == ChangeDeck(e, d, [e.decks[d] EXCEPT !.status = "paused"])
Positions(e) ==
    Emitting(e, "position", NoTrack, [d \in Decks |-> e.decks[d].status])

Meters(e) == Emitting(e, "meters", NoTrack, NoTrack)

Ticks(e) ==
    {ResolveLoad(e, l, status) : l \in e.loads, status \in {"ready", "error"}}
    \cup {ReachEnd(e, d) : d \in Playing(e)}
    \cup (IF Playing(e) = {} THEN {} ELSE {Positions(e)})
    \cup (IF e.meters THEN {Meters(e)} ELSE {})

-----------------------------------------------------------------------------
(* Sessions and commands: Engine::begin_session and authorize, and         *)
(* Runtime::process.                                                       *)

(* Decks survive a new session; the one before it is announced invalid.    *)
BeginSession(e, cmd) ==
    LET f == [e EXCEPT !.session = @ + 1, !.last = cmd.id]
    IN IF e.session = 0 THEN Unchanged(f)
       ELSE Emitting(f, "invalidated", NoTrack, e.session)

AuthorizedInAnySession(e, cmd) == e.session # 0 /\ cmd.epoch = e.epoch /\ cmd.id > e.last
Authorized(e, cmd) ==
    /\ e.session # 0
    /\ cmd.epoch = e.epoch
    /\ cmd.session = e.session
    /\ cmd.id > e.last

(* The answer to a command and the engine and events that come with it.    *)
Process(e, cmd) ==
    IF cmd.op.name = "hello" THEN BeginSession(e, cmd)
    ELSE IF ~Authorized(e, cmd) THEN Refused(e)
    ELSE Handle([e EXCEPT !.last = cmd.id], cmd.op)

=============================================================================
