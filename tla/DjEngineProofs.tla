----------------------------- MODULE DjEngineProofs -----------------------------
(***************************************************************************)
(* What DjEngine promises of its engines, callers and answers, for any     *)
(* users, commands, decks, tracks, processes, calls, events and faults.    *)
(*                                                                         *)
(* IInv is inductive.  Order says who may act: the holder of the lifecycle *)
(* lock is the only caller that starts or ends an engine or waits for a    *)
(* handshake, so while it does `running` is what it made of it, and every  *)
(* process but the one in `state` has ended or is the one it is ending.    *)
(* Mail says what is on its way: numbers never exceed nextId, each waiter  *)
(* in a pending map still waits there and alone under its number, and each *)
(* command and each line that carries a waiter's number is its own;        *)
(* sessions in answers and in the client never exceed the engine's.  A     *)
(* step that makes waiters leave keeps all of Mail if it only drops lines, *)
(* or adds lines that fit (MailKept); the steps differ in Order.           *)
(*                                                                         *)
(* That the webview notices what it has missed needs the past: what the    *)
(* engine showed when it had sent so many events.  A witness of it goes    *)
(* on with every event (PastGoesOn), what is on its way is true of it, and *)
(* so the view is, or says that it is not (Truth).                         *)
(***************************************************************************)
EXTENDS DjEngine, FiniteSetTheorems, SequenceTheorems, WellFoundedInduction, TLAPS

(* Types                                                                   *)
Statuses == {"empty", "loading", "error"} \cup Loaded
Deck == [status : Statuses, track : Tracks \cup {NoTrack}, load : Nat, marks : BOOLEAN,
         setting : Settings]
Load == [deck : Decks, load : Nat, track : Tracks]
Engine ==
    [epoch : Nat, session : Nat, last : Nat, rev : Nat, seq : Nat, decks : [Decks -> Deck],
     mixer : Settings, meters : BOOLEAN, loads : SUBSET Load, nextLoad : Nat]
EventOf(kind, deck, data) ==
    [epoch : Nat, kind : {kind}, deck : deck, seq : Nat, rev : Nat, data : data]
EventRec ==
    EventOf("deck", Decks, Deck) \cup EventOf("mixer", {NoTrack}, Settings)
    \cup EventOf("position", {NoTrack}, [Decks -> Statuses])
    \cup EventOf("meters", {NoTrack}, {NoTrack}) \cup EventOf("invalidated", {NoTrack}, Nat)
Snapshots ==
    [epoch : Nat, session : Nat, rev : Nat, seq : Nat, decks : [Decks -> Deck], mixer : Settings]
    \cup {NoView}
Session == [epoch : 0 .. MaxProcs, n : Nat]
Requests == Commands \cup {Hello}
Cmd == [id : Nat, op : Requests, epoch : Procs, session : Nat]
ReplyRec == [kind : {"hello", "result", "error", "mismatch"}, epoch : Nat, id : Nat,
             session : Nat, snapshot : Snapshots]
Line == ReplyRec \cup EventRec
Waiter == [id : Nat, caller : Callers]
ProcRec ==
    [life : {"none", "up", "hung", "exited"}, alive : BOOLEAN, stdin : {"open", "closed"},
     taken : BOOLEAN, inbox : Seq(Cmd), out : Seq(Line), eof : BOOLEAN,
     pending : SUBSET Waiter, nextId : Nat, session : Nat, engine : Engine,
     mail : Seq(EventRec), broken : BOOLEAN]
CallPoints == {"idle", "lock", "spawn", "dispatch", "insert", "wait", "reap", "check",
               "connected", "stopped", "refused"}
CallRec ==
    [pc : CallPoints, op : {"none", "start", "stop", "abort", "connect", "resolve", "send",
                            "refresh"},
     req : Requests, session : Session, proc : 0 .. MaxProcs, id : Nat,
     answer : [kind : {"none", "failed", "mismatch", "drained"}] \cup ReplyRec,
     snapshot : Snapshots]
ClientRec(x) ==
    /\ x = [session |-> x.session, view |-> x.view, buffering |-> x.buffering,
            buffer |-> x.buffer]
    /\ x.session \in Session

TypeInv ==
    /\ running \in 0 .. MaxProcs
    /\ lifecycle \in Callers \cup {Nobody}
    /\ proc \in [Procs -> ProcRec]
    /\ call \in [Callers -> CallRec]
    /\ ClientRec(client)

(* The load that a deck waits for is the last one asked for it.            *)
LoadsInOrder(e) ==
    /\ \A l \in e.loads : l.load \in 1 .. e.nextLoad
    /\ \A d \in Decks :
         IF e.decks[d].status = "loading"
         THEN e.decks[d].load \in 1 .. e.nextLoad /\ \A l \in Loads(e, d) : l.load <= e.decks[d].load
         ELSE e.decks[d].load = 0
Engines == \A p \in Procs : proc[p].engine.epoch = p /\ LoadsInOrder(proc[p].engine)

(* Who holds the lifecycle lock, and what it may rely on.                  *)
Locked == {"start", "stop", "connect"}
Replied == {"hello", "result", "error"}
Engaged(c) == call[c].pc = "insert" \/ Waiting(c) \/ Has(c, Replied)
CallerFits(c) ==
    /\ call[c].pc \in {"spawn", "reap"} => lifecycle = c /\ running = 0
    /\ call[c].pc = "reap" => call[c].proc # 0 /\ proc[call[c].proc].life # "none"
    /\ call[c].pc \in {"dispatch", "insert", "wait"} /\ call[c].op \in Locked =>
         lifecycle = c /\ running # 0
    /\ call[c].pc = "check" => call[c].op \notin Locked
    /\ Engaged(c) => call[c].proc # 0 /\ proc[call[c].proc].life # "none"
    /\ Engaged(c) /\ call[c].op \in Locked => call[c].proc = running
    /\ call[c].pc \notin {"wait", "refused"} => call[c].answer.kind = "none"
Locks == \A c \in Callers : CallerFits(c)

(* Processes are started one after the other.                              *)
Unstarted == \A p \in Procs : proc[p].life = "none" => proc[p] = NotStarted(p)
InOrder == \E n \in 0 .. MaxProcs : Started = 1 .. n
Known == running # 0 => proc[running].life # "none"

(* Callers and pending maps agree; what carries a waiter's number is for   *)
(* it.                                                                     *)
Waits == \A c \in Callers : Waiting(c) => [id |-> call[c].id, caller |-> c] \in proc[call[c].proc].pending
Pending == \A p \in Procs : \A w \in proc[p].pending :
    /\ Waiting(w.caller) /\ call[w.caller].proc = p /\ call[w.caller].id = w.id
    /\ w.id <= proc[p].nextId
    /\ \A v \in proc[p].pending : v.id = w.id => v = w
CmdFits(p, cmd) ==
    /\ cmd.id <= proc[p].nextId
    /\ \A w \in proc[p].pending : w.id = cmd.id => call[w.caller].req = cmd.op
Written == \A p \in Procs : \A k \in 1 .. Len(proc[p].inbox) : CmdFits(p, proc[p].inbox[k])
LineFits(p, line) == line.kind \in Replies =>
    /\ line.epoch = p /\ line.id <= proc[p].nextId
    /\ proc[p].life = "up" => line.session <= proc[p].engine.session
    /\ \A w \in proc[p].pending : w.id = line.id =>
         (line.kind = "hello" <=> call[w.caller].req = Hello)
Read == \A p \in Procs : \A k \in 1 .. Len(proc[p].out) : LineFits(p, proc[p].out[k])
OwnFits(c) == Has(c, Replied) =>
    /\ call[c].answer.epoch = call[c].proc /\ call[c].answer.id = call[c].id
    /\ call[c].answer.kind = "hello" <=> call[c].req = Hello
    /\ proc[call[c].proc].life = "up" => call[c].answer.session <= proc[call[c].proc].engine.session
Own == \A c \in Callers : OwnFits(c)

(* No session is ahead of its engine.                                      *)
FitsIn(procs, s) ==
    s.epoch # 0 => /\ procs[s.epoch].life # "none"
                   /\ procs[s.epoch].life = "up" => s.n <= procs[s.epoch].engine.session
SessionFits(c) == call[c].op \in {"connect", "resolve"} => FitsIn(proc, call[c].session)
Sessions ==
    /\ FitsIn(proc, client.session)
    /\ \A c \in Callers : SessionFits(c)

Mail == Waits /\ Pending /\ Written /\ Read /\ Own /\ Sessions
Order == Engines /\ Locks /\ Unstarted /\ InOrder /\ Known /\ OneEngine
IInv == TypeInv /\ Order /\ Mail

-----------------------------------------------------------------------------
(* The engine                                                              *)

EngineOK(e) == e \in Engine /\ LoadsInOrder(e)
NothingReady(e, f) ==
    \A d \in Decks : f.decks[d].status = "ready" =>
        e.decks[d].status = "ready" /\ e.decks[d].track = f.decks[d].track

LEMMA EmittingIs ==
    ASSUME NEW e \in Engine, NEW kind, NEW deck, NEW data,
           \A n, m \in Nat, k \in Nat :
              [epoch |-> k, kind |-> kind, deck |-> deck, seq |-> n, rev |-> m, data |-> data] \in EventRec
    PROVE  /\ Emitting(e, kind, deck, data).e = [e EXCEPT !.seq = @ + 1]
           /\ Emitting(e, kind, deck, data).e \in Engine
           /\ Emitting(e, kind, deck, data).ok
           /\ Emitting(e, kind, deck, data).events \in Seq(EventRec)
<1>1. [e EXCEPT !.seq = @ + 1] \in Engine
  BY DEF Engine
<1>2. Event(e, kind, deck, data) \in EventRec
  BY DEF Engine, Event
<1> QED BY <1>1, <1>2 DEF Emitting

(* A change of one deck, of an engine whose loads may just have changed.   *)
ChangedDeck(e, d, deck, f) ==
    /\ f \in Engine
    /\ f.epoch = e.epoch /\ f.session = e.session /\ f.last = e.last
    /\ f.loads = e.loads /\ f.nextLoad = e.nextLoad /\ f.mixer = e.mixer
    /\ \A c \in Decks : f.decks[c] = IF c = d THEN deck ELSE e.decks[c]

LEMMA ChangeDeckIs ==
    ASSUME NEW e \in Engine, NEW d \in Decks, NEW deck \in Deck
    PROVE  /\ ChangedDeck(e, d, deck, ChangeDeck(e, d, deck).e)
           /\ ChangeDeck(e, d, deck).ok /\ ChangeDeck(e, d, deck).events \in Seq(EventRec)
<1> DEFINE ds == [e.decks EXCEPT ![d] = deck]
           f == [e EXCEPT !.rev = @ + 1, !.decks[d] = deck]
           g == [f EXCEPT !.seq = @ + 1]
<1>1. e.decks \in [Decks -> Deck] /\ e.rev \in Nat
  BY DEF Engine
<1>2. ds \in [Decks -> Deck] /\ \A c \in Decks : ds[c] = IF c = d THEN deck ELSE e.decks[c]
  BY <1>1
<1>3. f = [e EXCEPT !.rev = e.rev + 1, !.decks = ds]
  BY DEF Engine
<1> HIDE DEF ds, f
<1>4. f \in Engine
  <2> DEFINE h == [e EXCEPT !.decks = ds]
  <2>1. h \in Engine
    BY <1>2 DEF Engine
  <2>2. f = [h EXCEPT !.rev = e.rev + 1]
    BY <1>3 DEF Engine
  <2> HIDE DEF h
  <2> QED BY <1>1, <2>1, <2>2 DEF Engine
<1>5. /\ f.epoch = e.epoch /\ f.session = e.session /\ f.last = e.last
      /\ f.loads = e.loads /\ f.nextLoad = e.nextLoad /\ f.mixer = e.mixer /\ f.decks = ds
  BY <1>3 DEF Engine
<1>6. \A n, m \in Nat, k \in Nat :
        [epoch |-> k, kind |-> "deck", deck |-> d, seq |-> n, rev |-> m, data |-> deck] \in EventRec
  BY DEF EventRec, EventOf
<1>7. ChangeDeck(e, d, deck) = Emitting(f, "deck", d, deck)
  BY DEF ChangeDeck, f
<1>8. /\ Emitting(f, "deck", d, deck).e = g /\ g \in Engine
      /\ Emitting(f, "deck", d, deck).ok
      /\ Emitting(f, "deck", d, deck).events \in Seq(EventRec)
  BY <1>4, <1>6, EmittingIs
<1>9. /\ g.epoch = f.epoch /\ g.session = f.session /\ g.last = f.last
      /\ g.loads = f.loads /\ g.nextLoad = f.nextLoad /\ g.mixer = f.mixer /\ g.decks = f.decks
  BY <1>4 DEF Engine
<1> HIDE DEF g
<1> QED BY <1>2, <1>5, <1>7, <1>8, <1>9 DEF ChangedDeck

(* The answer of an operation: an engine, its events, and no deck that was *)
(* not ready before.                                                       *)
Answers(e, r) ==
    /\ EngineOK(r.e) /\ r.events \in Seq(EventRec) /\ r.ok \in BOOLEAN
    /\ r.e.epoch = e.epoch /\ r.e.session = e.session /\ r.e.last = e.last
    /\ NothingReady(e, r.e)

LEMMA NoAnswer ==
    ASSUME NEW e, EngineOK(e)
    PROVE  Answers(e, Unchanged(e)) /\ Answers(e, Refused(e))
BY DEF Answers, Unchanged, Refused, NothingReady

LEMMA DeckStep ==
    ASSUME NEW e, EngineOK(e), NEW d \in Decks, NEW deck \in Deck,
           deck.load = e.decks[d].load,
           deck.status = "loading" <=> e.decks[d].status = "loading",
           deck.status = "ready" => e.decks[d].status = "ready" /\ deck.track = e.decks[d].track
    PROVE  Answers(e, ChangeDeck(e, d, deck))
<1> DEFINE r == ChangeDeck(e, d, deck)
           f == r.e
<1>1. ChangedDeck(e, d, deck, f) /\ r.ok /\ r.events \in Seq(EventRec)
  BY ChangeDeckIs DEF EngineOK
<1> HIDE DEF r, f
<1>2. LoadsInOrder(f)
  BY <1>1 DEF ChangedDeck, LoadsInOrder, EngineOK, Loads
<1>3. NothingReady(e, f)
  BY <1>1 DEF ChangedDeck, NothingReady
<1>4. Answers(e, r)
  BY <1>1, <1>2, <1>3 DEF Answers, EngineOK, ChangedDeck, f
<1> QED BY <1>4 DEF r

LEMMA DeckTypes ==
    ASSUME NEW e, EngineOK(e), NEW d \in Decks
    PROVE  /\ e.decks[d] \in Deck
           /\ e.decks[d].status \in Statuses /\ e.decks[d].load \in Nat
           /\ e.decks[d].marks \in BOOLEAN /\ e.decks[d].setting \in Settings
           /\ e.decks[d].track \in Tracks \cup {NoTrack}
BY DEF EngineOK, Engine, Deck

LEMMA DeckOperations ==
    ASSUME NEW e, EngineOK(e), NEW d \in Decks
    PROVE  /\ \A status \in {"playing", "paused"} : Answers(e, DeckTransport(e, d, status))
           /\ Answers(e, DeckMark(e, d)) /\ Answers(e, DeckClear(e, d))
           /\ Answers(e, LoopEnable(e, d)) /\ Answers(e, DeckSeek(e, d))
           /\ Answers(e, DeckAdjust(e, d)) /\ Answers(e, DeckSync(e, d))
<1> DEFINE deck == e.decks[d]
<1>1. /\ deck \in Deck /\ deck.status \in Statuses /\ deck.load \in Nat
      /\ deck.marks \in BOOLEAN /\ deck.setting \in Settings
  BY DeckTypes
<1>2. Answers(e, Refused(e))
  BY NoAnswer
<1>3. ASSUME NEW status \in {"playing", "paused"} PROVE Answers(e, DeckTransport(e, d, status))
  <2> DEFINE new == [deck EXCEPT !.status = status]
  <2>1. deck.status \in Loaded =>
          /\ new \in Deck /\ new.load = deck.load /\ new.status = status
    BY <1>1 DEF Deck, Statuses, Loaded
  <2>2. deck.status \in Loaded => Answers(e, ChangeDeck(e, d, new))
    BY <2>1, DeckStep DEF Loaded
  <2> QED BY <1>2, <2>2 DEF DeckTransport
<1>4. \A b \in BOOLEAN : Answers(e, ChangeDeck(e, d, [deck EXCEPT !.marks = b]))
  <2> TAKE b \in BOOLEAN
  <2> DEFINE new == [deck EXCEPT !.marks = b]
  <2>1. new \in Deck /\ new.load = deck.load /\ new.status = deck.status /\ new.track = deck.track
    BY <1>1 DEF Deck
  <2> QED BY <2>1, DeckStep
<1>5. Answers(e, ChangeDeck(e, d, deck))
  BY <1>1, DeckStep
<1>6. Answers(e, DeckAdjust(e, d))
  <2> DEFINE new == [deck EXCEPT !.setting = 1 - @]
  <2>1. new \in Deck /\ new.load = deck.load /\ new.status = deck.status /\ new.track = deck.track
    BY <1>1 DEF Deck, Settings
  <2> QED BY <2>1, DeckStep DEF DeckAdjust
<1> QED BY <1>2, <1>3, <1>4, <1>5, <1>6 DEF DeckMark, DeckClear, LoopEnable, DeckSeek, DeckSync

LEMMA LoadAnswers ==
    ASSUME NEW e, EngineOK(e), NEW d \in Decks, NEW t \in Tracks
    PROVE  Answers(e, DeckLoad(e, d, t))
<1> DEFINE id == e.nextLoad + 1
           load == [deck |-> d, load |-> id, track |-> t]
           e1 == [e EXCEPT !.nextLoad = id, !.loads = @ \cup {load}]
           deck == [e.decks[d] EXCEPT !.status = "loading", !.track = NoTrack,
                                      !.load = id, !.marks = FALSE]
           r == ChangeDeck(e1, d, deck)
           f == r.e
<1>1. e \in Engine /\ LoadsInOrder(e) /\ e.nextLoad \in Nat /\ e.loads \in SUBSET Load
  BY DEF EngineOK, Engine
<1>2. load \in Load /\ id \in Nat
  BY <1>1 DEF Load
<1>3. deck \in Deck /\ deck.status = "loading" /\ deck.load = id
  BY <1>2, DeckTypes DEF Deck, Statuses
<1>4. e1 \in Engine
  BY <1>1, <1>2 DEF Engine
<1>5. /\ e1.nextLoad = id /\ e1.loads = e.loads \cup {load} /\ e1.decks = e.decks
      /\ e1.epoch = e.epoch /\ e1.session = e.session /\ e1.last = e.last
  BY <1>1 DEF Engine
<1>6. DeckLoad(e, d, t) = r
  BY DEF DeckLoad
<1>7. load.deck = d /\ load.load = id
  OBVIOUS
<1> HIDE DEF e1, deck, load, r, f
<1>8. ChangedDeck(e1, d, deck, f) /\ r.ok /\ r.events \in Seq(EventRec)
  BY <1>3, <1>4, ChangeDeckIs DEF r, f
<1>9. /\ f.nextLoad = id /\ f.loads = e.loads \cup {load}
      /\ \A c \in Decks : f.decks[c] = IF c = d THEN deck ELSE e.decks[c]
  BY <1>5, <1>8 DEF ChangedDeck
<1>10. LoadsInOrder(f)
  <2>1. \A l \in f.loads : l.load \in 1 .. f.nextLoad
    BY <1>1, <1>7, <1>9 DEF LoadsInOrder
  <2>2. ASSUME NEW c \in Decks
        PROVE  IF f.decks[c].status = "loading"
               THEN f.decks[c].load \in 1 .. f.nextLoad /\ \A l \in Loads(f, c) : l.load <= f.decks[c].load
               ELSE f.decks[c].load = 0
    <3>1. CASE c = d
      BY <2>1, <3>1, <1>1, <1>3, <1>9 DEF Loads
    <3>2. CASE c # d
      <4>1. f.decks[c] = e.decks[c] /\ Loads(f, c) = Loads(e, c)
        BY <3>2, <1>7, <1>9 DEF Loads
      <4> QED BY <4>1, <1>1, <1>9 DEF LoadsInOrder
    <3> QED BY <3>1, <3>2
  <2> QED BY <2>1, <2>2 DEF LoadsInOrder
<1>11. NothingReady(e, f)
  BY <1>3, <1>9 DEF NothingReady
<1>12. Answers(e, r)
  BY <1>5, <1>8, <1>10, <1>11 DEF Answers, EngineOK, ChangedDeck, f
<1> QED BY <1>6, <1>12

LEMMA FewerLoads ==
    ASSUME NEW e, EngineOK(e), NEW loads \in SUBSET e.loads
    PROVE  LET f == [e EXCEPT !.loads = loads]
           IN /\ EngineOK(f) /\ f.decks = e.decks /\ f.loads = loads /\ f.nextLoad = e.nextLoad
              /\ f.epoch = e.epoch /\ f.session = e.session /\ f.last = e.last
              /\ f.mixer = e.mixer
<1> DEFINE f == [e EXCEPT !.loads = loads]
<1>1. /\ f \in Engine /\ f.decks = e.decks /\ f.loads = loads /\ f.nextLoad = e.nextLoad
      /\ f.epoch = e.epoch /\ f.session = e.session /\ f.last = e.last /\ f.mixer = e.mixer
  BY DEF EngineOK, Engine
<1> HIDE DEF f
<1>2. LoadsInOrder(f)
  BY <1>1 DEF EngineOK, LoadsInOrder, Loads
<1>3. EngineOK(f)
  BY <1>1, <1>2 DEF EngineOK
<1> QED BY <1>1, <1>3 DEF f

LEMMA UnloadAnswers ==
    ASSUME NEW e, EngineOK(e), NEW d \in Decks
    PROVE  Answers(e, DeckUnload(e, d))
<1> DEFINE e1 == [e EXCEPT !.loads = {l \in @ : l.deck # d}]
           rest == {l \in e.loads : l.deck # d}
           r == ChangeDeck(e1, d, NewDeck)
           f == r.e
<1>1. e1 = [e EXCEPT !.loads = rest]
  BY DEF EngineOK, Engine
<1>2. DeckUnload(e, d) = r
  BY DEF DeckUnload
<1>3. NewDeck \in Deck /\ NewDeck.status = "empty" /\ NewDeck.load = 0
  BY DEF NewDeck, Deck, Statuses, Settings
<1>4. rest \in SUBSET e.loads
  OBVIOUS
<1> HIDE DEF e1, r, f, rest
<1>5. /\ EngineOK(e1) /\ e1.decks = e.decks /\ e1.loads = rest /\ e1.nextLoad = e.nextLoad
      /\ e1.epoch = e.epoch /\ e1.session = e.session /\ e1.last = e.last
  BY <1>1, <1>4, FewerLoads
<1>6. ChangedDeck(e1, d, NewDeck, f) /\ r.ok /\ r.events \in Seq(EventRec)
  BY <1>3, <1>5, ChangeDeckIs DEF EngineOK, r, f
<1>7. LoadsInOrder(f)
  BY <1>3, <1>5, <1>6 DEF ChangedDeck, LoadsInOrder, EngineOK, Loads
<1>8. NothingReady(e, f)
  BY <1>3, <1>5, <1>6 DEF NothingReady, ChangedDeck
<1>9. Answers(e, r)
  BY <1>5, <1>6, <1>7, <1>8 DEF Answers, EngineOK, ChangedDeck, f
<1> QED BY <1>2, <1>9

SameDecks(e, f) ==
    /\ f \in Engine
    /\ f.epoch = e.epoch /\ f.session = e.session /\ f.last = e.last
    /\ f.decks = e.decks /\ f.loads = e.loads /\ f.nextLoad = e.nextLoad

LEMMA SameDecksOK ==
    ASSUME NEW e, EngineOK(e), NEW f, SameDecks(e, f)
    PROVE  EngineOK(f) /\ NothingReady(e, f)
BY DEF EngineOK, SameDecks, LoadsInOrder, Loads, NothingReady

LEMMA MixerAnswers ==
    ASSUME NEW e, EngineOK(e)
    PROVE  Answers(e, MixerSet(e)) /\ Answers(e, MetersSubscribe(e))
<1> DEFINE f == [e EXCEPT !.rev = @ + 1, !.mixer = 1 - @]
           g == [f EXCEPT !.seq = @ + 1]
           h == [e EXCEPT !.rev = @ + 1, !.meters = ~@]
<1>0. e \in Engine /\ e.rev \in Nat /\ e.rev + 1 \in Nat /\ e.mixer \in Settings
      /\ 1 - e.mixer \in Settings /\ e.meters \in BOOLEAN
  <2>1. e \in Engine /\ e.rev \in Nat /\ e.mixer \in Settings /\ e.meters \in BOOLEAN
    BY DEF EngineOK, Engine
  <2> QED BY <2>1 DEF Settings
<1>1. f \in Engine /\ f.mixer \in Settings
  <2> DEFINE k == [e EXCEPT !.rev = e.rev + 1]
  <2>1. k \in Engine /\ k.mixer = e.mixer
    BY <1>0 DEF Engine
  <2>2. f = [k EXCEPT !.mixer = 1 - e.mixer]
    BY <1>0 DEF Engine
  <2> HIDE DEF k, f
  <2> QED BY <1>0, <2>1, <2>2 DEF Engine
<1>2. MixerSet(e) = Emitting(f, "mixer", NoTrack, f.mixer)
  BY DEF MixerSet
<1>3. SameDecks(e, f)
  BY <1>1 DEF EngineOK, Engine, SameDecks
<1> HIDE DEF f
<1>4. \A n, m \in Nat, k \in Nat :
        [epoch |-> k, kind |-> "mixer", deck |-> NoTrack, seq |-> n, rev |-> m,
         data |-> f.mixer] \in EventRec
  BY <1>1 DEF EventRec, EventOf
<1>5. LET r == Emitting(f, "mixer", NoTrack, f.mixer)
      IN r.e = g /\ g \in Engine /\ r.ok /\ r.events \in Seq(EventRec)
  BY <1>1, <1>4, EmittingIs
<1>6. SameDecks(e, g)
  BY <1>1, <1>3, <1>5 DEF Engine, SameDecks
<1>7. Answers(e, MixerSet(e))
  BY <1>2, <1>5, <1>6, SameDecksOK DEF Answers, SameDecks
<1>8. h \in Engine
  <2> DEFINE k == [e EXCEPT !.rev = e.rev + 1]
  <2>1. k \in Engine /\ k.meters = e.meters
    BY <1>0 DEF Engine
  <2>2. h = [k EXCEPT !.meters = ~e.meters]
    BY <1>0 DEF Engine
  <2> HIDE DEF k, h
  <2> QED BY <1>0, <2>1, <2>2 DEF Engine
<1>9. SameDecks(e, h)
  BY <1>8 DEF EngineOK, Engine, SameDecks
<1>10. Answers(e, MetersSubscribe(e))
  <2> HIDE DEF h
  <2>1. MetersSubscribe(e) = Unchanged(h)
    BY DEF MetersSubscribe, h
  <2> QED BY <2>1, <1>9, SameDecksOK DEF Answers, SameDecks, Unchanged
<1> QED BY <1>7, <1>10

LEMMA HandleAnswers ==
    ASSUME NEW e, EngineOK(e), NEW op \in Commands
    PROVE  Answers(e, Handle(e, op))
<1>1. CASE op.name = "load"
  <2>1. op.deck \in Decks /\ op.track \in Tracks
    BY <1>1 DEF Commands
  <2> QED BY <1>1, <2>1, LoadAnswers DEF Handle
<1>2. CASE op.name \in {"unload", "play", "pause", "mark", "clear", "enable", "seek", "adjust", "sync"}
  <2>1. op.deck \in Decks
    BY <1>2 DEF Commands
  <2> QED BY <1>2, <2>1, UnloadAnswers, DeckOperations DEF Handle
<1>3. CASE op.name \in {"mixer", "meters", "snapshot", "junction"}
  BY <1>3, MixerAnswers, NoAnswer DEF Handle
<1> QED BY <1>1, <1>2, <1>3 DEF Commands


(* hello                                                                   *)
LEMMA SessionBegins ==
    ASSUME NEW e, EngineOK(e), NEW cmd, cmd.id \in Nat
    PROVE  LET r == BeginSession(e, cmd)
           IN /\ EngineOK(r.e) /\ r.events \in Seq(EventRec) /\ r.ok
              /\ r.e.epoch = e.epoch /\ r.e.session = e.session + 1
              /\ NothingReady(e, r.e)
<1> DEFINE h == [e EXCEPT !.session = e.session + 1]
           f == [e EXCEPT !.session = @ + 1, !.last = cmd.id]
           g == [f EXCEPT !.seq = @ + 1]
<1>1. e \in Engine /\ e.session \in Nat /\ e.session + 1 \in Nat
  BY DEF EngineOK, Engine
<1>2. h \in Engine /\ h.session = e.session + 1 /\ h.epoch = e.epoch /\ h.decks = e.decks
      /\ h.loads = e.loads /\ h.nextLoad = e.nextLoad
  BY <1>1 DEF Engine
<1>3. f = [h EXCEPT !.last = cmd.id]
  BY <1>1 DEF Engine
<1> HIDE DEF h, f
<1>4. f \in Engine /\ f.session = e.session + 1 /\ f.epoch = e.epoch /\ f.decks = e.decks
      /\ f.loads = e.loads /\ f.nextLoad = e.nextLoad
  BY <1>2, <1>3 DEF Engine
<1>5. \A n, m \in Nat, k \in Nat :
        [epoch |-> k, kind |-> "invalidated", deck |-> NoTrack, seq |-> n, rev |-> m,
         data |-> e.session] \in EventRec
  BY <1>1 DEF EventRec, EventOf
<1>6. LET r == Emitting(f, "invalidated", NoTrack, e.session)
      IN r.e = g /\ g \in Engine /\ r.ok /\ r.events \in Seq(EventRec)
  <2> DEFINE data == e.session
  <2>1. \A n, m \in Nat, k \in Nat :
          [epoch |-> k, kind |-> "invalidated", deck |-> NoTrack, seq |-> n, rev |-> m,
           data |-> data] \in EventRec
    BY <1>5
  <2> HIDE DEF data
  <2>2. LET r == Emitting(f, "invalidated", NoTrack, data)
        IN r.e = g /\ g \in Engine /\ r.ok /\ r.events \in Seq(EventRec)
    BY <1>4, <2>1, EmittingIs
  <2> QED BY <2>2 DEF data
<1>7. g.session = f.session /\ g.epoch = f.epoch /\ g.decks = f.decks
      /\ g.loads = f.loads /\ g.nextLoad = f.nextLoad
  BY <1>4 DEF Engine
<1> HIDE DEF g
<1>8. \A k \in Engine : k.decks = e.decks /\ k.loads = e.loads /\ k.nextLoad = e.nextLoad =>
         EngineOK(k) /\ NothingReady(e, k)
  BY DEF EngineOK, LoadsInOrder, Loads, NothingReady
<1>9. EngineOK(f) /\ NothingReady(e, f) /\ EngineOK(g) /\ NothingReady(e, g)
  BY <1>4, <1>6, <1>7, <1>8
<1>10. BeginSession(e, cmd) = IF e.session = 0 THEN Unchanged(f)
                              ELSE Emitting(f, "invalidated", NoTrack, e.session)
  BY DEF BeginSession, f
<1> QED BY <1>4, <1>6, <1>7, <1>9, <1>10 DEF Unchanged

(* What a command can do to the engine: the session never goes back, no    *)
(* deck becomes ready, and a command of an old session does nothing.       *)
LEMMA ProcessIs ==
    ASSUME NEW e, EngineOK(e), NEW cmd \in Cmd
    PROVE  LET r == Process(e, cmd)
           IN /\ EngineOK(r.e) /\ r.events \in Seq(EventRec) /\ r.ok \in BOOLEAN
              /\ r.e.epoch = e.epoch /\ r.e.session >= e.session
              /\ NothingReady(e, r.e)
              /\ cmd.op # Hello /\ cmd.session < e.session => r.e = e
<1>1. cmd.id \in Nat /\ cmd.op \in Requests /\ cmd.session \in Nat
  BY DEF Cmd
<1>2. e \in Engine /\ e.session \in Nat
  BY DEF EngineOK, Engine
<1>3. CASE cmd.op = Hello
  <2>1. Process(e, cmd) = BeginSession(e, cmd)
    BY <1>3 DEF Process, Hello
  <2> DEFINE r == BeginSession(e, cmd)
  <2>2. /\ EngineOK(r.e) /\ r.events \in Seq(EventRec) /\ r.ok
        /\ r.e.epoch = e.epoch /\ r.e.session = e.session + 1
        /\ NothingReady(e, r.e)
    BY <1>1, SessionBegins
  <2> HIDE DEF r
  <2>3. r.e.session >= e.session /\ r.ok \in BOOLEAN
    BY <1>2, <2>2
  <2> QED BY <1>3, <2>1, <2>2, <2>3 DEF r
<1>4. CASE cmd.op # Hello
  <2>1. cmd.op \in Commands /\ cmd.op.name # "hello"
    BY <1>1, <1>4 DEF Requests, Commands
  <2>2. CASE ~Authorized(e, cmd)
    <3>1. Process(e, cmd) = Refused(e)
      BY <2>1, <2>2 DEF Process
    <3> QED BY <3>1, <1>2, NoAnswer DEF Answers, Refused
  <2>3. CASE Authorized(e, cmd)
    <3> DEFINE f == [e EXCEPT !.last = cmd.id]
    <3>1. Process(e, cmd) = Handle(f, cmd.op)
      BY <2>1, <2>3 DEF Process
    <3>2. f \in Engine /\ f.decks = e.decks /\ f.loads = e.loads /\ f.nextLoad = e.nextLoad
          /\ f.epoch = e.epoch /\ f.session = e.session
      BY <1>1, <1>2 DEF Engine
    <3> HIDE DEF f
    <3>3. EngineOK(f)
      BY <3>2 DEF EngineOK, LoadsInOrder, Loads
    <3>4. Answers(f, Handle(f, cmd.op))
      BY <2>1, <3>3, HandleAnswers
    <3>5. ~(cmd.session < e.session)
      BY <1>1, <1>2, <2>3 DEF Authorized
    <3> QED BY <1>2, <3>1, <3>2, <3>4, <3>5 DEF Answers, NothingReady
  <2> QED BY <2>2, <2>3
<1> QED BY <1>3, <1>4

(* What time can do to it.                                                 *)
Settles(e, f) ==
    \A d \in Decks : f.decks[d].status = "ready" =>
        \/ e.decks[d].status = "ready" /\ e.decks[d].track = f.decks[d].track
        \/ /\ e.decks[d].status = "loading"
           /\ \E l \in Loads(e, d) : l.load = e.decks[d].load /\ l.track = f.decks[d].track
Elapses(e, t) ==
    /\ EngineOK(t.e) /\ t.events \in Seq(EventRec)
    /\ t.e.epoch = e.epoch /\ t.e.session = e.session
    /\ t.e.nextLoad = e.nextLoad /\ t.e.mixer = e.mixer
    /\ Settles(e, t.e)

LEMMA LoadResolves ==
    ASSUME NEW e, EngineOK(e), NEW l \in e.loads, NEW status \in {"ready", "error"}
    PROVE  Elapses(e, ResolveLoad(e, l, status))
<1> DEFINE rest == e.loads \ {l}
           f == [e EXCEPT !.loads = @ \ {l}]
           d == l.deck
           track == IF status = "ready" THEN l.track ELSE NoTrack
           deck == [e.decks[d] EXCEPT !.status = status, !.load = 0, !.track = track]
           r == ChangeDeck(f, d, deck)
           g == r.e
<1>1. e \in Engine /\ e.loads \in SUBSET Load /\ LoadsInOrder(e) /\ e.nextLoad \in Nat
  BY DEF EngineOK, Engine
<1>2. d \in Decks /\ l.load \in 1 .. e.nextLoad /\ l.track \in Tracks
  BY <1>1 DEF Load, LoadsInOrder
<1>3. f = [e EXCEPT !.loads = rest] /\ rest \in SUBSET e.loads
  BY <1>1 DEF Engine
<1>4. ResolveLoad(e, l, status) = IF Awaited(e, l) THEN r ELSE Unchanged(f)
  BY DEF ResolveLoad
<1>5. deck \in Deck /\ deck.status = status /\ deck.load = 0 /\ deck.track = track
  <2>1. track \in Tracks \cup {NoTrack} /\ status \in Statuses
    BY <1>2 DEF Statuses, Loaded
  <2> HIDE DEF track
  <2> QED BY <1>2, <2>1, DeckTypes DEF Deck
<1> HIDE DEF f, deck, r, g
<1>6. /\ EngineOK(f) /\ f.decks = e.decks /\ f.loads = rest /\ f.nextLoad = e.nextLoad
      /\ f.epoch = e.epoch /\ f.session = e.session /\ f.mixer = e.mixer
  BY <1>3, FewerLoads
<1>7. CASE Awaited(e, l)
  <2>1. e.decks[d].load = l.load /\ e.decks[d].status = "loading"
    BY <1>1, <1>2, <1>7 DEF Awaited, LoadsInOrder
  <2>2. ChangedDeck(f, d, deck, g) /\ r.ok /\ r.events \in Seq(EventRec)
    BY <1>2, <1>5, <1>6, ChangeDeckIs DEF EngineOK, g, r
  <2>3. LoadsInOrder(g)
    BY <1>1, <1>5, <1>6, <2>2 DEF ChangedDeck, LoadsInOrder, Loads, EngineOK
  <2>4. Settles(e, g)
    BY <1>2, <1>5, <1>6, <2>1, <2>2 DEF Settles, ChangedDeck, Loads
  <2> QED BY <1>4, <1>6, <1>7, <2>2, <2>3, <2>4 DEF Elapses, ChangedDeck, EngineOK, g
<1>8. CASE ~Awaited(e, l)
  BY <1>4, <1>6, <1>8 DEF Elapses, Unchanged, Settles
<1> QED BY <1>7, <1>8

LEMMA TimeElapses ==
    ASSUME NEW e, EngineOK(e), NEW t \in {Unchanged(e)} \cup Ticks(e)
    PROVE  Elapses(e, t)
<1>0. e \in Engine /\ e.seq \in Nat
  BY DEF EngineOK, Engine
<1>1. CASE t = Unchanged(e)
  BY <1>1 DEF Elapses, Settles, Unchanged
<1>2. CASE \E l \in e.loads, status \in {"ready", "error"} : t = ResolveLoad(e, l, status)
  BY <1>2, LoadResolves
<1>3. CASE \E d \in Playing(e) : t = ReachEnd(e, d)
  <2>1. PICK d \in Decks : e.decks[d].status = "playing" /\ t = ReachEnd(e, d)
    BY <1>3 DEF Playing
  <2> DEFINE deck == [e.decks[d] EXCEPT !.status = "paused"]
             r == ChangeDeck(e, d, deck)
             f == r.e
  <2>2. deck \in Deck /\ deck.load = e.decks[d].load /\ deck.status = "paused"
    BY DeckTypes DEF Deck, Statuses, Loaded
  <2>3. t = r
    BY <2>1 DEF ReachEnd
  <2> HIDE DEF deck, r, f
  <2>4. ChangedDeck(e, d, deck, f) /\ r.events \in Seq(EventRec)
    BY <1>0, <2>2, ChangeDeckIs DEF r, f
  <2>5. LoadsInOrder(f)
    BY <2>1, <2>2, <2>4 DEF ChangedDeck, LoadsInOrder, EngineOK, Loads
  <2>6. Settles(e, f)
    BY <2>2, <2>4 DEF ChangedDeck, Settles
  <2> QED BY <2>3, <2>4, <2>5, <2>6 DEF Elapses, ChangedDeck, EngineOK, f
<1>4. ASSUME NEW kind, NEW data,
             \A n, m \in Nat, k \in Nat :
               [epoch |-> k, kind |-> kind, deck |-> NoTrack, seq |-> n, rev |-> m,
                data |-> data] \in EventRec
      PROVE  Elapses(e, Emitting(e, kind, NoTrack, data))
  <2> DEFINE r == Emitting(e, kind, NoTrack, data)
             f == [e EXCEPT !.seq = @ + 1]
  <2>1. r.e = f /\ f \in Engine /\ r.events \in Seq(EventRec)
    BY <1>0, <1>4, EmittingIs
  <2>2. /\ f.decks = e.decks /\ f.loads = e.loads /\ f.nextLoad = e.nextLoad
        /\ f.epoch = e.epoch /\ f.session = e.session /\ f.mixer = e.mixer
    BY <1>0 DEF Engine
  <2> HIDE DEF r, f
  <2>3. LoadsInOrder(f) /\ Settles(e, f)
    BY <2>2 DEF LoadsInOrder, EngineOK, Loads, Settles
  <2>4. Elapses(e, r)
    BY <2>1, <2>2, <2>3 DEF Elapses, EngineOK
  <2> QED BY <2>4 DEF r
<1>5. CASE t = Positions(e)
  <2>1. [d \in Decks |-> e.decks[d].status] \in [Decks -> Statuses]
    BY DeckTypes
  <2>2. \A n, m \in Nat, k \in Nat :
          [epoch |-> k, kind |-> "position", deck |-> NoTrack, seq |-> n, rev |-> m,
           data |-> [d \in Decks |-> e.decks[d].status]] \in EventRec
    BY <2>1 DEF EventRec, EventOf
  <2> QED BY <1>4, <1>5, <2>2 DEF Positions
<1>6. CASE t = Meters(e)
  <2>1. \A n, m \in Nat, k \in Nat :
          [epoch |-> k, kind |-> "meters", deck |-> NoTrack, seq |-> n, rev |-> m,
           data |-> NoTrack] \in EventRec
    BY DEF EventRec, EventOf
  <2> QED BY <1>4, <1>6, <2>1 DEF Meters
<1> QED BY <1>1, <1>2, <1>3, <1>5, <1>6 DEF Ticks

-----------------------------------------------------------------------------
(* What the steps share                                                    *)

(* What any step does to a process.                                        *)
Grows(p) ==
    /\ proc[p].life # "none" => proc'[p].life # "none"
    /\ proc'[p].life = "up" =>
         \/ proc[p].life = "none"
         \/ proc[p].life = "up" /\ proc[p].engine.session <= proc'[p].engine.session
    /\ proc[p].nextId <= proc'[p].nextId

(* Who stops waiting leaves the pending map, and nobody begins to wait.    *)
WaitersLeave ==
    /\ \A c \in Callers : Waiting(c)' => Waiting(c) /\ call'[c] = call[c]
    /\ \A p \in Procs : proc'[p].pending = {w \in proc[p].pending : Waiting(w.caller)'}

NewLineFits(p, line) == line.kind \in Replies =>
    /\ line.epoch = p /\ line.id <= proc[p].nextId
    /\ proc'[p].life = "up" => line.session <= proc'[p].engine.session
    /\ \A w \in proc[p].pending : w.id = line.id =>
         (line.kind = "hello" <=> call[w.caller].req = Hello)
LinesKept(p) ==
    /\ \A k \in 1 .. Len(proc'[p].inbox) :
         \E j \in 1 .. Len(proc[p].inbox) : proc'[p].inbox[k] = proc[p].inbox[j]
    /\ \A k \in 1 .. Len(proc'[p].out) :
         \/ \E j \in 1 .. Len(proc[p].out) : proc'[p].out[k] = proc[p].out[j]
         \/ NewLineFits(p, proc'[p].out[k])

AnswerKept(c) == Has(c, Replied)' => \/ Has(c, Replied) /\ call'[c] = call[c]
                                     \/ OwnFits(c)'
Connecting(c) == call[c].op \in {"connect", "resolve"}
SessionKept(c) == Connecting(c)' => \/ Connecting(c) /\ call'[c].session = call[c].session
                                    \/ FitsIn(proc', call'[c].session)
ClientKept == client'.session = client.session \/ FitsIn(proc', client'.session)

LEMMA CallTypes ==
    ASSUME TypeInv, NEW c \in Callers
    PROVE  /\ call[c] \in CallRec
           /\ call[c].pc \in CallPoints /\ call[c].req \in Requests /\ call[c].session \in Session
           /\ call[c].proc \in 0 .. MaxProcs /\ call[c].id \in Nat /\ call[c].snapshot \in Snapshots
           /\ call[c].answer \in [kind : {"none", "failed", "mismatch", "drained"}] \cup ReplyRec
BY DEF TypeInv, CallRec

LEMMA ProcTypes ==
    ASSUME TypeInv, NEW p \in Procs
    PROVE  /\ proc[p] \in ProcRec
           /\ proc[p].life \in {"none", "up", "hung", "exited"} /\ proc[p].alive \in BOOLEAN
           /\ proc[p].stdin \in {"open", "closed"} /\ proc[p].taken \in BOOLEAN
           /\ proc[p].inbox \in Seq(Cmd) /\ proc[p].out \in Seq(Line) /\ proc[p].eof \in BOOLEAN
           /\ proc[p].pending \in SUBSET Waiter /\ proc[p].nextId \in Nat
           /\ proc[p].session \in Nat /\ proc[p].engine \in Engine
           /\ proc[p].engine.session \in Nat
           /\ proc[p].mail \in Seq(EventRec) /\ proc[p].broken \in BOOLEAN
<1>1. proc[p] \in ProcRec
  BY DEF TypeInv
<1>2. \A k \in Engine : k.session \in Nat
  BY DEF Engine
<1> QED BY <1>1, <1>2 DEF ProcRec

LEMMA LineTypes ==
    ASSUME NEW line \in Line, line.kind \in Replies
    PROVE  /\ line \in ReplyRec /\ line.kind \in {"hello", "result", "error", "mismatch"}
           /\ line.epoch \in Nat /\ line.id \in Nat
           /\ line.session \in Nat /\ line.snapshot \in Snapshots
<1>1. line \in ReplyRec
  BY DEF Line, EventRec, EventOf, Replies
<1> QED BY <1>1 DEF ReplyRec

LEMMA NothingYet ==
    ASSUME NEW p
    PROVE  /\ NotStarted(p).life = "none" /\ NotStarted(p).inbox = <<>> /\ NotStarted(p).out = <<>>
           /\ NotStarted(p).pending = {} /\ NotStarted(p).mail = <<>>
           /\ NotStarted(p).stdin = "closed" /\ NotStarted(p).session = 0
           /\ NotStarted(p).nextId = 0 /\ NotStarted(p).engine = NewEngine(p)
BY DEF NotStarted

LEMMA FitsKept ==
    ASSUME TypeInv, TypeInv', NEW s \in Session, FitsIn(proc, s), \A p \in Procs : Grows(p)
    PROVE  FitsIn(proc', s)
<1>1. CASE s.epoch = 0
  BY <1>1 DEF FitsIn
<1>2. CASE s.epoch # 0
  <2> DEFINE p == s.epoch
  <2>1. p \in Procs /\ s.n \in Nat
    BY <1>2, ProcBound DEF Session, Procs
  <2>2. Grows(p)
    BY <2>1
  <2>3. proc[p].engine.session \in Nat /\ proc'[p].engine.session \in Nat
    <3>1. proc[p] \in ProcRec /\ proc'[p] \in ProcRec
      BY <2>1 DEF TypeInv
    <3>2. proc[p].engine \in Engine /\ proc'[p].engine \in Engine
      BY <3>1 DEF ProcRec
    <3> QED BY <3>2 DEF Engine
  <2> QED BY <1>2, <2>1, <2>2, <2>3 DEF FitsIn, Grows
<1> QED BY <1>1, <1>2

LEMMA MailKept ==
    ASSUME IInv, TypeInv',
           \A p \in Procs : Grows(p) /\ LinesKept(p), WaitersLeave,
           \A c \in Callers : AnswerKept(c) /\ SessionKept(c), ClientKept
    PROVE  Mail'
<1>0. /\ TypeInv /\ Locks /\ Unstarted
      /\ Waits /\ Pending /\ Written /\ Read /\ Own /\ Sessions
  BY DEF IInv, Order, Mail
<1> USE <1>0
<1>1. Waits'
  <2> SUFFICES ASSUME NEW c \in Callers, Waiting(c)'
               PROVE  ([id |-> call[c].id, caller |-> c] \in proc[call[c].proc].pending)'
    BY DEF Waits
  <2>1. Waiting(c) /\ call'[c] = call[c]
    BY DEF WaitersLeave
  <2>2. [id |-> call[c].id, caller |-> c] \in proc[call[c].proc].pending
    BY <2>1 DEF Waits
  <2>3. call[c].proc \in Procs
    BY <2>1, CallTypes, ProcBound DEF Locks, CallerFits, Engaged, Procs
  <2>4. [id |-> call[c].id, caller |-> c].caller = c
    OBVIOUS
  <2> QED BY <2>1, <2>2, <2>3, <2>4 DEF WaitersLeave
<1>2. Pending'
  <2> SUFFICES ASSUME NEW p \in Procs, NEW w \in proc'[p].pending
               PROVE  /\ Waiting(w.caller)' /\ call'[w.caller].proc = p /\ call'[w.caller].id = w.id
                      /\ w.id <= proc'[p].nextId
                      /\ \A v \in proc'[p].pending : v.id = w.id => v = w
    BY DEF Pending
  <2>1. proc'[p].pending \subseteq proc[p].pending /\ Waiting(w.caller)'
    BY DEF WaitersLeave
  <2>2. w \in proc[p].pending /\ w.id \in Nat /\ w.caller \in Callers
    BY <2>1, ProcTypes DEF Waiter
  <2>3. /\ Waiting(w.caller) /\ call[w.caller].proc = p /\ call[w.caller].id = w.id
        /\ w.id <= proc[p].nextId
        /\ \A v \in proc[p].pending : v.id = w.id => v = w
    BY <2>2 DEF Pending
  <2>4. call'[w.caller] = call[w.caller]
    BY <2>1, <2>2 DEF WaitersLeave
  <2>5. proc[p].nextId \in Nat /\ proc'[p].nextId \in Nat /\ proc[p].nextId <= proc'[p].nextId
    BY ProcTypes DEF TypeInv, ProcRec, Grows
  <2> QED BY <2>1, <2>2, <2>3, <2>4, <2>5
<1>3. ASSUME NEW p \in Procs, NEW w \in proc'[p].pending
      PROVE  w \in proc[p].pending /\ call'[w.caller] = call[w.caller]
  <2>1. w \in proc[p].pending /\ Waiting(w.caller)'
    BY <1>3 DEF WaitersLeave
  <2>2. w.caller \in Callers
    BY <1>3, <2>1, ProcTypes DEF Waiter
  <2> QED BY <2>1, <2>2 DEF WaitersLeave
<1>4. ASSUME NEW p \in Procs
      PROVE  /\ proc[p].nextId \in Nat /\ proc'[p].nextId \in Nat
             /\ proc[p].nextId <= proc'[p].nextId
             /\ proc[p].engine.session \in Nat /\ proc'[p].engine.session \in Nat
  <2>1. proc'[p] \in ProcRec
    BY <1>4 DEF TypeInv
  <2>2. proc'[p].engine \in Engine /\ proc'[p].nextId \in Nat
    BY <2>1 DEF ProcRec
  <2>3. proc'[p].engine.session \in Nat
    BY <2>2 DEF Engine
  <2> QED BY <1>4, <2>2, <2>3, ProcTypes DEF Grows
<1>5. Written'
  <2> SUFFICES ASSUME NEW p \in Procs, NEW k \in 1 .. Len(proc'[p].inbox)
               PROVE  CmdFits(p, proc[p].inbox[k])'
    BY DEF Written
  <2>1. PICK j \in 1 .. Len(proc[p].inbox) : proc'[p].inbox[k] = proc[p].inbox[j]
    BY DEF LinesKept
  <2>2. CmdFits(p, proc[p].inbox[j])
    BY DEF Written
  <2>3. proc[p].inbox[j].id \in Nat
    <3>1. proc[p].inbox[j] \in Cmd
      BY ProcTypes
    <3> QED BY <3>1 DEF Cmd
  <2> QED BY <1>3, <1>4, <2>1, <2>2, <2>3 DEF CmdFits
<1>6. Read'
  <2> SUFFICES ASSUME NEW p \in Procs, NEW k \in 1 .. Len(proc'[p].out)
               PROVE  LineFits(p, proc[p].out[k])'
    BY DEF Read
  <2>0. PICK line \in Line : proc'[p].out[k] = line
    <3>1. proc'[p] \in ProcRec
      BY DEF TypeInv
    <3>2. proc'[p].out \in Seq(Line)
      BY <3>1 DEF ProcRec
    <3> QED BY <3>2
  <2>1. ASSUME \E j \in 1 .. Len(proc[p].out) : proc'[p].out[k] = proc[p].out[j]
        PROVE  NewLineFits(p, line)
    <3>1. PICK j \in 1 .. Len(proc[p].out) : line = proc[p].out[j]
      BY <2>0, <2>1
    <3>2. LineFits(p, line)
      BY <3>1 DEF Read
    <3>3. proc[p].life # "none"
      <4>1. proc[p].life = "none" => proc[p].out = <<>>
        BY NothingYet DEF Unstarted
      <4>2. proc[p].out # <<>>
        BY <3>1
      <4> QED BY <4>1, <4>2
    <3>4. NewLineFits(p, line)
      <4> SUFFICES ASSUME line.kind \in Replies
                   PROVE  proc'[p].life = "up" => line.session <= proc'[p].engine.session
        BY <3>2 DEF NewLineFits, LineFits
      <4>1. line.session \in Nat
        BY <2>0, LineTypes
      <4>2. Grows(p)
        OBVIOUS
      <4> QED BY <1>4, <3>2, <3>3, <4>1, <4>2 DEF LineFits, Grows
    <3> QED BY <3>4
  <2>2. NewLineFits(p, line)
    BY <2>0, <2>1 DEF LinesKept
  <2>3. LineFits(p, line)'
    <3>1. line.kind \in Replies => line.id \in Nat
      BY <2>0, LineTypes
    <3> QED BY <1>3, <1>4, <2>2, <3>1 DEF NewLineFits, LineFits
  <2> QED BY <2>0, <2>3
<1>7. Own'
  <2> SUFFICES ASSUME NEW c \in Callers PROVE OwnFits(c)'
    BY DEF Own
  <2> SUFFICES ASSUME Has(c, Replied), Has(c, Replied)', call'[c] = call[c]
               PROVE  OwnFits(c)'
    BY DEF AnswerKept, OwnFits
  <2> DEFINE p == call[c].proc
  <2>1. p \in Procs /\ proc[p].life # "none"
    BY CallTypes, ProcBound DEF Locks, CallerFits, Engaged, Procs
  <2>2. OwnFits(c)
    BY DEF Own
  <2>3. call[c].answer.session \in Nat
    <3>1. call[c].answer \in ReplyRec
      BY CallTypes DEF Has, Replied
    <3> QED BY <3>1 DEF ReplyRec
  <2>4. Grows(p)
    BY <2>1
  <2> QED BY <1>4, <2>1, <2>2, <2>3, <2>4 DEF OwnFits, Grows
<1>8. Sessions'
  <2>1. FitsIn(proc', client'.session)
    <3>1. client.session \in Session
      BY DEF TypeInv, ClientRec
    <3> QED BY <3>1, FitsKept DEF ClientKept, Sessions
  <2>2. ASSUME NEW c \in Callers, Connecting(c)' PROVE FitsIn(proc', call'[c].session)
    <3>1. call[c].session \in Session
      BY CallTypes
    <3> QED BY <2>2, <3>1, FitsKept DEF SessionKept, Sessions, SessionFits, Connecting
  <2> QED BY <2>1, <2>2 DEF Sessions, SessionFits, Connecting
<1> QED BY <1>1, <1>2, <1>5, <1>6, <1>7, <1>8 DEF Mail

(* A step of one caller that neither waits before nor after it, which      *)
(* leaves the pipes and the pending maps alone.                            *)
OthersStay(c) == \A o \in Callers \ {c} : call'[o] = call[o]
QuietFor(c) == ~Waiting(c) /\ ~Waiting(c)' /\ ~Has(c, Replied)' /\ OthersStay(c)
Untouched(p) ==
    /\ proc'[p].pending = proc[p].pending /\ proc'[p].inbox = proc[p].inbox
    /\ proc'[p].out = proc[p].out

LEMMA QuietMail ==
    ASSUME IInv, TypeInv', NEW c \in Callers, QuietFor(c),
           \A p \in Procs : Grows(p) /\ Untouched(p), SessionKept(c), ClientKept
    PROVE  Mail'
<1>0. TypeInv /\ Pending
  BY DEF IInv, Mail
<1>1. \A p \in Procs : LinesKept(p)
  BY DEF LinesKept, Untouched
<1>2. WaitersLeave
  <2>1. \A o \in Callers : Waiting(o)' => Waiting(o) /\ call'[o] = call[o]
    BY DEF QuietFor, OthersStay, Waiting
  <2>2. ASSUME NEW p \in Procs, NEW w \in proc[p].pending PROVE Waiting(w.caller)'
    <3>1. w.caller \in Callers /\ Waiting(w.caller)
      BY <1>0, ProcTypes DEF Pending, Waiter
    <3> QED BY <3>1 DEF QuietFor, OthersStay, Waiting
  <2> QED BY <2>1, <2>2 DEF WaitersLeave, Untouched
<1>3. \A o \in Callers : AnswerKept(o) /\ SessionKept(o)
  BY DEF QuietFor, OthersStay, AnswerKept, SessionKept, Has, Connecting
<1> QED BY <1>1, <1>2, <1>3, MailKept

(* What the holder of the lifecycle lock, or who finds it free, may do.    *)
Entitled(c) == lifecycle \in {c, Nobody} \/ UNCHANGED <<running, lifecycle>>

LEMMA LocksKept ==
    ASSUME IInv, TypeInv', NEW c \in Callers, OthersStay(c), Entitled(c),
           \A p \in Procs : Grows(p), CallerFits(c)'
    PROVE  Locks'
<1>0. TypeInv /\ Locks
  BY DEF IInv, Order
<1>1. Nobody \notin Callers
  BY CallerNames DEF Callers
<1>2. ASSUME NEW o \in Callers, o # c PROVE CallerFits(o)'
  <2>1. CallerFits(o) /\ call'[o] = call[o]
    BY <1>0, <1>2 DEF Locks, OthersStay
  <2>2. Engaged(o)' <=> Engaged(o)
    BY <2>1 DEF Engaged, Waiting, Has
  <2>3. Engaged(o) \/ call[o].pc = "reap" => proc'[call[o].proc].life # "none"
    <3> SUFFICES ASSUME Engaged(o) \/ call[o].pc = "reap" PROVE proc'[call[o].proc].life # "none"
      OBVIOUS
    <3>1. call[o].proc \in Procs /\ proc[call[o].proc].life # "none"
      BY <1>0, <2>1, CallTypes, ProcBound DEF CallerFits, Procs
    <3> QED BY <3>1 DEF Grows
  <2>4. CASE UNCHANGED <<running, lifecycle>>
    BY <2>1, <2>2, <2>3, <2>4 DEF CallerFits
  <2>5. CASE lifecycle \in {c, Nobody}
    <3>1. lifecycle # o
      BY <1>1, <1>2, <2>5
    <3> QED BY <2>1, <2>2, <2>3, <3>1 DEF CallerFits, Engaged, Waiting, Has
  <2> QED BY <2>4, <2>5 DEF Entitled
<1> QED BY <1>2 DEF Locks

LEMMA FreshEngine ==
    ASSUME NEW p \in Procs
    PROVE  EngineOK(NewEngine(p)) /\ NewEngine(p).epoch = p /\ NewEngine(p).session = 0
<1>1. p \in Nat
  BY ProcBound DEF Procs
<1>2. NewDeck \in Deck /\ NewDeck.status = "empty" /\ NewDeck.load = 0
  BY DEF NewDeck, Deck, Statuses, Settings
<1>3. [d \in Decks |-> NewDeck] \in [Decks -> Deck]
  BY <1>2
<1>4. NewEngine(p) \in Engine
  BY <1>1, <1>3 DEF NewEngine, Engine, Settings
<1>5. LoadsInOrder(NewEngine(p))
  BY <1>2 DEF LoadsInOrder, NewEngine, Loads
<1> QED BY <1>4, <1>5 DEF EngineOK, NewEngine

(* A step that starts no process, and goes to stopping one only from the   *)
(* one in `state`.                                                         *)
NoneBegins == \A p \in Procs : /\ proc'[p].life = "none" <=> proc[p].life = "none"
                               /\ proc'[p].life \in {"up", "hung"} => proc[p].life \in {"up", "hung"}
Stops(c) == running' = 0 /\ lifecycle' = c /\ call'[c].pc = "reap" /\ call'[c].proc = running

LEMMA OneEngineKept ==
    ASSUME IInv, NEW c \in Callers, OthersStay(c), call[c].pc # "reap", NoneBegins,
           \/ running' = running /\ Entitled(c)
           \/ lifecycle \in {c, Nobody} /\ Stops(c)
    PROVE  OneEngine' /\ InOrder'
<1>0. OneEngine /\ InOrder
  BY DEF IInv, Order
<1>1. Nobody \notin Callers
  BY CallerNames DEF Callers
<1>2. InOrder'
  BY <1>0 DEF InOrder, Started, NoneBegins
<1>3. ASSUME NEW p \in Living'
      PROVE  \/ p = running'
             \/ lifecycle' # Nobody /\ call'[lifecycle'].pc = "reap" /\ call'[lifecycle'].proc = p
  <2>1. p \in Living
    BY <1>3 DEF Living, NoneBegins
  <2>2. CASE p = running
    BY <1>1, <2>2 DEF Stops
  <2>3. CASE p # running
    <3>1. lifecycle # Nobody /\ call[lifecycle].pc = "reap" /\ call[lifecycle].proc = p
      BY <1>0, <2>1, <2>3 DEF OneEngine
    <3>2. lifecycle \in Callers \ {c}
      BY <3>1 DEF IInv, TypeInv
    <3> QED BY <3>1, <3>2 DEF Entitled, OthersStay
  <2> QED BY <2>2, <2>3
<1> QED BY <1>2, <1>3 DEF OneEngine

(* What a step of a caller leaves of a process: at most its engine is      *)
(* gone with it.                                                           *)
Spared(p) ==
    /\ Grows(p) /\ Untouched(p)
    /\ proc'[p].life = "none" => proc'[p] = proc[p]
    /\ proc'[p].engine = proc[p].engine \/ proc'[p].engine = NewEngine(p)

LEMMA CallerMoves ==
    ASSUME IInv, TypeInv', NEW c \in Callers, QuietFor(c), Entitled(c), CallerFits(c)',
           SessionKept(c), ClientKept, \A p \in Procs : Spared(p),
           Known', OneEngine', InOrder'
    PROVE  IInv'
<1>0. TypeInv /\ Engines /\ Unstarted
  BY DEF IInv, Order
<1>1. Mail'
  BY QuietMail DEF Spared
<1>2. Locks'
  BY LocksKept DEF Spared, QuietFor
<1>3. Engines'
  BY <1>0, FreshEngine DEF Engines, Spared, EngineOK
<1>4. Unstarted'
  BY <1>0 DEF Unstarted, Spared, Grows
<1> QED BY <1>1, <1>2, <1>3, <1>4 DEF IInv, Order

(* A caller goes on to k, and no process is touched.                       *)
RecFits(c, k) ==
    /\ k.pc = "spawn" => lifecycle' = c /\ running = 0
    /\ k.pc # "reap"
    /\ k.pc \in {"dispatch", "insert", "wait"} /\ k.op \in Locked => lifecycle' = c /\ running # 0
    /\ k.pc = "check" => k.op \notin Locked
    /\ k.pc = "insert" => k.proc # 0 /\ proc[k.proc].life # "none"
    /\ k.pc = "insert" /\ k.op \in Locked => k.proc = running
    /\ k.pc = "wait" => k.answer.kind \notin {"none"} \cup Replied
    /\ k.pc \notin {"wait", "refused"} => k.answer.kind = "none"
    /\ k.op \in {"connect", "resolve"} => FitsIn(proc, k.session)

LEMMA CallerGoes ==
    ASSUME IInv, NEW c \in Callers, NEW k \in CallRec, call' = [call EXCEPT ![c] = k],
           UNCHANGED <<running, proc>>, lifecycle' \in Callers \cup {Nobody}, Entitled(c),
           ~Waiting(c), call[c].pc # "reap", RecFits(c, k),
           ClientRec(client'), client'.session = client.session \/ FitsIn(proc, client'.session)
    PROVE  IInv'
<1>0. TypeInv /\ Known
  BY DEF IInv, Order
<1>1. TypeInv'
  BY <1>0 DEF TypeInv
<1>2. call'[c] = k /\ OthersStay(c)
  BY <1>0 DEF TypeInv, OthersStay
<1>3. ASSUME NEW p \in Procs PROVE Spared(p)
  <2>1. proc[p].nextId \in Nat /\ proc[p].engine.session \in Nat
    BY <1>0, ProcTypes
  <2> QED BY <2>1 DEF Spared, Grows, Untouched
<1>4. QuietFor(c)
  BY <1>2 DEF RecFits, QuietFor, Waiting, Has
<1>5. CallerFits(c)'
  BY <1>2, <1>4 DEF RecFits, CallerFits, QuietFor, Engaged
<1>6. SessionKept(c) /\ ClientKept
  BY <1>2 DEF RecFits, SessionKept, ClientKept, Connecting
<1>7. Known'
  BY <1>0 DEF Known
<1>8. OneEngine' /\ InOrder'
  <2>1. NoneBegins
    BY DEF NoneBegins
  <2> QED BY <1>2, <2>1, OneEngineKept
<1> QED BY <1>1, <1>3, <1>4, <1>5, <1>6, <1>7, <1>8, CallerMoves

(* The client record is only ever changed field by field.                  *)
LEMMA ClientChanges ==
    ASSUME NEW k, ClientRec(k), NEW v, NEW s \in Session
    PROVE  /\ LET x == [k EXCEPT !.buffering = TRUE, !.buffer = v]
              IN ClientRec(x) /\ x.session = k.session
           /\ LET x == [k EXCEPT !.buffering = FALSE, !.buffer = v]
              IN ClientRec(x) /\ x.session = k.session
           /\ LET x == [k EXCEPT !.view = v] IN ClientRec(x) /\ x.session = k.session
           /\ LET x == [k EXCEPT !.buffer = v] IN ClientRec(x) /\ x.session = k.session
           /\ LET x == [k EXCEPT !.view.invalidated = v] IN ClientRec(x) /\ x.session = k.session
           /\ LET x == [k EXCEPT !.session = s] IN ClientRec(x) /\ x.session = s
           /\ LET x == [k EXCEPT !.session = s, !.view = v] IN ClientRec(x) /\ x.session = s
<1>1. k = [session |-> k.session, view |-> k.view, buffering |-> k.buffering, buffer |-> k.buffer]
      /\ k.session \in Session
  BY DEF ClientRec
<1>2. ASSUME NEW b
      PROVE  LET x == [k EXCEPT !.buffering = b, !.buffer = v]
             IN ClientRec(x) /\ x.session = k.session
  <2> DEFINE y == [session |-> k.session, view |-> k.view, buffering |-> b, buffer |-> v]
  <2>1. [k EXCEPT !.buffering = b, !.buffer = v] = y
    <3> DEFINE m == [k EXCEPT !.buffering = b]
    <3>1. m = [session |-> k.session, view |-> k.view, buffering |-> b, buffer |-> k.buffer]
      BY <1>1
    <3>2. [k EXCEPT !.buffering = b, !.buffer = v] = [m EXCEPT !.buffer = v]
      BY <1>1
    <3> HIDE DEF m
    <3> QED BY <3>1, <3>2
  <2>2. ClientRec(y) /\ y.session = k.session
    BY <1>1 DEF ClientRec
  <2> HIDE DEF y
  <2> QED BY <2>1, <2>2
<1>3. LET x == [k EXCEPT !.view = v] IN ClientRec(x) /\ x.session = k.session
  BY <1>1 DEF ClientRec
<1>4. LET x == [k EXCEPT !.buffer = v] IN ClientRec(x) /\ x.session = k.session
  BY <1>1 DEF ClientRec
<1>5. LET x == [k EXCEPT !.view.invalidated = v] IN ClientRec(x) /\ x.session = k.session
  <2> DEFINE view == [k.view EXCEPT !.invalidated = v]
  <2>1. [k EXCEPT !.view.invalidated = v] = [k EXCEPT !.view = view]
    BY <1>1
  <2> HIDE DEF view
  <2> QED BY <1>1, <2>1 DEF ClientRec
<1>6. LET x == [k EXCEPT !.session = s] IN ClientRec(x) /\ x.session = s
  BY <1>1 DEF ClientRec
<1>7. LET x == [k EXCEPT !.session = s, !.view = v] IN ClientRec(x) /\ x.session = s
  <2> DEFINE y == [session |-> s, view |-> v, buffering |-> k.buffering, buffer |-> k.buffer]
  <2>1. [k EXCEPT !.session = s, !.view = v] = y
    <3> DEFINE m == [k EXCEPT !.session = s]
    <3>1. m = [session |-> s, view |-> k.view, buffering |-> k.buffering, buffer |-> k.buffer]
      BY <1>1
    <3>2. [k EXCEPT !.session = s, !.view = v] = [m EXCEPT !.view = v]
      BY <1>1
    <3> HIDE DEF m
    <3> QED BY <3>1, <3>2
  <2>2. ClientRec(y) /\ y.session = s
    BY DEF ClientRec
  <2> HIDE DEF y
  <2> QED BY <2>1, <2>2
<1> QED BY <1>2, <1>3, <1>4, <1>5, <1>6, <1>7

LEMMA IdleTypes ==
    /\ Idle \in CallRec /\ Idle.pc = "idle" /\ Idle.op = "none" /\ Idle.session = NoSession
    /\ Idle.answer.kind = "none" /\ Idle.req = Hello /\ NoSession \in Session
    /\ NoSession.epoch = 0
<1>1. NoSession \in Session /\ NoSession.epoch = 0
  BY ProcBound DEF NoSession, Session
<1>2. NoView \in Snapshots /\ Hello \in Requests
  BY DEF Snapshots, Requests
<1>3. [kind |-> "none"] \in [kind : {"none", "failed", "mismatch", "drained"}] \cup ReplyRec
  OBVIOUS
<1>4. 0 \in 0 .. MaxProcs
  BY ProcBound
<1> HIDE DEF Snapshots, NoView, Requests, Hello, NoSession, Session
<1>5. Idle \in CallRec
  BY <1>1, <1>2, <1>3, <1>4 DEF Idle, CallRec, CallPoints
<1> QED BY <1>1, <1>5 DEF Idle

-----------------------------------------------------------------------------
(* The callers' steps that touch no process                                *)

LEMMA CommandsAsked ==
    /\ GetSnapshot \in Requests /\ Junction \in Requests /\ Hello \in Requests
    /\ Ops \subseteq Requests
BY UserCommands DEF Requests, Commands, GetSnapshot, Junction

Beginning(k) ==
    /\ k.pc \in {"lock", "check"}
    /\ k.pc = "check" => k.op \notin Locked
    /\ k.answer.kind = "none"
    /\ k.op \in {"connect", "resolve"} => k.session = NoSession

LEMMA BeginsCall ==
    ASSUME IInv, NEW c \in Callers, NEW k \in CallRec, Call(c, k),
           Beginning(k), ClientRec(client'), client'.session = client.session
    PROVE  IInv'
<1>0. TypeInv
  BY DEF IInv
<1>1. call[c].pc = "idle" /\ ~Waiting(c)
  BY IdleTypes DEF Call, Waiting
<1>2. RecFits(c, k)
  BY IdleTypes DEF Beginning, RecFits, FitsIn
<1>3. Entitled(c)
  BY DEF Entitled, Call
<1> QED BY <1>0, <1>1, <1>2, <1>3, CallerGoes DEF Call, TypeInv

LEMMA CallsBegin ==
    ASSUME IInv,
           \/ \E c \in Users : CallStart(c) \/ CallStop(c) \/ \E req \in Ops : CallSend(c, req)
           \/ CallConnect \/ CallRefresh
    PROVE  IInv'
<1>0. /\ TypeInv /\ Users \subseteq Callers /\ Webview \in Callers
      /\ ClientRec(client) /\ client.session \in Session
  BY DEF IInv, TypeInv, Callers, ClientRec
<1>1. ASSUME NEW op \in {"start", "stop", "connect"}
      PROVE  LET k == [Idle EXCEPT !.pc = "lock", !.op = op]
             IN k \in CallRec /\ Beginning(k)
  <2> DEFINE j == [Idle EXCEPT !.pc = "lock"]
  <2>1. j \in CallRec /\ j.pc = "lock" /\ j.session = NoSession /\ j.answer.kind = "none"
    BY IdleTypes DEF CallRec, CallPoints
  <2>2. [Idle EXCEPT !.pc = "lock", !.op = op] = [j EXCEPT !.op = op]
    BY IdleTypes DEF CallRec
  <2> DEFINE k == [j EXCEPT !.op = op]
  <2> HIDE DEF j
  <2>3. k \in CallRec /\ k.pc = "lock" /\ k.session = NoSession /\ k.answer.kind = "none"
    BY <2>1 DEF CallRec
  <2> HIDE DEF k
  <2>4. k \in CallRec /\ Beginning(k)
    BY <2>3 DEF Beginning
  <2> QED BY <2>2, <2>4 DEF k
<1>2. ASSUME NEW op \in {"send", "refresh"}, NEW req \in Requests, NEW s \in Session
      PROVE  LET k == [Idle EXCEPT !.pc = "check", !.op = op, !.req = req, !.session = s]
             IN k \in CallRec /\ Beginning(k)
  <2> DEFINE i == [Idle EXCEPT !.pc = "check"]
             j == [i EXCEPT !.op = op]
             k == [j EXCEPT !.req = req]
  <2>1. i \in CallRec /\ i.pc = "check" /\ i.answer.kind = "none"
    BY IdleTypes DEF CallRec, CallPoints
  <2>2. [Idle EXCEPT !.pc = "check", !.op = op, !.req = req, !.session = s]
          = [k EXCEPT !.session = s]
    BY IdleTypes DEF CallRec
  <2> HIDE DEF i
  <2>3. j \in CallRec /\ j.pc = "check" /\ j.op = op /\ j.answer.kind = "none"
    BY <2>1 DEF CallRec
  <2> HIDE DEF j
  <2>4. k \in CallRec /\ k.pc = "check" /\ k.op = op /\ k.answer.kind = "none"
    BY <2>3 DEF CallRec
  <2> HIDE DEF k
  <2> QED BY <2>2, <2>4 DEF CallRec, Beginning, Locked
<1>3. ClientRec(Buffering) /\ Buffering.session = client.session
  BY <1>0, ClientChanges DEF Buffering
<1>4. ASSUME NEW c \in Users, CallStart(c) PROVE IInv'
  <2> DEFINE k == [Idle EXCEPT !.pc = "lock", !.op = "start"]
  <2>1. k \in CallRec /\ Beginning(k)
    BY <1>1
  <2>2. Call(c, k) /\ client' = client
    BY <1>4 DEF CallStart
  <2> HIDE DEF k
  <2> QED BY <1>0, <2>1, <2>2, BeginsCall
<1>5. ASSUME NEW c \in Users, CallStop(c) PROVE IInv'
  <2> DEFINE k == [Idle EXCEPT !.pc = "lock", !.op = "stop"]
  <2>1. k \in CallRec /\ Beginning(k)
    BY <1>1
  <2>2. Call(c, k) /\ client' = client
    BY <1>5 DEF CallStop
  <2> HIDE DEF k
  <2> QED BY <1>0, <2>1, <2>2, BeginsCall
<1>6. ASSUME NEW c \in Users, NEW req \in Ops, CallSend(c, req) PROVE IInv'
  <2> DEFINE k == [Idle EXCEPT !.pc = "check", !.op = "send", !.req = req,
                               !.session = client.session]
  <2>1. k \in CallRec /\ Beginning(k)
    <3>1. req \in Requests
      BY CommandsAsked
    <3> QED BY <1>0, <1>2, <3>1
  <2>2. Call(c, k) /\ client' = client
    BY <1>6 DEF CallSend
  <2> HIDE DEF k
  <2> QED BY <1>0, <2>1, <2>2, BeginsCall
<1>7. CASE CallConnect
  <2> DEFINE k == [Idle EXCEPT !.pc = "lock", !.op = "connect"]
  <2>1. k \in CallRec /\ Beginning(k)
    BY <1>1
  <2>2. Call(Webview, k) /\ client' = Buffering
    BY <1>7 DEF CallConnect
  <2> HIDE DEF k
  <2> QED BY <1>0, <1>3, <2>1, <2>2, BeginsCall
<1>8. CASE CallRefresh
  <2> DEFINE k == [Idle EXCEPT !.pc = "check", !.op = "refresh", !.req = GetSnapshot,
                               !.session = client.session]
  <2>1. k \in CallRec /\ Beginning(k)
    BY <1>0, <1>2, CommandsAsked
  <2>2. Call(Webview, k) /\ client' = Buffering
    BY <1>8 DEF CallRefresh
  <2> HIDE DEF k
  <2> QED BY <1>0, <1>3, <2>1, <2>2, BeginsCall
<1> QED BY <1>4, <1>5, <1>6, <1>7, <1>8

(* A caller's record where one step leaves it.                             *)
Kept(c, k) ==
    /\ k \in CallRec /\ k.op = call[c].op /\ k.session = call[c].session
    /\ call' = [call EXCEPT ![c] = k]

LEMMA GoToIs ==
    ASSUME TypeInv, NEW c \in Callers, NEW pc \in CallPoints, GoTo(c, pc)
    PROVE  \E k : Kept(c, k) /\ k = [call[c] EXCEPT !.pc = pc] /\ k.pc = pc /\ k.proc = call[c].proc
                  /\ k.answer = call[c].answer /\ k.req = call[c].req /\ k.id = call[c].id
<1> DEFINE k == [call[c] EXCEPT !.pc = pc]
<1>1. call[c] \in CallRec
  BY CallTypes
<1>2. call' = [call EXCEPT ![c] = k]
  BY DEF GoTo, TypeInv
<1>3. k \in CallRec /\ k.op = call[c].op /\ k.session = call[c].session /\ k.pc = pc
      /\ k.answer = call[c].answer /\ k.req = call[c].req /\ k.id = call[c].id
      /\ k.proc = call[c].proc
  BY <1>1 DEF CallRec
<1> QED BY <1>2, <1>3 DEF Kept

LEMMA AnsweredIs ==
    ASSUME TypeInv, NEW c \in Callers, NEW kind \in {"failed", "mismatch"}, Answered(c, kind)
    PROVE  \E k : Kept(c, k) /\ k.pc = "wait" /\ k.answer.kind = kind
<1> DEFINE j == [call[c] EXCEPT !.pc = "wait"]
           k == [j EXCEPT !.answer = Answer(kind)]
<1>1. call[c] \in CallRec
  BY CallTypes
<1>2. Answer(kind) \in [kind : {"none", "failed", "mismatch", "drained"}] \cup ReplyRec
      /\ Answer(kind).kind = kind
  BY DEF Answer
<1>3. call' = [call EXCEPT ![c] = k]
  BY <1>1 DEF Answered, TypeInv, CallRec
<1>4. j \in CallRec /\ j.op = call[c].op /\ j.session = call[c].session /\ j.pc = "wait"
  BY <1>1 DEF CallRec, CallPoints
<1> HIDE DEF j
<1>5. k \in CallRec /\ k.op = j.op /\ k.session = j.session /\ k.pc = j.pc /\ k.answer.kind = kind
  BY <1>2, <1>4 DEF CallRec
<1> HIDE DEF k
<1> QED BY <1>3, <1>4, <1>5 DEF Kept

LEMMA ReturnIs ==
    ASSUME IInv, NEW c \in Callers, Return(c),
           UNCHANGED <<running, proc>>, lifecycle' \in {lifecycle, Nobody}, Entitled(c),
           ~Waiting(c), call[c].pc # "reap",
           ClientRec(client'), client'.session = client.session \/ FitsIn(proc, client'.session)
    PROVE  IInv'
<1>1. lifecycle' \in Callers \cup {Nobody}
  BY DEF IInv, TypeInv
<1>2. RecFits(c, Idle)
  BY IdleTypes DEF RecFits
<1> QED BY <1>1, <1>2, IdleTypes, CallerGoes DEF Return

Dispatching(c, k, req, s) ==
    /\ k \in CallRec /\ call' = [call EXCEPT ![c] = k]
    /\ k.pc = "dispatch" /\ k.req = req /\ k.op = call[c].op /\ k.session = s
    /\ k.answer = call[c].answer

LEMMA DispatchingIs ==
    ASSUME TypeInv, NEW c \in Callers, NEW req \in Requests, NEW s \in Session,
           \/ call' = [call EXCEPT ![c].pc = "dispatch", ![c].req = req, ![c].session = s]
           \/ call' = [call EXCEPT ![c].pc = "dispatch", ![c].req = req] /\ s = call[c].session
    PROVE  \E k : Dispatching(c, k, req, s)
<1> DEFINE i == [call[c] EXCEPT !.pc = "dispatch"]
           j == [i EXCEPT !.req = req]
           k == [j EXCEPT !.session = s]
<1>1. call[c] \in CallRec
  BY CallTypes
<1>2. call' = [call EXCEPT ![c] = k]
  BY <1>1 DEF TypeInv, CallRec
<1>3. i \in CallRec /\ i.pc = "dispatch" /\ i.op = call[c].op /\ i.answer = call[c].answer
  BY <1>1 DEF CallRec, CallPoints
<1> HIDE DEF i
<1>4. /\ j \in CallRec /\ j.pc = "dispatch" /\ j.op = call[c].op /\ j.req = req
      /\ j.answer = call[c].answer
  BY <1>3 DEF CallRec
<1> HIDE DEF j
<1>5. /\ k \in CallRec /\ k.pc = "dispatch" /\ k.op = call[c].op /\ k.req = req
      /\ k.answer = call[c].answer /\ k.session = s
  BY <1>4 DEF CallRec
<1> HIDE DEF k
<1> QED BY <1>2, <1>4, <1>5 DEF Dispatching

-----------------------------------------------------------------------------
(* stop_internal()                                                         *)

LEMMA FirstPartIs ==
    ASSUME NEW S, NEW mail \in Seq(S), NEW m \in FirstPart(mail)
    PROVE  /\ m \in Seq(S) /\ Len(m) <= Len(mail)
           /\ \A k \in 1 .. Len(m) : k \in 1 .. Len(mail) /\ m[k] = mail[k]
<1>1. PICK n \in 0 .. Len(mail) : m = SubSeq(mail, 1, n)
  BY DEF FirstPart
<1>2. Len(mail) \in Nat
  BY LenProperties
<1>3. Len(m) = n /\ \A k \in 1 .. n : m[k] = mail[k]
  BY <1>1, <1>2
<1>4. m \in Seq(S)
  BY <1>1, <1>2
<1> QED BY <1>2, <1>3, <1>4

LEMMA TakesState ==
    ASSUME IInv, NEW c \in Callers, NEW op \in {"start", "stop", "abort"}, TakeState(c, op),
           lifecycle \in {c, Nobody}, lifecycle' = c, client' = client,
           ~Waiting(c), call[c].pc # "reap"
    PROVE  IInv'
<1>0. TypeInv /\ Known
  BY DEF IInv, Order
<1>1. running \in Procs /\ running' = 0 /\ proc[running].life # "none"
  BY <1>0, ProcBound DEF TakeState, TypeInv, Known, Procs
<1>2. PICK mail \in FirstPart(proc[running].mail) :
         proc' = [proc EXCEPT ![running].taken = TRUE, ![running].mail = mail]
  BY DEF TakeState
<1>3. mail \in Seq(EventRec)
  BY <1>0, <1>1, ProcTypes, FirstPartIs
<1> DEFINE q == [proc[running] EXCEPT !.taken = TRUE]
           r == [q EXCEPT !.mail = mail]
           i == [Idle EXCEPT !.pc = "reap"]
           j == [i EXCEPT !.op = op]
           k == [j EXCEPT !.proc = running]
<1>4. proc' = [proc EXCEPT ![running] = r]
  BY <1>0, <1>1, <1>2 DEF TypeInv, ProcRec
<1>5. /\ q \in ProcRec /\ q.life = proc[running].life /\ q.engine = proc[running].engine
      /\ q.pending = proc[running].pending /\ q.inbox = proc[running].inbox
      /\ q.out = proc[running].out /\ q.nextId = proc[running].nextId
  BY <1>0, <1>1, ProcTypes DEF ProcRec
<1>6. call' = [call EXCEPT ![c] = k]
  <2>1. call' = [call EXCEPT ![c] = [Idle EXCEPT !.pc = "reap", !.op = op, !.proc = running]]
    BY DEF TakeState
  <2>2. [Idle EXCEPT !.pc = "reap", !.op = op, !.proc = running] = k
    BY IdleTypes DEF CallRec
  <2> QED BY <2>1, <2>2
<1>7. i \in CallRec /\ i.pc = "reap" /\ i.answer.kind = "none"
  BY IdleTypes DEF CallRec, CallPoints
<1> HIDE DEF q, i
<1>8. /\ r \in ProcRec /\ r.life = proc[running].life /\ r.engine = proc[running].engine
      /\ r.pending = proc[running].pending /\ r.inbox = proc[running].inbox
      /\ r.out = proc[running].out /\ r.nextId = proc[running].nextId
  BY <1>3, <1>5 DEF ProcRec
<1>9. j \in CallRec /\ j.pc = "reap" /\ j.op = op /\ j.answer.kind = "none"
  BY <1>7 DEF CallRec
<1> HIDE DEF j, r
<1>10. k \in CallRec /\ k.pc = "reap" /\ k.op = op /\ k.proc = running /\ k.answer.kind = "none"
  BY <1>1, <1>9 DEF CallRec, Procs
<1> HIDE DEF k
<1>11. call'[c] = k /\ OthersStay(c)
  BY <1>0, <1>6 DEF TypeInv, OthersStay
<1>12. TypeInv'
  BY <1>0, <1>1, <1>4, <1>6, <1>8, <1>10, ProcBound DEF TypeInv
<1>13. ASSUME NEW p \in Procs
       PROVE  Spared(p) /\ proc'[p].life = proc[p].life
  <2>1. proc[p].nextId \in Nat /\ proc[p].engine.session \in Nat
    BY <1>0, ProcTypes
  <2>2. CASE p = running
    <3>1. proc'[p] = r
      BY <1>0, <1>4, <2>2 DEF TypeInv
    <3> QED BY <1>1, <1>8, <2>1, <2>2, <3>1 DEF Spared, Grows, Untouched
  <2>3. CASE p # running
    <3>1. proc'[p] = proc[p]
      BY <1>0, <1>4, <2>3 DEF TypeInv
    <3> QED BY <2>1, <3>1 DEF Spared, Grows, Untouched
  <2> QED BY <2>2, <2>3
<1>14. QuietFor(c) /\ Entitled(c)
  BY <1>10, <1>11 DEF QuietFor, Waiting, Has, Entitled
<1>15. CallerFits(c)'
  BY <1>1, <1>10, <1>11, <1>13 DEF CallerFits, Engaged, Waiting, Has, Procs
<1>16. OneEngine' /\ InOrder'
  <2>1. NoneBegins
    BY <1>13 DEF NoneBegins
  <2>2. Stops(c)
    BY <1>1, <1>10, <1>11 DEF Stops
  <2> QED BY <1>11, <2>1, <2>2, OneEngineKept
<1>17. Known'
  BY <1>1 DEF Known
<1>18. SessionKept(c) /\ ClientKept
  BY <1>9, <1>10, <1>11 DEF SessionKept, ClientKept, Connecting
<1> QED BY <1>12, <1>13, <1>14, <1>15, <1>16, <1>17, <1>18, CallerMoves

LEMMA ClientKeeps ==
    ASSUME ClientRec(client), NEW c, NEW v
    PROVE  /\ ClientRec(NotBuffering) /\ NotBuffering.session = client.session
           /\ LET x == [NotBuffering EXCEPT !.view = v]
              IN ClientRec(x) /\ x.session = client.session
           /\ ClientRec(Invalidated(c)) /\ Invalidated(c).session = client.session
           /\ LET x == [Invalidated(c) EXCEPT !.buffering = FALSE, !.buffer = <<>>]
              IN ClientRec(x) /\ x.session = client.session
<1>0. client.session \in Session
  BY DEF ClientRec
<1>1. ClientRec(NotBuffering) /\ NotBuffering.session = client.session
  BY <1>0, ClientChanges DEF NotBuffering
<1> HIDE DEF NotBuffering
<1>2. LET x == [NotBuffering EXCEPT !.view = v]
      IN ClientRec(x) /\ x.session = client.session
  BY <1>0, <1>1, ClientChanges
<1>3. ClientRec(Invalidated(c)) /\ Invalidated(c).session = client.session
  BY <1>0, ClientChanges DEF Invalidated
<1> HIDE DEF Invalidated
<1>4. LET x == [Invalidated(c) EXCEPT !.buffering = FALSE, !.buffer = <<>>]
      IN ClientRec(x) /\ x.session = client.session
  BY <1>0, <1>3, ClientChanges
<1> QED BY <1>1, <1>2, <1>3, <1>4

LEMMA CallersGoOn ==
    ASSUME IInv, NEW c \in Callers,
           \/ Dispatch(c) \/ StartLocked(c) \/ SpawnFails(c)
           \/ StopLocked(c) \/ StopRefused(c) \/ StopReturns(c)
           \/ ConnectLocked(c) \/ ConnectSnapshot(c) \/ ConnectFails(c)
           \/ Connected(c) \/ ConnectReturns(c)
           \/ CheckSession(c) \/ SendReturns(c) \/ RefreshReturns(c)
    PROVE  IInv'
<1>0. /\ TypeInv /\ Locks /\ Known /\ Sessions /\ CallerFits(c)
      /\ ClientRec(client) /\ client.session \in Session /\ c # Nobody
      /\ running \in 0 .. MaxProcs /\ lifecycle \in Callers \cup {Nobody}
  BY CallerNames DEF IInv, Order, Mail, TypeInv, Locks, ClientRec, Callers
<1>1. call[c].op \in {"connect", "resolve"} => FitsIn(proc, call[c].session)
  BY <1>0 DEF Sessions, SessionFits
<1>2. call[c].pc \notin {"wait", "reap"} => ~Waiting(c) /\ call[c].pc # "reap"
  BY DEF Waiting
<1>3. \A kinds : Has(c, kinds) /\ "none" \notin kinds =>
         ~Waiting(c) /\ call[c].pc # "reap" /\ call[c].pc = "wait"
  BY DEF Has, Waiting
<1>4. CASE Dispatch(c)
  <2>1. call[c].pc = "dispatch" /\ call[c].answer.kind = "none"
    BY <1>0, <1>4 DEF Dispatch, CallerFits
  <2>2. CASE Answered(c, "failed")
    <3>1. PICK k : Kept(c, k) /\ k.pc = "wait" /\ k.answer.kind = "failed"
      BY <1>0, <2>2, AnsweredIs
    <3>2. RecFits(c, k)
      BY <1>0, <1>1, <1>4, <2>1, <3>1 DEF RecFits, Kept, CallerFits, Dispatch, Replied
    <3> QED BY <1>0, <1>2, <1>4, <2>1, <3>1, <3>2, CallerGoes DEF Dispatch, Kept, Entitled
  <2>3. CASE running # 0 /\ call' = [call EXCEPT ![c].pc = "insert", ![c].proc = running]
    <3> DEFINE j == [call[c] EXCEPT !.pc = "insert"]
               k == [j EXCEPT !.proc = running]
    <3>1. call[c] \in CallRec
      BY <1>0, CallTypes
    <3>2. call' = [call EXCEPT ![c] = k]
      BY <1>0, <2>3, <3>1 DEF TypeInv, CallRec
    <3>3. j \in CallRec /\ j.pc = "insert" /\ j.op = call[c].op /\ j.session = call[c].session
          /\ j.answer = call[c].answer
      BY <3>1 DEF CallRec, CallPoints
    <3> HIDE DEF j
    <3>4. k \in CallRec /\ k.pc = "insert" /\ k.op = call[c].op /\ k.session = call[c].session
          /\ k.answer = call[c].answer /\ k.proc = running
      BY <1>0, <3>3 DEF CallRec
    <3> HIDE DEF k
    <3>5. RecFits(c, k)
      BY <1>0, <1>1, <1>4, <2>1, <2>3, <3>4 DEF RecFits, CallerFits, Dispatch, Known
    <3> QED BY <1>0, <1>2, <1>4, <2>1, <3>2, <3>4, <3>5, CallerGoes DEF Dispatch, Entitled
  <2> QED BY <1>4, <2>2, <2>3 DEF Dispatch
<1>5. CASE StartLocked(c)
  <2>1. /\ call[c].pc = "lock" /\ call[c].op = "start" /\ lifecycle = Nobody /\ client' = client
        /\ call[c].answer.kind = "none" /\ Entitled(c)
    BY <1>0, <1>5 DEF StartLocked, At, CallerFits, Entitled
  <2>2. CASE Return(c) /\ UNCHANGED <<running, lifecycle, proc>>
    BY <1>0, <1>2, <2>1, <2>2, ReturnIs
  <2>3. CASE running = 0 /\ lifecycle' = c /\ GoTo(c, "spawn") /\ UNCHANGED <<running, proc>>
    <3>1. "spawn" \in CallPoints
      BY DEF CallPoints
    <3>2. PICK k : Kept(c, k) /\ k.pc = "spawn" /\ k.answer = call[c].answer
      BY <1>0, <2>3, <3>1, GoToIs
    <3>3. RecFits(c, k)
      BY <2>1, <2>3, <3>2 DEF RecFits, Kept
    <3> QED BY <1>0, <1>2, <2>1, <2>3, <3>2, <3>3, CallerGoes DEF Kept
  <2>4. CASE lifecycle' = c /\ TakeState(c, "start")
    BY <1>2, <2>1, <2>4, TakesState
  <2> QED BY <1>5, <2>2, <2>3, <2>4 DEF StartLocked
<1>6. CASE SpawnFails(c)
  <2>1. call[c].pc = "spawn" /\ lifecycle = c
    BY <1>0, <1>6 DEF SpawnFails, At, CallerFits
  <2> QED BY <1>0, <1>2, <1>6, <2>1, ReturnIs DEF SpawnFails, Entitled
<1>7. CASE StopLocked(c)
  <2>1. /\ call[c].pc = "lock" /\ call[c].op = "stop" /\ lifecycle = Nobody /\ client' = client
        /\ call[c].answer.kind = "none" /\ Entitled(c)
    BY <1>0, <1>7 DEF StopLocked, At, CallerFits, Entitled
  <2>2. CASE GoTo(c, "stopped") /\ UNCHANGED <<running, lifecycle, proc>>
    <3>1. "stopped" \in CallPoints
      BY DEF CallPoints
    <3>2. PICK k : Kept(c, k) /\ k.pc = "stopped" /\ k.answer = call[c].answer
      BY <1>0, <2>2, <3>1, GoToIs
    <3>3. RecFits(c, k)
      BY <2>1, <2>2, <3>2 DEF RecFits, Kept
    <3> QED BY <1>0, <1>2, <2>1, <2>2, <3>2, <3>3, CallerGoes DEF Kept
  <2>3. CASE lifecycle' = c /\ TakeState(c, "stop")
    BY <1>2, <2>1, <2>3, TakesState
  <2>4. CASE /\ running # 0 /\ lifecycle' = c
             /\ call' = [call EXCEPT ![c].pc = "dispatch", ![c].req = Junction,
                                     ![c].session = [epoch |-> running, n |-> proc[running].session]]
             /\ UNCHANGED <<running, proc>>
    <3> DEFINE s == [epoch |-> running, n |-> proc[running].session]
    <3>1. s \in Session
      <4>1. running \in Procs
        BY <1>0, <2>4, ProcBound DEF Procs
      <4>2. proc[running].session \in Nat
        BY <1>0, <4>1, ProcTypes
      <4> QED BY <1>0, <4>2 DEF Session
    <3>2. call' = [call EXCEPT ![c].pc = "dispatch", ![c].req = Junction, ![c].session = s]
      BY <2>4
    <3> HIDE DEF s
    <3>3. PICK k : Dispatching(c, k, Junction, s)
      <4>1. Junction \in Requests
        BY CommandsAsked
      <4> HIDE DEF Junction
      <4> QED BY <1>0, <3>1, <3>2, <4>1, DispatchingIs
    <3>4. RecFits(c, k)
      BY <2>1, <2>4, <3>3 DEF RecFits, Dispatching
    <3> QED BY <1>0, <1>2, <2>1, <2>4, <3>3, <3>4, CallerGoes DEF Dispatching
  <2> QED BY <1>7, <2>2, <2>3, <2>4 DEF StopLocked
<1>8. CASE StopRefused(c)
  <2>1. call[c].pc = "wait" /\ call[c].op = "stop" /\ lifecycle = c /\ ~Waiting(c)
    BY <1>0, <1>8 DEF StopRefused, Has, CallerFits, Locked, Waiting
  <2>2. "refused" \in CallPoints
    BY DEF CallPoints
  <2>3. PICK k : Kept(c, k) /\ k.pc = "refused"
    BY <1>0, <1>8, <2>2, GoToIs DEF StopRefused
  <2>4. RecFits(c, k)
    BY <2>1, <2>3 DEF RecFits, Kept
  <2>5. lifecycle' = Nobody /\ UNCHANGED <<running, proc, client>>
    BY <1>8 DEF StopRefused
  <2> QED BY <1>0, <2>1, <2>3, <2>4, <2>5, CallerGoes DEF Kept, Entitled
<1>9. CASE StopReturns(c)
  <2>1. NoSession \in Session /\ FitsIn(proc, NoSession)
    BY IdleTypes DEF FitsIn
  <2>2. ClientRec(client') /\ (client'.session = client.session \/ FitsIn(proc, client'.session))
    <3>1. CASE client' = client
      BY <1>0, <3>1
    <3>2. CASE client' = [client EXCEPT !.session = NoSession, !.view = NoView]
      BY <1>0, <2>1, <3>2, ClientChanges
    <3> QED BY <1>9, <3>1, <3>2 DEF StopReturns
  <2>3. call[c].pc \in {"stopped", "refused"}
    BY <1>9 DEF StopReturns
  <2>4. Return(c) /\ UNCHANGED <<running, lifecycle, proc>> /\ Entitled(c)
    BY <1>9 DEF StopReturns, Entitled
  <2>5. ~Waiting(c) /\ call[c].pc # "reap" /\ lifecycle' \in {lifecycle, Nobody}
    BY <1>2, <2>3, <2>4
  <2>6. UNCHANGED <<running, proc>>
    BY <2>4
  <2> QED BY <2>2, <2>4, <2>5, <2>6, ReturnIs
<1>10. CASE ConnectLocked(c)
  <2>1. /\ call[c].pc = "lock" /\ call[c].op = "connect" /\ lifecycle = Nobody
        /\ call[c].answer.kind = "none" /\ Entitled(c) /\ UNCHANGED <<running, proc>>
    BY <1>0, <1>10 DEF ConnectLocked, At, CallerFits, Entitled
  <2>2. CASE Return(c) /\ client' = NotBuffering /\ UNCHANGED lifecycle
    <3>1. ClientRec(client') /\ client'.session = client.session
      BY <1>0, <2>2, ClientKeeps
    <3> QED BY <1>2, <2>1, <2>2, <3>1, ReturnIs
  <2>3. CASE /\ running # 0 /\ lifecycle' = c /\ UNCHANGED client
             /\ call' = [call EXCEPT ![c].pc = "dispatch", ![c].req = Hello]
    <3> DEFINE s == call[c].session
    <3>1. s \in Session /\ Hello \in Requests
      BY <1>0, CallTypes, CommandsAsked
    <3> HIDE DEF Hello
    <3>2. PICK k : Dispatching(c, k, Hello, s)
      BY <1>0, <2>3, <3>1, DispatchingIs
    <3>3. RecFits(c, k)
      BY <1>1, <2>1, <2>3, <3>2 DEF RecFits, Dispatching
    <3> QED BY <1>0, <1>2, <2>1, <2>3, <3>2, <3>3, CallerGoes DEF Dispatching
  <2> QED BY <1>10, <2>2, <2>3 DEF ConnectLocked
<1>11. CASE ConnectSnapshot(c)
  <2>1. /\ call[c].pc = "wait" /\ call[c].op = "connect" /\ call[c].answer.kind = "result"
        /\ lifecycle = c /\ ~Waiting(c)
    BY <1>0, <1>11 DEF ConnectSnapshot, At, Has, CallerFits, Locked, Waiting
  <2> DEFINE i == [Idle EXCEPT !.pc = "connected"]
             j == [i EXCEPT !.op = "connect"]
             m == [j EXCEPT !.session = call[c].session]
             k == [m EXCEPT !.snapshot = call[c].answer.snapshot]
  <2>2. call' = [call EXCEPT ![c] = k]
    BY <1>11, IdleTypes DEF ConnectSnapshot, CallRec
  <2>3. call[c].session \in Session /\ call[c].answer.snapshot \in Snapshots
    <3>1. call[c].answer \in ReplyRec
      BY <1>0, <2>1, CallTypes
    <3> QED BY <1>0, <3>1, CallTypes DEF ReplyRec
  <2>4. i \in CallRec /\ i.pc = "connected" /\ i.answer.kind = "none"
    BY IdleTypes DEF CallRec, CallPoints
  <2> HIDE DEF i
  <2>5. j \in CallRec /\ j.pc = "connected" /\ j.answer.kind = "none" /\ j.op = "connect"
    BY <2>4 DEF CallRec
  <2> HIDE DEF j
  <2>6. m \in CallRec /\ m.pc = "connected" /\ m.answer.kind = "none" /\ m.op = "connect"
        /\ m.session = call[c].session
    BY <2>3, <2>5 DEF CallRec
  <2> HIDE DEF m
  <2>7. k \in CallRec /\ k.pc = "connected" /\ k.answer.kind = "none" /\ k.op = "connect"
        /\ k.session = call[c].session
    BY <2>3, <2>6 DEF CallRec
  <2> HIDE DEF k
  <2>8. RecFits(c, k)
    BY <1>1, <2>1, <2>7 DEF RecFits
  <2>9. lifecycle' = Nobody /\ UNCHANGED <<running, proc, client>>
    BY <1>11 DEF ConnectSnapshot
  <2> QED BY <1>0, <2>1, <2>2, <2>7, <2>8, <2>9, CallerGoes DEF Entitled
<1>12. CASE ConnectFails(c)
  <2>1. /\ lifecycle = c /\ lifecycle' = Nobody /\ Return(c) /\ UNCHANGED <<running, proc>>
        /\ client' = NotBuffering /\ Entitled(c)
    BY <1>12 DEF ConnectFails, Entitled
  <2>2. call[c].pc = "wait" /\ ~Waiting(c)
    BY <1>12 DEF ConnectFails, Has, Waiting
  <2>3. ClientRec(client') /\ client'.session = client.session
    BY <1>0, <2>1, ClientKeeps
  <2> QED BY <2>1, <2>2, <2>3, ReturnIs
<1>13. CASE Connected(c)
  <2>1. /\ call[c].pc = "connected" /\ call[c].op = "connect" /\ call[c].answer.kind = "none"
        /\ client' = [client EXCEPT !.session = call[c].session]
        /\ UNCHANGED <<running, lifecycle, proc>>
    BY <1>0, <1>13 DEF Connected, At, CallerFits
  <2>2. call[c].session \in Session
    BY <1>0, CallTypes
  <2>3. ClientRec(client') /\ client'.session = call[c].session
    <3> DEFINE v == call[c].session
    <3>1. v \in Session /\ client' = [client EXCEPT !.session = v]
      BY <2>1, <2>2
    <3> HIDE DEF v
    <3>2. ClientRec(client') /\ client'.session = v
      BY <1>0, <3>1, ClientChanges
    <3> QED BY <3>2 DEF v
  <2> DEFINE i == [call[c] EXCEPT !.pc = "check"]
             j == [i EXCEPT !.op = "resolve"]
             k == [j EXCEPT !.req = Junction]
  <2>4. call[c] \in CallRec
    BY <1>0, CallTypes
  <2>5. call' = [call EXCEPT ![c] = k]
    BY <1>0, <1>13, <2>4 DEF Connected, TypeInv, CallRec
  <2>6. i \in CallRec /\ i.pc = "check" /\ i.answer = call[c].answer /\ i.session = call[c].session
    BY <2>4 DEF CallRec, CallPoints
  <2> HIDE DEF i
  <2>7. /\ j \in CallRec /\ j.pc = "check" /\ j.answer = call[c].answer
        /\ j.session = call[c].session /\ j.op = "resolve"
    BY <2>6 DEF CallRec
  <2> HIDE DEF j
  <2>8. /\ k \in CallRec /\ k.pc = "check" /\ k.answer = call[c].answer
        /\ k.session = call[c].session /\ k.op = "resolve"
    <3>1. Junction \in Requests
      BY CommandsAsked
    <3> HIDE DEF Junction
    <3> QED BY <2>7, <3>1 DEF CallRec
  <2> HIDE DEF k
  <2>9. RecFits(c, k)
    BY <1>1, <2>1, <2>8 DEF RecFits, Locked
  <2> QED BY <1>0, <1>1, <1>2, <2>1, <2>3, <2>5, <2>8, <2>9, CallerGoes DEF Entitled
<1>14. CASE ConnectReturns(c)
  <2>1. call[c].pc = "wait" /\ ~Waiting(c)
    BY <1>14 DEF ConnectReturns, Has, Waiting, Replies
  <2>2. Return(c) /\ UNCHANGED <<running, lifecycle, proc>> /\ Entitled(c)
    BY <1>14 DEF ConnectReturns, Entitled
  <2>3. ClientRec(client') /\ client'.session = client.session
    BY <1>0, <1>14, ClientKeeps DEF ConnectReturns
  <2> QED BY <2>1, <2>2, <2>3, ReturnIs
<1>15. CASE CheckSession(c)
  <2>1. /\ call[c].pc = "check" /\ call[c].answer.kind = "none" /\ call[c].op \notin Locked
        /\ UNCHANGED <<running, lifecycle, proc, client>> /\ Entitled(c)
    BY <1>0, <1>15 DEF CheckSession, CallerFits, Entitled
  <2>2. ASSUME NEW kind \in {"failed", "mismatch"}, Answered(c, kind) PROVE IInv'
    <3>1. PICK k : Kept(c, k) /\ k.pc = "wait" /\ k.answer.kind = kind
      BY <1>0, <2>2, AnsweredIs
    <3>2. RecFits(c, k)
      BY <1>1, <2>1, <3>1 DEF RecFits, Kept, Replied
    <3> QED BY <1>0, <1>2, <2>1, <3>1, <3>2, CallerGoes DEF Kept
  <2>3. CASE running # 0 /\ GoTo(c, "dispatch")
    <3>1. "dispatch" \in CallPoints
      BY DEF CallPoints
    <3>2. PICK k : Kept(c, k) /\ k.pc = "dispatch" /\ k.answer = call[c].answer
      BY <1>0, <2>3, <3>1, GoToIs
    <3>3. RecFits(c, k)
      BY <1>1, <2>1, <3>2 DEF RecFits, Kept
    <3> QED BY <1>0, <1>2, <2>1, <3>2, <3>3, CallerGoes DEF Kept
  <2> QED BY <1>15, <2>2, <2>3 DEF CheckSession
<1>16. CASE SendReturns(c)
  <2>1. call[c].pc = "wait" /\ ~Waiting(c)
    BY <1>16 DEF SendReturns, Has, Waiting, Replies
  <2>2. Return(c) /\ UNCHANGED <<running, lifecycle, proc>> /\ Entitled(c)
    BY <1>16 DEF SendReturns, Entitled
  <2>3. ClientRec(client') /\ client'.session = client.session
    BY <1>0, <1>16, ClientKeeps DEF SendReturns
  <2> QED BY <2>1, <2>2, <2>3, ReturnIs
<1>17. CASE RefreshReturns(c)
  <2>1. call[c].pc = "wait" /\ ~Waiting(c)
    BY <1>17 DEF RefreshReturns, Has, Waiting, Replies
  <2>2. Return(c) /\ UNCHANGED <<running, lifecycle, proc>> /\ Entitled(c)
    BY <1>17 DEF RefreshReturns, Entitled
  <2>3. ClientRec(client') /\ client'.session = client.session
    BY <1>0, <1>17, ClientKeeps DEF RefreshReturns
  <2> QED BY <2>1, <2>2, <2>3, ReturnIs
<1> QED BY <1>4, <1>5, <1>6, <1>7, <1>8, <1>9, <1>10, <1>11, <1>12, <1>13, <1>14, <1>15, <1>16, <1>17

LEMMA SessionStored ==
    ASSUME IInv, running # 0, NEW n \in Nat, KeepSession(n)
    PROVE  /\ proc' \in [Procs -> ProcRec]
           /\ \A p \in Procs : /\ Spared(p) /\ proc'[p].life = proc[p].life
                               /\ proc'[p].engine = proc[p].engine
<1>0. TypeInv /\ running \in Procs /\ proc[running].life # "none"
  BY ProcBound DEF IInv, Order, TypeInv, Known, Procs
<1> DEFINE r == [proc[running] EXCEPT !.session = n]
<1>1. proc' = [proc EXCEPT ![running] = r]
  BY <1>0 DEF KeepSession, TypeInv
<1>2. /\ r \in ProcRec /\ r.life = proc[running].life /\ r.engine = proc[running].engine
      /\ r.pending = proc[running].pending /\ r.inbox = proc[running].inbox
      /\ r.out = proc[running].out /\ r.nextId = proc[running].nextId
  BY <1>0, ProcTypes DEF ProcRec
<1> HIDE DEF r
<1>3. ASSUME NEW p \in Procs
      PROVE  /\ Spared(p) /\ proc'[p].life = proc[p].life /\ proc'[p].engine = proc[p].engine
  <2>1. proc[p].nextId \in Nat /\ proc[p].engine.session \in Nat
    BY <1>0, ProcTypes
  <2>2. proc'[p] = IF p = running THEN r ELSE proc[p]
    BY <1>0, <1>1 DEF TypeInv
  <2> QED BY <1>0, <1>2, <2>1, <2>2 DEF Spared, Grows, Untouched
<1> QED BY <1>0, <1>1, <1>2, <1>3 DEF TypeInv

(* handshake() and the end of a start or a stop                            *)
LEMMA HandshakesEnd ==
    ASSUME IInv, NEW c \in Callers,
           StartAnswered(c) \/ StartFailed(c) \/ StopAllowed(c) \/ ConnectHello(c)
    PROVE  IInv'
<1>0. /\ TypeInv /\ Known /\ CallerFits(c) /\ OwnFits(c) /\ c # Nobody
      /\ ClientRec(client) /\ client.session \in Session
      /\ running \in 0 .. MaxProcs /\ lifecycle \in Callers \cup {Nobody}
  BY CallerNames DEF IInv, Order, Mail, TypeInv, Locks, Own, ClientRec, Callers
<1>1. /\ call[c].pc = "wait" /\ call[c].op \in Locked /\ ~Waiting(c) /\ call[c].pc # "reap"
      /\ lifecycle = c /\ running # 0 /\ client' = client
  <2>1. call[c].pc = "wait" /\ call[c].op \in Locked /\ ~Waiting(c) /\ client' = client
    BY DEF StartAnswered, StartFailed, StopAllowed, ConnectHello, Has, At, Waiting, Locked, Replies
  <2> QED BY <1>0, <2>1 DEF CallerFits
<1>2. running \in Procs
  BY <1>0, <1>1, ProcBound DEF Procs
<1>3. CASE StartFailed(c)
  BY <1>1, <1>3, TakesState DEF StartFailed
<1>4. CASE StopAllowed(c)
  BY <1>1, <1>4, TakesState DEF StopAllowed
<1>5. ASSUME NEW k \in CallRec, call' = [call EXCEPT ![c] = k], KeepSession(call[c].answer.session),
             Has(c, {"hello"}), running' = running, lifecycle' \in {c, Nobody},
             \/ k = Idle
             \/ /\ k.pc = "dispatch" /\ lifecycle' = c /\ k.answer.kind = "none"
                /\ k.session.epoch = running /\ k.session.n = call[c].answer.session
      PROVE  IInv'
  <2>1. call[c].answer.session \in Nat
    <3>1. call[c].answer \in ReplyRec
      BY <1>0, <1>5, CallTypes DEF Has
    <3> QED BY <3>1 DEF ReplyRec
  <2>2. /\ proc' \in [Procs -> ProcRec]
        /\ \A p \in Procs : /\ Spared(p) /\ proc'[p].life = proc[p].life
                            /\ proc'[p].engine = proc[p].engine
    BY <1>1, <1>5, <2>1, SessionStored
  <2>3. TypeInv'
    BY <1>0, <1>1, <1>5, <2>2 DEF TypeInv
  <2>4. call'[c] = k /\ OthersStay(c)
    BY <1>0, <1>5 DEF TypeInv, OthersStay
  <2>5. QuietFor(c) /\ Entitled(c)
    BY <1>1, <1>5, <2>4, IdleTypes DEF QuietFor, Waiting, Has, Entitled
  <2>6. CallerFits(c)'
    BY <1>1, <1>5, <2>4, IdleTypes DEF CallerFits, Engaged, Waiting, Has
  <2>7. Known'
    BY <1>0, <1>2, <1>5, <2>2 DEF Known
  <2>8. OneEngine' /\ InOrder'
    <3>1. NoneBegins
      BY <2>2 DEF NoneBegins
    <3> QED BY <1>1, <1>5, <2>4, <2>5, <3>1, OneEngineKept
  <2>9. SessionKept(c)
    <3>1. CASE k = Idle
      BY <2>4, <3>1, IdleTypes DEF SessionKept, Connecting
    <3>2. CASE k.session.epoch = running /\ k.session.n = call[c].answer.session
      <4>1. Has(c, Replied)
        BY <1>5 DEF Has, Replied
      <4>2. call[c].proc = running
        BY <1>0, <1>1, <4>1 DEF CallerFits, Engaged
      <4>3. FitsIn(proc', k.session)
        BY <1>0, <1>1, <1>2, <2>2, <3>2, <4>1, <4>2 DEF OwnFits, FitsIn, Known
      <4> QED BY <2>4, <4>3 DEF SessionKept
    <3> QED BY <1>5, <3>1, <3>2
  <2>10. ClientKept
    BY <1>1 DEF ClientKept
  <2> QED BY <2>2, <2>3, <2>5, <2>6, <2>7, <2>8, <2>9, <2>10, CallerMoves
<1>6. CASE StartAnswered(c)
  <2>1. call' = [call EXCEPT ![c] = Idle] /\ Idle \in CallRec
    BY <1>6, IdleTypes DEF StartAnswered, Return
  <2>2. KeepSession(call[c].answer.session) /\ Has(c, {"hello"}) /\ running' = running
        /\ lifecycle' = Nobody
    BY <1>6 DEF StartAnswered
  <2> QED BY <1>5, <2>1, <2>2
<1>7. CASE ConnectHello(c)
  <2>0. KeepSession(call[c].answer.session) /\ Has(c, {"hello"})
        /\ UNCHANGED <<running, lifecycle>>
    BY <1>7 DEF ConnectHello
  <2> DEFINE s == [epoch |-> running, n |-> call[c].answer.session]
             i == [Idle EXCEPT !.pc = "dispatch"]
             j == [i EXCEPT !.op = "connect"]
             m == [j EXCEPT !.req = GetSnapshot]
             k == [m EXCEPT !.session = s]
  <2>1. s \in Session
    <3>1. call[c].answer \in ReplyRec
      BY <1>0, <2>0, CallTypes DEF Has
    <3> QED BY <1>0, <3>1 DEF ReplyRec, Session
  <2>2. call' = [call EXCEPT ![c] = k]
    BY <1>7, IdleTypes DEF ConnectHello, CallRec
  <2>3. i \in CallRec /\ i.pc = "dispatch" /\ i.answer.kind = "none"
    BY IdleTypes DEF CallRec, CallPoints
  <2> HIDE DEF i
  <2>4. j \in CallRec /\ j.pc = "dispatch" /\ j.answer.kind = "none"
    BY <2>3 DEF CallRec
  <2> HIDE DEF j
  <2>5. m \in CallRec /\ m.pc = "dispatch" /\ m.answer.kind = "none"
    <3>1. GetSnapshot \in Requests
      BY CommandsAsked
    <3> HIDE DEF GetSnapshot
    <3> QED BY <2>4, <3>1 DEF CallRec
  <2> HIDE DEF m
  <2>6. k \in CallRec /\ k.pc = "dispatch" /\ k.answer.kind = "none" /\ k.session = s
    BY <2>1, <2>5 DEF CallRec
  <2> HIDE DEF k
  <2>7. k.session.epoch = running /\ k.session.n = call[c].answer.session
    BY <2>6
  <2> QED BY <1>1, <1>5, <2>0, <2>2, <2>6, <2>7
<1> QED BY <1>3, <1>4, <1>6, <1>7

(* The end of a process, and a new one                                     *)
LEMMA ReapEnds ==
    ASSUME IInv, NEW c \in Callers, Reap(c)
    PROVE  IInv'
<1>0. /\ TypeInv /\ Known /\ CallerFits(c) /\ OneEngine /\ InOrder /\ c # Nobody
      /\ ClientRec(client)
  BY CallerNames DEF IInv, Order, TypeInv, Locks, Callers
<1> DEFINE p == call[c].proc
<1>1. /\ call[c].pc = "reap" /\ lifecycle = c /\ running = 0 /\ p \in Procs
      /\ proc[p].life # "none" /\ call[c].answer.kind = "none"
  BY <1>0, CallTypes, ProcBound DEF Reap, CallerFits, Procs
<1> DEFINE h == [proc[p] EXCEPT !.life = "exited"]
           i == [h EXCEPT !.engine = NewEngine(p)]
           r == [i EXCEPT !.alive = FALSE]
<1>2. proc' = [proc EXCEPT ![p] = r]
  <2>1. proc[p] \in ProcRec
    BY <1>0, <1>1, ProcTypes
  <2> HIDE DEF p
  <2>2. [Ended(p) EXCEPT !.alive = FALSE] = r
    BY <2>1 DEF Ended, ProcRec
  <2>3. proc' = [proc EXCEPT ![p] = [Ended(p) EXCEPT !.alive = FALSE]]
    BY DEF Reap, p
  <2> QED BY <2>2, <2>3
<1> HIDE DEF p
<1>3. /\ h \in ProcRec /\ h.life = "exited"
      /\ h.pending = proc[p].pending /\ h.inbox = proc[p].inbox
      /\ h.out = proc[p].out /\ h.nextId = proc[p].nextId
  BY <1>0, <1>1, ProcTypes DEF ProcRec
<1>4. NewEngine(p) \in Engine
  BY <1>1, FreshEngine DEF EngineOK
<1> HIDE DEF h
<1>5. /\ i \in ProcRec /\ i.life = "exited" /\ i.engine = NewEngine(p)
      /\ i.pending = proc[p].pending /\ i.inbox = proc[p].inbox
      /\ i.out = proc[p].out /\ i.nextId = proc[p].nextId
  BY <1>3, <1>4 DEF ProcRec
<1> HIDE DEF i
<1>6. /\ r \in ProcRec /\ r.life = "exited" /\ r.engine = NewEngine(p)
      /\ r.pending = proc[p].pending /\ r.inbox = proc[p].inbox
      /\ r.out = proc[p].out /\ r.nextId = proc[p].nextId
  BY <1>5 DEF ProcRec
<1> HIDE DEF r
<1>7. ASSUME NEW q \in Procs
      PROVE  proc'[q] = IF q = p THEN r ELSE proc[q]
  BY <1>0, <1>2 DEF TypeInv
<1>8. proc' \in [Procs -> ProcRec]
  BY <1>0, <1>2, <1>6 DEF TypeInv
<1>9. \A q \in Procs : Spared(q)
  BY <1>0, <1>1, <1>6, <1>7, ProcTypes DEF Spared, Grows, Untouched
<1>10. InOrder'
  BY <1>0, <1>1, <1>6, <1>7 DEF InOrder, Started
<1>11. Living' = {}
  BY <1>0, <1>1, <1>6, <1>7, ProcBound DEF Living, OneEngine, p, Procs
<1>12. OneEngine'
  BY <1>11 DEF OneEngine
<1>13. ASSUME NEW pc \in {"spawn", "stopped"}, GoTo(c, pc), lifecycle' = IF pc = "spawn" THEN c ELSE Nobody,
              UNCHANGED <<running, client>>
       PROVE  IInv'
  <2>0. pc \in CallPoints
    BY DEF CallPoints
  <2>1. PICK k : Kept(c, k) /\ k.pc = pc /\ k.answer = call[c].answer
    BY <1>0, <1>13, <2>0, GoToIs
  <2>2. TypeInv' /\ call'[c] = k /\ OthersStay(c)
    BY <1>0, <1>8, <1>13, <2>1 DEF TypeInv, Kept, OthersStay
  <2>3. QuietFor(c) /\ Entitled(c)
    BY <1>1, <2>1, <2>2 DEF QuietFor, Waiting, Has, Entitled
  <2>4. CallerFits(c)'
    BY <1>1, <1>13, <2>1, <2>2 DEF CallerFits, Engaged, Waiting, Has
  <2>5. SessionKept(c) /\ ClientKept
    BY <1>13, <2>1, <2>2 DEF SessionKept, ClientKept, Connecting, Kept
  <2>6. Known'
    BY <1>1, <1>13 DEF Known
  <2> QED BY <1>9, <1>10, <1>12, <2>2, <2>3, <2>4, <2>5, <2>6, CallerMoves
<1>14. ASSUME Return(c), lifecycle' = Nobody, UNCHANGED <<running, client>> PROVE IInv'
  <2>2. TypeInv' /\ call'[c] = Idle /\ OthersStay(c)
    BY <1>0, <1>8, <1>14, IdleTypes DEF TypeInv, Return, OthersStay
  <2>3. QuietFor(c) /\ Entitled(c)
    BY <1>1, <2>2, IdleTypes DEF QuietFor, Waiting, Has, Entitled
  <2>4. CallerFits(c)'
    BY <2>2, IdleTypes DEF CallerFits, Engaged, Waiting, Has
  <2>5. SessionKept(c) /\ ClientKept
    BY <1>14, <2>2, IdleTypes DEF SessionKept, ClientKept, Connecting
  <2>6. Known'
    BY <1>1, <1>14 DEF Known
  <2> QED BY <1>9, <1>10, <1>12, <2>2, <2>3, <2>4, <2>5, <2>6, CallerMoves
<1> QED BY <1>1, <1>13, <1>14 DEF Reap

LEMMA SpawnBegins ==
    ASSUME IInv, NEW c \in Callers, Spawn(c)
    PROVE  IInv'
<1>0. /\ TypeInv /\ CallerFits(c) /\ OneEngine /\ InOrder /\ Unstarted /\ c # Nobody
      /\ Engines /\ SessionFits(c) /\ Sessions /\ ClientRec(client)
  BY CallerNames DEF IInv, Order, Mail, TypeInv, Locks, Sessions, Callers
<1>1. /\ call[c].pc = "spawn" /\ call[c].op = "start" /\ lifecycle = c /\ running = 0
      /\ call[c].answer.kind = "none" /\ UNCHANGED <<lifecycle, client>>
  BY <1>0 DEF Spawn, At, CallerFits
<1>2. PICK n \in 0 .. MaxProcs : Started = 1 .. n
  BY <1>0 DEF InOrder
<1>3. Cardinality(Started) = n
  BY <1>2, FS_Interval, ProcBound
<1> DEFINE p == n + 1
<1>4. /\ p \in Procs /\ running' = p
      /\ proc' = [proc EXCEPT ![p] = [NotStarted(p) EXCEPT
                        !.life = "up", !.alive = TRUE, !.stdin = "open"]]
      /\ call' = [call EXCEPT ![c].pc = "dispatch", ![c].req = Hello]
  BY <1>3 DEF Spawn
<1>5. p \notin Started
  BY <1>2
<1> HIDE DEF p
<1>6. proc[p] = NotStarted(p)
  BY <1>0, <1>4, <1>5 DEF Started, Unstarted
<1> DEFINE h == [proc[p] EXCEPT !.life = "up"]
           i == [h EXCEPT !.alive = TRUE]
           r == [i EXCEPT !.stdin = "open"]
<1>7. proc' = [proc EXCEPT ![p] = r]
  <2>1. proc[p] \in ProcRec
    BY <1>0, <1>4, ProcTypes
  <2>2. [NotStarted(p) EXCEPT !.life = "up", !.alive = TRUE, !.stdin = "open"] = r
    BY <1>6, <2>1 DEF ProcRec
  <2> QED BY <1>4, <2>2
<1>8. /\ h \in ProcRec /\ h.life = "up" /\ h.pending = proc[p].pending /\ h.inbox = proc[p].inbox
      /\ h.out = proc[p].out /\ h.nextId = proc[p].nextId /\ h.engine = proc[p].engine
  BY <1>0, <1>4, ProcTypes DEF ProcRec
<1> HIDE DEF h
<1>9. /\ i \in ProcRec /\ i.life = "up" /\ i.pending = proc[p].pending /\ i.inbox = proc[p].inbox
      /\ i.out = proc[p].out /\ i.nextId = proc[p].nextId /\ i.engine = proc[p].engine
  BY <1>8 DEF ProcRec
<1> HIDE DEF i
<1>10. /\ r \in ProcRec /\ r.life = "up" /\ r.pending = proc[p].pending /\ r.inbox = proc[p].inbox
       /\ r.out = proc[p].out /\ r.nextId = proc[p].nextId /\ r.engine = proc[p].engine
  BY <1>9 DEF ProcRec
<1> HIDE DEF r
<1>11. ASSUME NEW q \in Procs
       PROVE  proc'[q] = IF q = p THEN r ELSE proc[q]
  BY <1>0, <1>7 DEF TypeInv
<1>12. PICK k : Dispatching(c, k, Hello, call[c].session)
  <2> DEFINE s == call[c].session
  <2>1. s \in Session /\ Hello \in Requests
    BY <1>0, CallTypes, CommandsAsked
  <2> HIDE DEF Hello
  <2>2. \E k : Dispatching(c, k, Hello, s)
    BY <1>0, <1>4, <2>1, DispatchingIs
  <2> QED BY <2>2
<1>13. TypeInv' /\ call'[c] = k /\ OthersStay(c)
  <2>1. proc' \in [Procs -> ProcRec]
    BY <1>0, <1>4, <1>7, <1>10 DEF TypeInv
  <2>2. call' \in [Callers -> CallRec] /\ call'[c] = k /\ OthersStay(c)
    BY <1>0, <1>12 DEF TypeInv, Dispatching, OthersStay
  <2>3. running' \in 0 .. MaxProcs
    BY <1>4, ProcBound DEF Procs
  <2> QED BY <1>0, <1>1, <2>1, <2>2, <2>3 DEF TypeInv
<1>14. proc[p].life = "none"
  BY <1>6, NothingYet
<1>15. \A q \in Procs : Spared(q)
  BY <1>0, <1>10, <1>11, <1>14, ProcTypes DEF Spared, Grows, Untouched
<1>16. InOrder'
  <2>1. Started' = Started \cup {p}
    BY <1>4, <1>10, <1>11 DEF Started
  <2>2. Started' = 1 .. p
    BY <1>2, <2>1 DEF p
  <2>3. p \in 0 .. MaxProcs
    BY <1>4, ProcBound DEF Procs
  <2> QED BY <2>2, <2>3 DEF InOrder
<1>17. OneEngine'
  <2>1. \A q \in Living : FALSE
    BY <1>0, <1>1, ProcBound DEF OneEngine, Living, Procs
  <2> QED BY <1>4, <1>11, <2>1 DEF OneEngine, Living
<1>18. Known'
  BY <1>4, <1>10, <1>11 DEF Known
<1>19. QuietFor(c) /\ Entitled(c)
  BY <1>1, <1>12, <1>13 DEF QuietFor, Waiting, Has, Entitled, Dispatching
<1>20. CallerFits(c)'
  <2>1. running' # 0
    BY <1>4 DEF Procs
  <2> QED BY <1>1, <1>12, <1>13, <2>1 DEF CallerFits, Engaged, Waiting, Has, Dispatching
<1>21. SessionKept(c) /\ ClientKept
  BY <1>1, <1>12, <1>13 DEF SessionKept, ClientKept, Connecting, Dispatching
<1> QED BY <1>13, <1>15, <1>16, <1>17, <1>18, <1>19, <1>20, <1>21, CallerMoves

-----------------------------------------------------------------------------
(* dispatch(): the number, the waiter and the line                         *)

LEMMA SameCallers ==
    ASSUME IInv, NEW c \in Callers, OthersStay(c), TypeInv',
           UNCHANGED <<running, lifecycle, client>>, CallerFits(c)',
           \A p \in Procs : Grows(p) /\ proc'[p].life = proc[p].life /\ proc'[p].engine = proc[p].engine
                            /\ (proc'[p].life = "none" => proc'[p] = proc[p]),
           call[c].pc # "reap"
    PROVE  Order'
<1>0. Order /\ Locks /\ Unstarted /\ Engines /\ Known /\ running \in 0 .. MaxProcs
  BY DEF IInv, Order, TypeInv
<1>1. Locks'
  BY LocksKept DEF Entitled
<1>2. OneEngine' /\ InOrder'
  <2>1. NoneBegins
    BY DEF NoneBegins
  <2> QED BY <2>1, OneEngineKept DEF Entitled
<1>3. Engines'
  BY <1>0 DEF Engines
<1>4. Unstarted'
  BY <1>0 DEF Unstarted
<1>5. Known'
  BY <1>0, ProcBound DEF Known, Procs
<1> QED BY <1>1, <1>2, <1>3, <1>4, <1>5 DEF Order

LEMMA TimeoutEnds ==
    ASSUME IInv, NEW c \in Callers, Timeout(c)
    PROVE  IInv'
<1>0. TypeInv /\ CallerFits(c) /\ Pending /\ Unstarted
  BY DEF IInv, Order, Mail, Locks
<1> DEFINE p == call[c].proc
           left == {w \in proc[p].pending : w.id # call[c].id}
           r == [proc[p] EXCEPT !.pending = left]
<1>1. Waiting(c) /\ call[c].pc = "wait" /\ p \in Procs /\ proc[p].life # "none"
  BY <1>0, CallTypes, ProcBound DEF Timeout, CallerFits, Engaged, Procs, Waiting
<1>2. PICK k : Kept(c, k) /\ k.pc = "wait" /\ k.answer.kind = "failed"
  BY <1>0, AnsweredIs DEF Timeout
<1>3. proc' = [proc EXCEPT ![p] = r] /\ UNCHANGED <<running, lifecycle, client>>
  BY <1>0, <1>1 DEF Timeout, TypeInv, ProcRec
<1> HIDE DEF p
<1>4. /\ r \in ProcRec /\ r.life = proc[p].life /\ r.engine = proc[p].engine
      /\ r.pending = left /\ r.inbox = proc[p].inbox
      /\ r.out = proc[p].out /\ r.nextId = proc[p].nextId
  BY <1>0, <1>1, ProcTypes DEF ProcRec
<1> HIDE DEF r, left
<1>5. ASSUME NEW q \in Procs PROVE proc'[q] = IF q = p THEN r ELSE proc[q]
  BY <1>0, <1>3 DEF TypeInv
<1>6. call'[c] = k /\ OthersStay(c)
  BY <1>0, <1>2 DEF TypeInv, OthersStay, Kept
<1>7. TypeInv'
  BY <1>0, <1>1, <1>2, <1>3, <1>4 DEF TypeInv, Kept
<1>8. ASSUME NEW q \in Procs
      PROVE  /\ Grows(q) /\ LinesKept(q)
             /\ proc'[q].life = proc[q].life /\ proc'[q].engine = proc[q].engine
             /\ proc'[q].life = "none" => proc'[q] = proc[q]
  <2>1. proc[q].nextId \in Nat /\ proc[q].engine.session \in Nat
    BY <1>0, ProcTypes
  <2>2. /\ proc'[q].life = proc[q].life /\ proc'[q].engine = proc[q].engine
        /\ proc'[q].inbox = proc[q].inbox /\ proc'[q].out = proc[q].out
        /\ proc'[q].nextId = proc[q].nextId
        /\ q # p => proc'[q] = proc[q]
    BY <1>4, <1>5
  <2>3. Grows(q) /\ LinesKept(q)
    BY <2>1, <2>2 DEF Grows, LinesKept
  <2> QED BY <1>1, <2>2, <2>3
<1>9. ~Waiting(c)' /\ ~Has(c, Replied)'
  BY <1>2, <1>6 DEF Waiting, Has, Replied
<1>10. WaitersLeave
  <2>1. \A o \in Callers : Waiting(o)' => Waiting(o) /\ call'[o] = call[o]
    BY <1>6, <1>9 DEF OthersStay, Waiting
  <2>2. ASSUME NEW q \in Procs, NEW w \in proc[q].pending
        PROVE  w \in proc'[q].pending <=> Waiting(w.caller)'
    <3>1. /\ w.caller \in Callers /\ Waiting(w.caller)
          /\ call[w.caller].proc = q /\ call[w.caller].id = w.id
      BY <1>0, <2>2, ProcTypes DEF Pending, Waiter
    <3>2. CASE w.caller = c
      <4>1. q = p /\ w.id = call[c].id
        BY <3>1, <3>2 DEF p
      <4> QED BY <1>4, <1>5, <1>9, <3>2, <4>1 DEF left
    <3>3. CASE w.caller # c
      <4>1. Waiting(w.caller)'
        BY <1>6, <3>1, <3>3 DEF OthersStay, Waiting
      <4>2. q = p => w.id # call[c].id
        <5>1. SUFFICES ASSUME q = p, w.id = call[c].id PROVE FALSE
          OBVIOUS
        <5>2. [id |-> call[c].id, caller |-> c] \in proc[p].pending
          BY <1>1 DEF IInv, Mail, Waits, p
        <5> DEFINE v == [id |-> call[c].id, caller |-> c]
        <5>3. v.id = w.id /\ v.caller = c
          BY <5>1
        <5>4. v = w
          BY <1>0, <1>1, <5>1, <5>2, <5>3 DEF Pending
        <5> QED BY <3>3, <5>3, <5>4
      <4> QED BY <1>4, <1>5, <4>1, <4>2 DEF left
    <3> QED BY <3>2, <3>3
  <2>3. ASSUME NEW q \in Procs PROVE proc'[q].pending \subseteq proc[q].pending
    BY <1>4, <1>5 DEF left
  <2>4. ASSUME NEW q \in Procs
        PROVE  proc'[q].pending = {w \in proc[q].pending : Waiting(w.caller)'}
    BY <2>2, <2>3
  <2> QED BY <2>1, <2>4 DEF WaitersLeave
<1>11. \A o \in Callers : AnswerKept(o) /\ SessionKept(o)
  BY <1>2, <1>6, <1>9 DEF OthersStay, AnswerKept, SessionKept, Has, Connecting, Kept
<1>12. Mail'
  BY <1>3, <1>7, <1>8, <1>10, <1>11, MailKept DEF ClientKept
<1>13. CallerFits(c)'
  BY <1>0, <1>1, <1>2, <1>3, <1>6, <1>9 DEF CallerFits, Engaged, Kept
<1>14. Order'
  BY <1>1, <1>3, <1>6, <1>7, <1>8, <1>13, SameCallers
<1> QED BY <1>7, <1>12, <1>14 DEF IInv

LEMMA InsertWaits ==
    ASSUME IInv, NEW c \in Callers, Insert(c)
    PROVE  IInv'
<1>0. /\ TypeInv /\ CallerFits(c) /\ Waits /\ Pending /\ Written /\ Read /\ Own /\ Sessions
      /\ Unstarted
  BY DEF IInv, Order, Mail, Locks
<1> DEFINE p == call[c].proc
           id == proc[p].nextId + 1
<1>1. /\ call[c].pc = "insert" /\ ~Waiting(c) /\ call[c].answer.kind = "none"
      /\ p \in Procs /\ proc[p].life # "none" /\ UNCHANGED <<running, lifecycle, client>>
  BY <1>0, CallTypes, ProcBound DEF Insert, CallerFits, Engaged, Procs, Waiting
<1>2. id \in Nat /\ proc[p].nextId \in Nat /\ proc[p].nextId < id
  BY <1>0, <1>1, ProcTypes
<1>3. CASE /\ proc' = [proc EXCEPT ![p].nextId = id]
           /\ Answered(c, "failed")
  <2> DEFINE r == [proc[p] EXCEPT !.nextId = id]
  <2>1. proc' = [proc EXCEPT ![p] = r]
    BY <1>0, <1>1, <1>3 DEF TypeInv
  <2>2. PICK k : Kept(c, k) /\ k.pc = "wait" /\ k.answer.kind = "failed"
    BY <1>0, <1>3, AnsweredIs
  <2> HIDE DEF p, id
  <2>3. /\ r \in ProcRec /\ r.life = proc[p].life /\ r.engine = proc[p].engine
        /\ r.pending = proc[p].pending /\ r.inbox = proc[p].inbox
        /\ r.out = proc[p].out /\ r.nextId = id
    BY <1>0, <1>1, <1>2, ProcTypes DEF ProcRec
  <2> HIDE DEF r
  <2>4. ASSUME NEW q \in Procs PROVE proc'[q] = IF q = p THEN r ELSE proc[q]
    BY <1>0, <2>1 DEF TypeInv
  <2>5. call'[c] = k /\ OthersStay(c)
    BY <1>0, <2>2 DEF TypeInv, OthersStay, Kept
  <2>6. TypeInv'
    BY <1>0, <1>1, <2>1, <2>2, <2>3 DEF TypeInv, Kept
  <2>7. ASSUME NEW q \in Procs
        PROVE  /\ Grows(q) /\ Untouched(q)
               /\ proc'[q].life = proc[q].life /\ proc'[q].engine = proc[q].engine
               /\ proc'[q].life = "none" => proc'[q] = proc[q]
    <3>1. proc[q].nextId \in Nat /\ proc[q].engine.session \in Nat
      BY <1>0, ProcTypes
    <3>2. CASE q = p
      <4>1. proc'[q] = r
        BY <2>4, <3>2
      <4> QED BY <1>1, <1>2, <2>3, <3>1, <3>2, <4>1 DEF Grows, Untouched
    <3>3. CASE q # p
      <4>1. proc'[q] = proc[q]
        BY <2>4, <3>3
      <4> QED BY <3>1, <4>1 DEF Grows, Untouched
    <3> QED BY <3>2, <3>3
  <2>8. QuietFor(c)
    BY <1>1, <2>2, <2>5 DEF QuietFor, Waiting, Has, Replied
  <2>9. Mail'
    <3>1. SessionKept(c) /\ ClientKept
      BY <1>1, <2>2, <2>5 DEF SessionKept, ClientKept, Connecting, Kept
    <3> QED BY <2>6, <2>7, <2>8, <3>1, QuietMail
  <2>10. CallerFits(c)'
    BY <1>0, <1>1, <2>2, <2>5, <2>8 DEF CallerFits, Engaged, Kept, QuietFor
  <2>11. Order'
    BY <1>1, <2>5, <2>6, <2>7, <2>10, SameCallers
  <2> QED BY <2>6, <2>9, <2>11 DEF IInv
<1> DEFINE w0 == [id |-> id, caller |-> c]
           cmd == [id |-> id, op |-> call[c].req, epoch |-> p, session |-> call[c].session.n]
<1>4. CASE /\ proc' = [proc EXCEPT ![p].nextId = id,
                                   ![p].pending = @ \cup {w0},
                                   ![p].inbox = Append(@, cmd)]
           /\ call' = [call EXCEPT ![c].pc = "wait", ![c].id = id]
  <2> DEFINE pending == proc[p].pending \cup {w0}
             inbox == Append(proc[p].inbox, cmd)
             h == [proc[p] EXCEPT !.nextId = id]
             i == [h EXCEPT !.pending = pending]
             r == [i EXCEPT !.inbox = inbox]
             j == [call[c] EXCEPT !.pc = "wait"]
             k == [j EXCEPT !.id = id]
  <2>1. proc' = [proc EXCEPT ![p] = r]
    <3>1. proc[p] \in ProcRec
      BY <1>0, <1>1, ProcTypes
    <3> QED BY <1>0, <1>1, <1>4, <3>1 DEF TypeInv, ProcRec
  <2>2. call' = [call EXCEPT ![c] = k]
    BY <1>0, <1>4, CallTypes DEF CallRec, TypeInv
  <2>3. pending \in SUBSET Waiter /\ inbox \in Seq(Cmd)
    <3>1. w0 \in Waiter
      BY <1>2 DEF Waiter
    <3>2. call[c].session.n \in Nat
      BY <1>0, CallTypes DEF Session
    <3>3. cmd \in Cmd
      <4> HIDE DEF id, p
      <4> QED BY <1>0, <1>1, <1>2, <3>2, CallTypes DEF Cmd
    <3> HIDE DEF w0, cmd
    <3> QED BY <1>0, <1>1, <3>1, <3>3, ProcTypes
  <2> HIDE DEF p, id
  <2>4. /\ j \in CallRec /\ j.pc = "wait" /\ j.op = call[c].op /\ j.session = call[c].session
        /\ j.answer = call[c].answer /\ j.req = call[c].req /\ j.proc = call[c].proc
    BY <1>0, CallTypes DEF CallRec, CallPoints
  <2> HIDE DEF j
  <2>5. /\ k \in CallRec /\ k.pc = "wait" /\ k.op = call[c].op /\ k.session = call[c].session
        /\ k.answer = call[c].answer /\ k.req = call[c].req /\ k.proc = p /\ k.id = id
    BY <1>2, <2>4 DEF CallRec, p
  <2> HIDE DEF k, pending, inbox
  <2>6. /\ h \in ProcRec /\ h.life = proc[p].life /\ h.engine = proc[p].engine
        /\ h.out = proc[p].out /\ h.nextId = id
    BY <1>0, <1>1, <1>2, ProcTypes DEF ProcRec
  <2> HIDE DEF h
  <2>7. /\ i \in ProcRec /\ i.life = proc[p].life /\ i.engine = proc[p].engine
        /\ i.out = proc[p].out /\ i.nextId = id /\ i.pending = pending
    BY <2>3, <2>6 DEF ProcRec
  <2> HIDE DEF i
  <2>8. /\ r \in ProcRec /\ r.life = proc[p].life /\ r.engine = proc[p].engine
        /\ r.out = proc[p].out /\ r.nextId = id /\ r.pending = pending /\ r.inbox = inbox
    BY <2>3, <2>7 DEF ProcRec
  <2> HIDE DEF r
  <2>9. ASSUME NEW q \in Procs PROVE proc'[q] = IF q = p THEN r ELSE proc[q]
    BY <1>0, <2>1 DEF TypeInv
  <2>10. call'[c] = k /\ OthersStay(c)
    BY <1>0, <2>2 DEF TypeInv, OthersStay
  <2>11. TypeInv'
    BY <1>0, <1>1, <2>1, <2>2, <2>5, <2>8 DEF TypeInv
  <2>12. ASSUME NEW q \in Procs
         PROVE  /\ Grows(q) /\ proc'[q].life = proc[q].life /\ proc'[q].engine = proc[q].engine
                /\ proc'[q].life = "none" => proc'[q] = proc[q]
    <3>1. proc[q].nextId \in Nat /\ proc[q].engine.session \in Nat
      BY <1>0, ProcTypes
    <3>2. CASE q = p
      <4>1. proc'[q] = r
        BY <2>9, <3>2
      <4> QED BY <1>1, <1>2, <2>8, <3>1, <3>2, <4>1 DEF Grows
    <3>3. CASE q # p
      <4>1. proc'[q] = proc[q]
        BY <2>9, <3>3
      <4> QED BY <3>1, <4>1 DEF Grows
    <3> QED BY <3>2, <3>3
  <2>13. CallerFits(c)'
    <3>1. Engaged(c)
      BY <1>1 DEF Engaged
    <3> QED BY <1>0, <1>1, <2>5, <2>10, <2>12, <3>1 DEF CallerFits, p
  <2>14. Order'
    BY <1>1, <2>10, <2>11, <2>12, <2>13, SameCallers
  <2>15. Waiting(c)' /\ ~Has(c, Replied)'
    BY <1>1, <2>5, <2>10 DEF Waiting, Has, Replied
  <2>16. ASSUME NEW o \in Callers, o # c
         PROVE  call'[o] = call[o] /\ (Waiting(o)' <=> Waiting(o))
    BY <2>10, <2>16 DEF OthersStay, Waiting
  <2>17. ASSUME NEW q \in Procs, NEW w \in proc[q].pending
         PROVE  w.caller # c /\ w.caller \in Callers /\ w.id \in Nat /\ (q = p => w.id # id)
    <3>1. w.caller \in Callers /\ Waiting(w.caller) /\ w.id \in Nat /\ w.id <= proc[q].nextId
      BY <1>0, <2>17, ProcTypes DEF Pending, Waiter
    <3> QED BY <1>1, <1>2, <3>1
  <2>18. ASSUME NEW q \in Procs, NEW w \in proc'[q].pending
         PROVE  w \in proc[q].pending \/ (q = p /\ w = w0)
    BY <2>8, <2>9, <2>18 DEF pending
  <2>19. ASSUME NEW q \in Procs PROVE proc[q].pending \subseteq proc'[q].pending
    BY <2>8, <2>9 DEF pending
  <2>20. w0 \in proc'[p].pending /\ w0.id = id /\ w0.caller = c
    BY <1>1, <2>8, <2>9 DEF pending
  <2> HIDE DEF w0
  <2>21. Waits'
    <3> SUFFICES ASSUME NEW o \in Callers, Waiting(o)'
                 PROVE  ([id |-> call[o].id, caller |-> o] \in proc[call[o].proc].pending)'
      BY DEF Waits
    <3>1. CASE o = c
      BY <2>5, <2>10, <2>20, <3>1 DEF w0
    <3>2. CASE o # c
      <4>1. Waiting(o) /\ call'[o] = call[o]
        BY <2>16, <3>2
      <4>2. [id |-> call[o].id, caller |-> o] \in proc[call[o].proc].pending
        BY <1>0, <4>1 DEF Waits
      <4>3. call[o].proc \in Procs
        BY <1>0, <4>1, CallTypes, ProcBound DEF IInv, Order, Locks, CallerFits, Engaged, Procs
      <4> QED BY <2>19, <4>1, <4>2, <4>3
    <3> QED BY <3>1, <3>2
  <2>22. Pending'
    <3> SUFFICES ASSUME NEW q \in Procs, NEW w \in proc'[q].pending
                 PROVE  /\ Waiting(w.caller)' /\ call'[w.caller].proc = q /\ call'[w.caller].id = w.id
                        /\ w.id <= proc'[q].nextId
                        /\ \A v \in proc'[q].pending : v.id = w.id => v = w
      BY DEF Pending
    <3>1. proc[q].nextId \in Nat /\ proc'[q].nextId \in Nat /\ proc[q].nextId <= proc'[q].nextId
      <4>1. proc'[q].nextId = IF q = p THEN id ELSE proc[q].nextId
        BY <2>8, <2>9
      <4>2. proc[q].nextId \in Nat
        BY <1>0, ProcTypes
      <4> QED BY <1>2, <4>1, <4>2
    <3>2. CASE w \in proc[q].pending
      <4>1. /\ Waiting(w.caller) /\ call[w.caller].proc = q /\ call[w.caller].id = w.id
            /\ w.id <= proc[q].nextId
            /\ \A v \in proc[q].pending : v.id = w.id => v = w
        BY <1>0, <3>2 DEF Pending
      <4>2. w.caller \in Callers /\ w.caller # c /\ w.id \in Nat /\ (q = p => w.id # id)
        BY <2>17, <3>2
      <4>3. call'[w.caller] = call[w.caller] /\ Waiting(w.caller)'
        BY <2>16, <4>1, <4>2
      <4> QED BY <2>18, <2>20, <3>1, <4>1, <4>2, <4>3
    <3>3. CASE q = p /\ w = w0
      <4>1. \A v \in proc'[q].pending : v.id = w.id => v = w
        BY <2>17, <2>18, <2>20, <3>3
      <4>2. proc'[q].nextId = id
        BY <1>1, <2>8, <2>9, <3>3
      <4> QED BY <1>2, <2>5, <2>10, <2>15, <2>20, <3>3, <4>1, <4>2
    <3> QED BY <2>18, <3>2, <3>3
  <2>23. ASSUME NEW q \in Procs, NEW n, n \in Nat, n <= proc[q].nextId,
                NEW w \in proc'[q].pending, w.id = n
         PROVE  w \in proc[q].pending /\ call'[w.caller] = call[w.caller] /\ n <= proc'[q].nextId
    <3>1. ~(q = p /\ w = w0)
      BY <1>2, <2>20, <2>23
    <3>2. w \in proc[q].pending /\ w.caller \in Callers /\ w.caller # c
      BY <2>17, <2>18, <2>23, <3>1
    <3>3. n <= proc'[q].nextId
      <4>1. proc'[q].nextId = IF q = p THEN id ELSE proc[q].nextId
        BY <2>8, <2>9
      <4> QED BY <1>2, <2>23, <4>1
    <3> QED BY <2>16, <3>2, <3>3
  <2>24. ASSUME NEW q \in Procs PROVE proc[q].nextId \in Nat /\ proc'[q].nextId \in Nat
                                      /\ proc[q].nextId <= proc'[q].nextId
    <3>1. proc'[q].nextId = IF q = p THEN id ELSE proc[q].nextId
      BY <2>8, <2>9
    <3>2. proc[q].nextId \in Nat
      BY <1>0, ProcTypes
    <3> QED BY <1>2, <3>1, <3>2
  <2>25. ASSUME NEW q \in Procs, NEW d \in Cmd, CmdFits(q, d) PROVE CmdFits(q, d)'
    <3>1. d.id \in Nat
      BY DEF Cmd
    <3>2. d.id <= proc'[q].nextId
      BY <2>24, <2>25, <3>1 DEF CmdFits
    <3> QED BY <2>23, <2>25, <3>1, <3>2 DEF CmdFits
  <2>26. Written'
    <3> SUFFICES ASSUME NEW q \in Procs, NEW n \in 1 .. Len(proc'[q].inbox)
                 PROVE  CmdFits(q, proc[q].inbox[n])'
      BY DEF Written
    <3>0. proc[q].inbox \in Seq(Cmd)
      BY <1>0, ProcTypes
    <3>1. CASE q = p /\ n = Len(proc[p].inbox) + 1
      <4>1. proc'[p].inbox[n] = cmd
        BY <1>1, <2>8, <2>9, <3>0, <3>1 DEF inbox
      <4>2. cmd.id = id /\ cmd.op = call[c].req
        OBVIOUS
      <4>3. \A w \in proc'[p].pending : w.id = id => w = w0
        BY <1>1, <2>17, <2>18
      <4>4. proc'[p].nextId = id /\ call'[c].req = call[c].req
        BY <1>1, <2>5, <2>8, <2>9, <2>10
      <4> HIDE DEF cmd
      <4> QED BY <1>2, <2>20, <3>1, <4>1, <4>2, <4>3, <4>4 DEF CmdFits
    <3>2. CASE ~(q = p /\ n = Len(proc[p].inbox) + 1)
      <4>1. n \in 1 .. Len(proc[q].inbox) /\ proc'[q].inbox[n] = proc[q].inbox[n]
        <5>1. CASE q = p
          <6>1. Len(inbox) = Len(proc[p].inbox) + 1 /\ proc'[q].inbox = inbox
            BY <1>1, <2>8, <2>9, <3>0, <5>1 DEF inbox
          <6>2. n \in 1 .. Len(proc[p].inbox)
            BY <3>0, <3>2, <5>1, <6>1
          <6> QED BY <3>0, <5>1, <6>1, <6>2 DEF inbox
        <5>2. CASE q # p
          BY <2>9, <5>2
        <5> QED BY <5>1, <5>2
      <4>2. PICK d \in Cmd : d = proc[q].inbox[n]
        BY <3>0, <4>1
      <4>3. CmdFits(q, d)
        BY <1>0, <4>1, <4>2 DEF Written
      <4>4. CmdFits(q, d)'
        BY <2>25, <4>3
      <4> QED BY <4>1, <4>2, <4>4
    <3> QED BY <3>1, <3>2
  <2>27. Read'
    <3> SUFFICES ASSUME NEW q \in Procs, NEW n \in 1 .. Len(proc'[q].out)
                 PROVE  LineFits(q, proc[q].out[n])'
      BY DEF Read
    <3>0. proc[q].out \in Seq(Line) /\ proc'[q].out = proc[q].out
      BY <1>0, <2>8, <2>9, ProcTypes
    <3>1. PICK line \in Line : line = proc'[q].out[n] /\ line = proc[q].out[n]
      BY <3>0
    <3>2. LineFits(q, line)
      BY <1>0, <3>0, <3>1 DEF Read
    <3>3. LineFits(q, line)'
      <4>1. line.kind \in Replies => line.id \in Nat
        BY LineTypes
      <4>2. line.kind \in Replies => line.id <= proc'[q].nextId
        BY <2>24, <3>2, <4>1 DEF LineFits
      <4> QED BY <2>12, <2>23, <3>2, <4>1, <4>2 DEF LineFits
    <3> QED BY <3>1, <3>3
  <2>28. Own'
    <3> SUFFICES ASSUME NEW o \in Callers, Has(o, Replied)' PROVE OwnFits(o)'
      BY DEF Own, OwnFits
    <3>1. o # c /\ call'[o] = call[o] /\ Has(o, Replied)
      BY <2>15, <2>16 DEF Has
    <3>2. call[o].proc \in Procs /\ OwnFits(o)
      BY <1>0, <3>1, CallTypes, ProcBound DEF IInv, Order, Locks, CallerFits, Engaged, Procs, Own
    <3> QED BY <2>12, <3>1, <3>2 DEF OwnFits
  <2>29. Sessions'
    <3>1. ASSUME NEW s \in Session, FitsIn(proc, s) PROVE FitsIn(proc', s)
      BY <1>0, <2>11, <2>12, <3>1, FitsKept
    <3>2. client.session \in Session /\ client' = client
      BY <1>0, <1>1 DEF TypeInv, ClientRec
    <3>3. ASSUME NEW o \in Callers PROVE SessionFits(o)'
      <4>1. call'[o].op = call[o].op /\ call'[o].session = call[o].session
        BY <2>5, <2>10 DEF OthersStay
      <4>2. call[o].session \in Session
        BY <1>0, CallTypes
      <4> QED BY <1>0, <3>1, <4>1, <4>2 DEF Sessions, SessionFits
    <3> QED BY <1>0, <3>1, <3>2, <3>3 DEF Sessions
  <2> QED BY <2>11, <2>14, <2>21, <2>22, <2>26, <2>27, <2>28, <2>29 DEF IInv, Mail
<1>5. Insert(c) => \/ proc' = [proc EXCEPT ![p].nextId = id] /\ Answered(c, "failed")
                   \/ /\ proc' = [proc EXCEPT ![p].nextId = id,
                                              ![p].pending = @ \cup {w0},
                                              ![p].inbox = Append(@, cmd)]
                      /\ call' = [call EXCEPT ![c].pc = "wait", ![c].id = id]
  BY DEF Insert, Command
<1> QED BY <1>3, <1>4, <1>5

LEMMA CallersKeepIt ==
    ASSUME IInv, NEW c \in Callers, CallStep(c)
    PROVE  IInv'
<1>1. CASE Dispatch(c) \/ StartLocked(c) \/ SpawnFails(c) \/ StopLocked(c) \/ StopRefused(c)
           \/ StopReturns(c) \/ ConnectLocked(c) \/ ConnectSnapshot(c) \/ ConnectFails(c)
           \/ Connected(c) \/ ConnectReturns(c) \/ CheckSession(c) \/ SendReturns(c)
           \/ RefreshReturns(c)
  BY <1>1, CallersGoOn
<1>2. CASE Insert(c)
  BY <1>2, InsertWaits
<1>3. CASE Timeout(c)
  BY <1>3, TimeoutEnds
<1>4. CASE Reap(c)
  BY <1>4, ReapEnds
<1>5. CASE Spawn(c)
  BY <1>5, SpawnBegins
<1>6. CASE StartAnswered(c) \/ StartFailed(c) \/ StopAllowed(c) \/ ConnectHello(c)
  BY <1>6, HandshakesEnd
<1> QED BY <1>1, <1>2, <1>3, <1>4, <1>5, <1>6 DEF CallStep

-----------------------------------------------------------------------------
(* The processes and their threads                                         *)

(* A step of one process, or of a thread that belongs to it; who is        *)
(* answered waits no longer.                                               *)
Acts(p, r) ==
    /\ r \in ProcRec /\ proc' = [proc EXCEPT ![p] = r]
    /\ proc[p].life # "none" /\ r.life # "none"
    /\ r.life \in {"up", "hung"} => proc[p].life \in {"up", "hung"}
    /\ EngineOK(r.engine) /\ r.engine.epoch = p
    /\ UNCHANGED <<running, lifecycle>> /\ ClientRec(client') /\ client'.session = client.session
GivenAnswer(c) ==
    \/ call'[c] = call[c]
    \/ /\ Waiting(c) /\ call'[c] \in CallRec /\ call'[c].answer.kind # "none"
       /\ call'[c].pc = "wait" /\ call'[c].op = call[c].op /\ call'[c].req = call[c].req
       /\ call'[c].session = call[c].session /\ call'[c].proc = call[c].proc
       /\ call'[c].id = call[c].id

LEMMA ProcessOrder ==
    ASSUME IInv, NEW p \in Procs, NEW r, Acts(p, r), \A c \in Callers : GivenAnswer(c),
           call' = [c \in Callers |-> call'[c]]
    PROVE  /\ TypeInv' /\ Order' /\ proc'[p] = r
           /\ \A q \in Procs \ {p} : proc'[q] = proc[q] /\ Grows(q) /\ LinesKept(q)
           /\ \A c \in Callers : SessionKept(c)
<1>0. TypeInv /\ Locks /\ OneEngine /\ InOrder /\ Unstarted /\ Known /\ Engines
      /\ running \in 0 .. MaxProcs
  BY DEF IInv, Order, TypeInv
<1>1. proc'[p] = r /\ \A q \in Procs \ {p} : proc'[q] = proc[q]
  BY <1>0 DEF Acts, TypeInv
<1>2. TypeInv'
  <2>1. \A c \in Callers : call'[c] \in CallRec
    BY <1>0 DEF GivenAnswer, TypeInv
  <2>2. call' \in [Callers -> CallRec]
    BY <2>1
  <2> QED BY <1>0, <2>2 DEF Acts, TypeInv
<1>3. \A q \in Procs : proc'[q].life = "none" <=> proc[q].life = "none"
  BY <1>1 DEF Acts
<1>4. Locks'
  <2> SUFFICES ASSUME NEW c \in Callers PROVE CallerFits(c)'
    BY DEF Locks
  <2>1. CallerFits(c) /\ call[c].proc \in 0 .. MaxProcs
    BY <1>0, CallTypes DEF Locks
  <2>2. call[c].proc # 0 => (proc'[call[c].proc].life = "none" <=> proc[call[c].proc].life = "none")
    BY <1>3, <2>1, ProcBound DEF Procs
  <2>3. CASE call'[c] = call[c]
    BY <2>1, <2>2, <2>3 DEF CallerFits, Acts, Engaged, Waiting, Has
  <2>4. CASE call'[c] # call[c]
    <3>1. Waiting(c) /\ call[c].pc = "wait" /\ Engaged(c)
      BY <2>4 DEF GivenAnswer, Waiting, Engaged
    <3> QED BY <2>1, <2>2, <2>4, <3>1 DEF CallerFits, Acts, GivenAnswer
  <2> QED BY <2>3, <2>4
<1>5. Engines' /\ Unstarted' /\ InOrder' /\ Known'
  <2>1. Engines'
    BY <1>0, <1>1 DEF Engines, Acts, EngineOK
  <2>2. Unstarted'
    BY <1>0, <1>1 DEF Unstarted, Acts
  <2>3. Started' = Started
    BY <1>3 DEF Started
  <2>4. Known'
    BY <1>0, <1>3, ProcBound DEF Known, Acts, Procs
  <2> QED BY <1>0, <2>1, <2>2, <2>3, <2>4 DEF InOrder
<1>6. OneEngine'
  <2>1. ASSUME NEW c \in Callers, call[c].pc = "reap" PROVE call'[c] = call[c]
    BY <2>1 DEF GivenAnswer, Waiting
  <2>2. ASSUME NEW q \in Living' PROVE q \in Living
    BY <1>1, <2>2 DEF Living, Acts
  <2>3. lifecycle # Nobody => lifecycle \in Callers
    BY <1>0 DEF TypeInv
  <2> QED BY <1>0, <2>1, <2>2, <2>3 DEF OneEngine, Acts
<1>7. ASSUME NEW q \in Procs \ {p} PROVE Grows(q) /\ LinesKept(q)
  <2>1. proc[q].nextId \in Nat /\ proc[q].engine.session \in Nat
    BY <1>0, ProcTypes
  <2> QED BY <1>1, <2>1 DEF Grows, LinesKept
<1>8. ASSUME NEW c \in Callers PROVE SessionKept(c)
  BY DEF GivenAnswer, SessionKept, Connecting
<1> QED BY <1>1, <1>2, <1>4, <1>5, <1>6, <1>7, <1>8 DEF Order

(* Nobody gets an answer.                                                  *)
LEMMA ProcessMoves ==
    ASSUME IInv, NEW p \in Procs, NEW r, Acts(p, r), call' = call,
           r.pending = proc[p].pending, r.nextId = proc[p].nextId, LinesKept(p), Grows(p)
    PROVE  IInv'
<1>0. TypeInv /\ Pending
  BY DEF IInv, Mail
<1>1. (\A c \in Callers : GivenAnswer(c)) /\ call' = [c \in Callers |-> call'[c]]
  BY <1>0 DEF GivenAnswer, TypeInv
<1>2. /\ TypeInv' /\ Order' /\ proc'[p] = r
      /\ \A q \in Procs \ {p} : proc'[q] = proc[q] /\ Grows(q) /\ LinesKept(q)
      /\ \A c \in Callers : SessionKept(c)
  BY <1>1, ProcessOrder
<1>3. WaitersLeave
  <2>1. ASSUME NEW q \in Procs PROVE proc'[q].pending = {w \in proc[q].pending : Waiting(w.caller)'}
    <3>1. proc'[q].pending = proc[q].pending
      BY <1>2
    <3>2. \A w \in proc[q].pending : Waiting(w.caller)
      BY <1>0 DEF Pending
    <3> QED BY <3>1, <3>2 DEF Waiting
  <2> QED BY <2>1 DEF WaitersLeave, Waiting
<1>4. \A c \in Callers : AnswerKept(c)
  BY DEF AnswerKept, Has
<1>5. \A q \in Procs : Grows(q) /\ LinesKept(q)
  BY <1>2
<1>6. ClientKept
  BY DEF ClientKept, Acts
<1>7. Mail'
  BY <1>2, <1>3, <1>4, <1>5, <1>6, MailKept
<1> QED BY <1>2, <1>7 DEF IInv

(* Every waiter of the process gets an error.                              *)
LEMMA ProcessDrains ==
    ASSUME IInv, NEW p \in Procs, NEW r, Acts(p, r), DrainPending(p),
           r.pending = {}, r.nextId = proc[p].nextId, LinesKept(p), Grows(p)
    PROVE  IInv'
<1>0. TypeInv /\ Pending /\ Waits /\ Locks
  BY DEF IInv, Mail, Order
<1> DEFINE waiters == {w.caller : w \in proc[p].pending}
<1>1. /\ call' = [c \in Callers |-> call'[c]]
      /\ \A c \in Callers : call'[c] = IF c \in waiters
                                       THEN [call[c] EXCEPT !.answer = Answer("drained")]
                                       ELSE call[c]
  BY DEF DrainPending
<1>2. \A c \in waiters : Waiting(c) /\ call[c].proc = p
  BY <1>0 DEF Pending
<1>3. ASSUME NEW c \in Callers, Waiting(c), call[c].proc = p PROVE c \in waiters
  <2>1. [id |-> call[c].id, caller |-> c] \in proc[p].pending
    BY <1>0, <1>3 DEF Waits
  <2> QED BY <2>1
<1> HIDE DEF waiters
<1>4. ASSUME NEW c \in waiters, c \in Callers
      PROVE  /\ call'[c] \in CallRec /\ call'[c].answer.kind = "drained"
             /\ call'[c].pc = "wait" /\ call'[c].op = call[c].op /\ call'[c].req = call[c].req
             /\ call'[c].session = call[c].session /\ call'[c].proc = call[c].proc
             /\ call'[c].id = call[c].id
  <2>1. call[c] \in CallRec /\ call[c].pc = "wait"
    BY <1>0, <1>2, <1>4, CallTypes DEF Waiting
  <2>2. Answer("drained") \in [kind : {"none", "failed", "mismatch", "drained"}]
        /\ Answer("drained").kind = "drained"
    BY DEF Answer
  <2> HIDE DEF Answer
  <2> QED BY <1>1, <1>4, <2>1, <2>2 DEF CallRec
<1>5. \A c \in Callers : GivenAnswer(c)
  BY <1>1, <1>2, <1>4 DEF GivenAnswer
<1>6. /\ TypeInv' /\ Order' /\ proc'[p] = r
      /\ \A q \in Procs \ {p} : proc'[q] = proc[q] /\ Grows(q) /\ LinesKept(q)
      /\ \A c \in Callers : SessionKept(c)
  BY <1>1, <1>5, ProcessOrder
<1>7. WaitersLeave
  <2>1. \A c \in Callers : Waiting(c)' => Waiting(c) /\ call'[c] = call[c]
    BY <1>1, <1>4 DEF Waiting
  <2>2. ASSUME NEW q \in Procs \ {p}, NEW w \in proc[q].pending PROVE Waiting(w.caller)'
    <3>1. w.caller \in Callers /\ Waiting(w.caller) /\ call[w.caller].proc = q
      BY <1>0, <2>2, ProcTypes DEF Pending, Waiter
    <3>2. w.caller \notin waiters
      BY <1>2, <2>2, <3>1
    <3> QED BY <1>1, <3>1, <3>2 DEF Waiting
  <2>3. ASSUME NEW w \in proc[p].pending PROVE ~Waiting(w.caller)'
    <3>1. w.caller \in Callers /\ w.caller \in waiters
      BY <1>0, <2>3, ProcTypes DEF Waiter, waiters
    <3> QED BY <1>4, <3>1 DEF Waiting
  <2>4. ASSUME NEW q \in Procs PROVE proc'[q].pending = {w \in proc[q].pending : Waiting(w.caller)'}
    <3>1. CASE q = p
      BY <1>6, <2>3, <3>1
    <3>2. CASE q # p
      BY <1>6, <2>2, <3>2
    <3> QED BY <3>1, <3>2
  <2> QED BY <2>1, <2>4 DEF WaitersLeave
<1>8. \A c \in Callers : AnswerKept(c)
  BY <1>1, <1>4 DEF AnswerKept, Has, Replied
<1>9. \A q \in Procs : Grows(q) /\ LinesKept(q)
  BY <1>6
<1>10. ClientKept
  BY DEF ClientKept, Acts
<1>11. Mail'
  BY <1>6, <1>7, <1>8, <1>9, <1>10, MailKept
<1> QED BY <1>6, <1>11 DEF IInv

(* Everything of a process record but what a step changes.                 *)
SamePipes(k, r) == r.pending = k.pending /\ r.nextId = k.nextId /\ r.inbox = k.inbox /\ r.out = k.out

LEMMA EndedIs ==
    ASSUME TypeInv, NEW p \in Procs
    PROVE  /\ Ended(p) \in ProcRec /\ Ended(p).life = "exited" /\ SamePipes(proc[p], Ended(p))
           /\ EngineOK(Ended(p).engine) /\ Ended(p).engine.epoch = p
<1> DEFINE h == [proc[p] EXCEPT !.life = "exited"]
           r == [h EXCEPT !.engine = NewEngine(p)]
<1>0. EngineOK(NewEngine(p)) /\ NewEngine(p) \in Engine /\ NewEngine(p).epoch = p
  BY FreshEngine DEF EngineOK
<1>1. Ended(p) = r
  BY ProcTypes DEF Ended, ProcRec
<1>2. h \in ProcRec /\ h.life = "exited" /\ SamePipes(proc[p], h)
  BY ProcTypes DEF ProcRec, SamePipes
<1> HIDE DEF h
<1>3. r \in ProcRec /\ r.life = "exited" /\ SamePipes(proc[p], r) /\ r.engine = NewEngine(p)
  BY <1>0, <1>2 DEF ProcRec, SamePipes
<1> HIDE DEF r
<1> QED BY <1>0, <1>1, <1>3

LEMMA HostGoes ==
    ASSUME IInv, NEW p \in Procs,
           HostExits(p) \/ HostCrashes(p) \/ WatchdogKills(p) \/ HostHangs(p)
    PROVE  IInv'
<1>0. /\ TypeInv /\ Engines /\ ClientRec(client) /\ client' = client
      /\ call' = call /\ UNCHANGED <<running, lifecycle>> /\ proc[p].life \in {"up", "hung"}
  BY DEF IInv, Order, TypeInv, HostExits, HostCrashes, WatchdogKills, HostHangs
<1>1. ASSUME NEW r \in ProcRec, proc' = [proc EXCEPT ![p] = r], SamePipes(proc[p], r),
             EngineOK(r.engine), r.engine.epoch = p, r.life \in {"exited", "hung"}
      PROVE  IInv'
  <2>1. Acts(p, r)
    BY <1>0, <1>1 DEF Acts
  <2>2. proc'[p] = r /\ proc[p].nextId \in Nat
    BY <1>0, <1>1, ProcTypes DEF TypeInv
  <2>3. Grows(p) /\ LinesKept(p)
    BY <1>0, <1>1, <2>2 DEF Grows, LinesKept, SamePipes
  <2> QED BY <1>0, <1>1, <2>1, <2>3, ProcessMoves DEF SamePipes
<1>2. CASE HostExits(p) \/ HostCrashes(p) \/ WatchdogKills(p)
  BY <1>0, <1>1, <1>2, EndedIs DEF HostExits, HostCrashes, WatchdogKills
<1>3. CASE HostHangs(p)
  <2> DEFINE r == [proc[p] EXCEPT !.life = "hung"]
  <2>1. r \in ProcRec /\ r.life = "hung" /\ SamePipes(proc[p], r) /\ r.engine = proc[p].engine
    BY <1>0, ProcTypes DEF ProcRec, SamePipes
  <2>2. proc' = [proc EXCEPT ![p] = r]
    BY <1>0, <1>3 DEF HostHangs, TypeInv
  <2> HIDE DEF r
  <2>3. EngineOK(r.engine) /\ r.engine.epoch = p
    BY <1>0, <2>1, ProcTypes DEF Engines, EngineOK
  <2> QED BY <1>1, <2>1, <2>2, <2>3
<1> QED BY <1>2, <1>3

LEMMA PlaceInSum ==
    ASSUME NEW S, NEW s \in Seq(S), NEW t \in Seq(S), NEW k \in 1 .. Len(s \o t)
    PROVE  \/ k \in 1 .. Len(s) /\ (s \o t)[k] = s[k]
           \/ k - Len(s) \in 1 .. Len(t) /\ (s \o t)[k] = t[k - Len(s)]
<1>1. Len(s \o t) = Len(s) + Len(t) /\ Len(s) \in Nat /\ Len(t) \in Nat
  BY LenProperties, ConcatProperties
<1>2. CASE k <= Len(s)
  BY <1>1, <1>2, ConcatProperties
<1>3. CASE k > Len(s)
  BY <1>1, <1>3, ConcatProperties
<1> QED BY <1>1, <1>2, <1>3

LEMMA SnapshotTypes ==
    ASSUME NEW e \in Engine
    PROVE  Snapshot(e) \in Snapshots
BY DEF Snapshot, Snapshots, Engine

LEMMA EventsAreNoReplies ==
    ASSUME NEW event \in EventRec
    PROVE  event.kind \notin Replies /\ event \in Line
BY DEF EventRec, EventOf, Replies, Line

(* The lines that a step of the host adds.                                 *)
LEMMA HostWrites ==
    ASSUME IInv, NEW p \in Procs, proc[p].life = "up", NEW f, EngineOK(f), f.epoch = p,
           f.session >= proc[p].engine.session, NEW lines \in Seq(Line),
           NEW inbox \in Seq(Cmd),
           \A k \in 1 .. Len(inbox) : \E j \in 1 .. Len(proc[p].inbox) : inbox[k] = proc[p].inbox[j],
           \A k \in 1 .. Len(lines) : lines[k].kind \in Replies =>
              /\ lines[k].epoch = p /\ lines[k].id <= proc[p].nextId /\ lines[k].session <= f.session
              /\ \A w \in proc[p].pending : w.id = lines[k].id =>
                   (lines[k].kind = "hello" <=> call[w.caller].req = Hello),
           proc' = [proc EXCEPT ![p].engine = f, ![p].inbox = inbox, ![p].out = @ \o lines],
           UNCHANGED <<running, lifecycle, call, client>>
    PROVE  IInv'
<1>0. TypeInv /\ ClientRec(client) /\ f \in Engine
  BY DEF IInv, TypeInv, EngineOK
<1> DEFINE out == proc[p].out \o lines
           h == [proc[p] EXCEPT !.engine = f]
           i == [h EXCEPT !.inbox = inbox]
           r == [i EXCEPT !.out = out]
<1>1. proc' = [proc EXCEPT ![p] = r]
  <2>1. proc[p] \in ProcRec
    BY <1>0, ProcTypes
  <2> QED BY <1>0, <2>1 DEF TypeInv, ProcRec
<1>2. proc[p].out \in Seq(Line) /\ out \in Seq(Line)
  BY <1>0, ProcTypes
<1>3. /\ h \in ProcRec /\ h.life = proc[p].life /\ h.engine = f /\ h.pending = proc[p].pending
      /\ h.nextId = proc[p].nextId
  <2>1. proc[p] \in ProcRec
    BY <1>0, ProcTypes
  <2> QED BY <1>0, <2>1 DEF ProcRec
<1> HIDE DEF h, out
<1>4. /\ i \in ProcRec /\ i.life = proc[p].life /\ i.engine = f /\ i.pending = proc[p].pending
      /\ i.nextId = proc[p].nextId /\ i.inbox = inbox
  BY <1>3 DEF ProcRec
<1> HIDE DEF i
<1>5. /\ r \in ProcRec /\ r.life = proc[p].life /\ r.engine = f /\ r.pending = proc[p].pending
      /\ r.nextId = proc[p].nextId /\ r.inbox = inbox /\ r.out = out
  BY <1>2, <1>4 DEF ProcRec
<1> HIDE DEF r
<1>6. Acts(p, r)
  BY <1>0, <1>1, <1>5 DEF Acts
<1>7. proc'[p] = r /\ proc[p].nextId \in Nat
  BY <1>0, <1>1, ProcTypes DEF TypeInv
<1>8. Grows(p)
  BY <1>5, <1>7 DEF Grows
<1>9. LinesKept(p)
  <2>1. ASSUME NEW k \in 1 .. Len(out)
        PROVE  \/ \E j \in 1 .. Len(proc[p].out) : out[k] = proc[p].out[j]
               \/ NewLineFits(p, out[k])
    <3>1. \/ k \in 1 .. Len(proc[p].out) /\ out[k] = proc[p].out[k]
          \/ k - Len(proc[p].out) \in 1 .. Len(lines) /\ out[k] = lines[k - Len(proc[p].out)]
      BY <1>2, <2>1, PlaceInSum DEF out
    <3>2. CASE k \in 1 .. Len(proc[p].out) /\ out[k] = proc[p].out[k]
      BY <3>2
    <3>3. CASE k - Len(proc[p].out) \in 1 .. Len(lines) /\ out[k] = lines[k - Len(proc[p].out)]
      <4>1. NewLineFits(p, out[k])
        BY <1>5, <1>7, <3>3 DEF NewLineFits
      <4> QED BY <4>1
    <3> QED BY <3>1, <3>2, <3>3
  <2>2. \A k \in 1 .. Len(proc'[p].inbox) :
          \E j \in 1 .. Len(proc[p].inbox) : proc'[p].inbox[k] = proc[p].inbox[j]
    BY <1>5, <1>7
  <2>3. proc'[p].out = out
    BY <1>5, <1>7
  <2> QED BY <2>1, <2>2, <2>3 DEF LinesKept
<1> QED BY <1>5, <1>6, <1>8, <1>9, ProcessMoves

LEMMA EventsAreLines ==
    ASSUME NEW a \in Seq(EventRec)
    PROVE  a \in Seq(Line) /\ \A k \in 1 .. Len(a) : a[k].kind \notin Replies
<1>1. EventRec \subseteq Line
  BY DEF Line
<1>2. a \in Seq(Line)
  BY <1>1
<1>3. ASSUME NEW k \in 1 .. Len(a) PROVE a[k].kind \notin Replies
  <2>1. a[k] \in EventRec
    OBVIOUS
  <2> QED BY <2>1, EventsAreNoReplies
<1> QED BY <1>2, <1>3

LEMMA HostTicks ==
    ASSUME IInv, NEW p \in Procs, HostTick(p)
    PROVE  IInv'
<1>0. TypeInv /\ Engines /\ proc[p].life = "up"
  BY DEF IInv, Order, HostTick
<1>1. EngineOK(proc[p].engine) /\ proc[p].engine.epoch = p /\ proc[p].engine.session \in Nat
  BY <1>0, ProcTypes DEF Engines, EngineOK
<1>2. PICK t \in Ticks(proc[p].engine) :
         proc' = [proc EXCEPT ![p].engine = t.e, ![p].out = @ \o t.events]
  BY DEF HostTick
<1>3. Elapses(proc[p].engine, t)
  BY <1>1, TimeElapses
<1> DEFINE f == t.e
           lines == t.events
           inbox == proc[p].inbox
<1>4. /\ EngineOK(f) /\ f.epoch = p /\ f.session >= proc[p].engine.session
      /\ lines \in Seq(Line) /\ \A k \in 1 .. Len(lines) : lines[k].kind \notin Replies
  BY <1>1, <1>3, EventsAreLines DEF Elapses
<1>5. proc' = [proc EXCEPT ![p].engine = f, ![p].inbox = inbox, ![p].out = @ \o lines]
  <2>1. proc[p] \in ProcRec
    BY <1>0, ProcTypes
  <2>2. [proc[p] EXCEPT !.engine = f, !.inbox = inbox, !.out = @ \o lines]
          = [proc[p] EXCEPT !.engine = f, !.out = @ \o lines]
    BY <2>1 DEF ProcRec
  <2>3. proc' = [proc EXCEPT ![p] = [proc[p] EXCEPT !.engine = f, !.out = @ \o lines]]
    BY <1>0, <1>2 DEF TypeInv
  <2>4. [proc EXCEPT ![p].engine = f, ![p].inbox = inbox, ![p].out = @ \o lines]
          = [proc EXCEPT ![p] = [proc[p] EXCEPT !.engine = f, !.inbox = inbox, !.out = @ \o lines]]
    BY <1>0 DEF TypeInv
  <2> QED BY <2>2, <2>3, <2>4
<1>6. UNCHANGED <<running, lifecycle, call, client>>
  BY DEF HostTick
<1> HIDE DEF f, lines
<1>7. inbox \in Seq(Cmd)
  BY <1>0, ProcTypes
<1> QED BY <1>0, <1>4, <1>5, <1>6, <1>7, HostWrites

(* The command is the head of the channel; what it was given is still what *)
(* its waiter waits for.                                                   *)
LEMMA HostAnswers ==
    ASSUME IInv, NEW p \in Procs, HostCommand(p)
    PROVE  IInv'
<1>0. TypeInv /\ Engines /\ Written /\ proc[p].life = "up" /\ proc[p].inbox # <<>>
  BY DEF IInv, Order, Mail, HostCommand
<1> DEFINE e == proc[p].engine
           cmd == Head(proc[p].inbox)
           inbox == Tail(proc[p].inbox)
<1>1. EngineOK(e) /\ e.epoch = p /\ e.session \in Nat
  BY <1>0, ProcTypes DEF Engines, EngineOK
<1>2. PICK t \in {Unchanged(e)} \cup Ticks(e) :
         proc' = [proc EXCEPT ![p].engine = Process(t.e, cmd).e, ![p].inbox = Tail(@),
                      ![p].out = @ \o <<Reply(t.e, cmd, Process(t.e, cmd))>> \o t.events
                                   \o Process(t.e, cmd).events]
  BY DEF HostCommand
<1> DEFINE r == Process(t.e, cmd)
           f == r.e
           reply == Reply(t.e, cmd, r)
           lines == <<reply>> \o (t.events \o r.events)
<1>3. Elapses(e, t)
  BY <1>1, TimeElapses
<1>4. /\ cmd \in Cmd /\ cmd.id \in Nat /\ inbox \in Seq(Cmd) /\ CmdFits(p, cmd)
      /\ \A k \in 1 .. Len(inbox) : \E j \in 1 .. Len(proc[p].inbox) : inbox[k] = proc[p].inbox[j]
  <2>1. proc[p].inbox \in Seq(Cmd)
    BY <1>0, ProcTypes
  <2>2. cmd = proc[p].inbox[1] /\ 1 \in 1 .. Len(proc[p].inbox)
    BY <1>0, <2>1
  <2>3. cmd \in Cmd /\ CmdFits(p, cmd)
    BY <1>0, <2>1, <2>2 DEF Written
  <2>4. inbox \in Seq(Cmd) /\ Len(inbox) = Len(proc[p].inbox) - 1
        /\ \A k \in 1 .. Len(inbox) : inbox[k] = proc[p].inbox[k + 1]
    BY <1>0, <2>1
  <2>5. cmd.id \in Nat
    BY <2>3 DEF Cmd
  <2>6. \A k \in 1 .. Len(inbox) : k + 1 \in 1 .. Len(proc[p].inbox)
    BY <2>1, <2>4
  <2> QED BY <2>3, <2>4, <2>5, <2>6
<1> HIDE DEF cmd, e, inbox, r
<1>5. /\ EngineOK(t.e) /\ t.e.epoch = p /\ t.e.session = e.session /\ t.events \in Seq(EventRec)
  BY <1>1, <1>3 DEF Elapses
<1>6. /\ EngineOK(f) /\ r.events \in Seq(EventRec) /\ r.ok \in BOOLEAN
      /\ f.epoch = p /\ f.session >= e.session
  BY <1>4, <1>5, ProcessIs DEF r
<1>7. f \in Engine /\ f.session \in Nat
  BY <1>6 DEF EngineOK, Engine
<1> HIDE DEF f
<1>8. /\ reply \in ReplyRec /\ reply.epoch = p /\ reply.id = cmd.id /\ reply.session = f.session
      /\ reply.kind = "hello" <=> cmd.op = Hello
  <2>1. t.e.epoch = p /\ p \in Nat
    BY <1>5, ProcBound DEF Procs
  <2>2. Snapshot(f) \in Snapshots /\ NoView \in Snapshots
    BY <1>7, SnapshotTypes DEF Snapshots
  <2> HIDE DEF Snapshots, NoView, Snapshot
  <2>3. reply = [kind |-> IF cmd.op = Hello THEN "hello"
                          ELSE IF ~Authorized(t.e, cmd) THEN "mismatch"
                          ELSE IF ~r.ok THEN "error" ELSE "result",
                 epoch |-> p, id |-> cmd.id, session |-> f.session,
                 snapshot |-> IF cmd.op = GetSnapshot THEN Snapshot(f) ELSE NoView]
    BY <2>1 DEF Reply, f
  <2> HIDE DEF reply
  <2> QED BY <1>4, <1>7, <2>1, <2>2, <2>3 DEF ReplyRec
<1> HIDE DEF reply
<1>9. t.events \o r.events \in Seq(EventRec)
  BY <1>5, <1>6
<1> DEFINE events == t.events \o r.events
<1>10. events \in Seq(Line) /\ \A k \in 1 .. Len(events) : events[k].kind \notin Replies
  BY <1>9, EventsAreLines
<1>11. reply \in Line /\ <<reply>> \in Seq(Line)
  BY <1>8 DEF Line
<1> DEFINE all == <<reply>> \o events
<1>12. proc' = [proc EXCEPT ![p].engine = f, ![p].inbox = inbox, ![p].out = @ \o all]
  <2>1. proc[p].out \in Seq(Line) /\ t.events \in Seq(Line) /\ r.events \in Seq(Line)
    BY <1>0, <1>5, <1>6, EventsAreLines, ProcTypes
  <2>2. proc[p].out \o <<reply>> \o t.events \o r.events = proc[p].out \o all
    <3> DEFINE x == <<reply>>
    <3>1. x \in Seq(Line)
      BY <1>11
    <3> HIDE DEF x
    <3> DEFINE o == proc[p].out
               a == t.events
               b == r.events
    <3>2. o \in Seq(Line) /\ a \in Seq(Line) /\ b \in Seq(Line)
      BY <2>1
    <3> HIDE DEF o, a, b
    <3>3. /\ o \o x \in Seq(Line) /\ a \o b \in Seq(Line)
          /\ ((o \o x) \o a) \o b = (o \o x) \o (a \o b)
      BY <3>1, <3>2, ConcatAssociative
    <3>4. (o \o x) \o (a \o b) = o \o (x \o (a \o b))
      <4> DEFINE ab == a \o b
      <4>1. ab \in Seq(Line)
        BY <3>3
      <4> HIDE DEF ab
      <4>2. (o \o x) \o ab = o \o (x \o ab)
        BY <3>1, <3>2, <4>1, ConcatAssociative
      <4> QED BY <4>2 DEF ab
    <3>5. o \o x \o a \o b = o \o (x \o (a \o b))
      BY <3>3, <3>4
    <3> QED BY <3>5 DEF x, o, a, b
  <2> HIDE DEF all
  <2>3. proc' = [proc EXCEPT ![p] = [proc[p] EXCEPT !.engine = f, !.inbox = inbox,
                   !.out = @ \o <<reply>> \o t.events \o r.events]]
    BY <1>0, <1>2 DEF TypeInv, f, r, reply, inbox
  <2>4. [proc EXCEPT ![p].engine = f, ![p].inbox = inbox, ![p].out = @ \o all]
          = [proc EXCEPT ![p] = [proc[p] EXCEPT !.engine = f, !.inbox = inbox, !.out = @ \o all]]
    BY <1>0 DEF TypeInv
  <2>5. proc[p] \in ProcRec
    BY <1>0, ProcTypes
  <2>6. [proc[p] EXCEPT !.engine = f, !.inbox = inbox, !.out = @ \o <<reply>> \o t.events \o r.events]
          = [proc[p] EXCEPT !.engine = f, !.inbox = inbox, !.out = @ \o all]
    BY <2>2, <2>5 DEF ProcRec
  <2> QED BY <2>3, <2>4, <2>6
<1> HIDE DEF events
<1>13. all \in Seq(Line)
  BY <1>10, <1>11
<1>14. ASSUME NEW k \in 1 .. Len(all), all[k].kind \in Replies PROVE all[k] = reply
  <2>1. \/ k \in 1 .. Len(<<reply>>) /\ all[k] = <<reply>>[k]
        \/ k - Len(<<reply>>) \in 1 .. Len(events) /\ all[k] = events[k - Len(<<reply>>)]
    BY <1>10, <1>11, <1>14, PlaceInSum
  <2> QED BY <1>10, <1>14, <2>1
<1> HIDE DEF all
<1>15. \A k \in 1 .. Len(all) : all[k].kind \in Replies =>
         /\ all[k].epoch = p /\ all[k].id <= proc[p].nextId /\ all[k].session <= f.session
         /\ \A w \in proc[p].pending : w.id = all[k].id =>
              (all[k].kind = "hello" <=> call[w.caller].req = Hello)
  BY <1>4, <1>7, <1>8, <1>14 DEF CmdFits
<1>16. UNCHANGED <<running, lifecycle, call, client>>
  BY DEF HostCommand
<1>17. f.session >= proc[p].engine.session
  BY <1>6 DEF e
<1> QED BY <1>0, <1>4, <1>6, <1>12, <1>13, <1>15, <1>16, <1>17, HostWrites

-----------------------------------------------------------------------------
(* The supervisor's threads                                                *)

LEMMA TailIs ==
    ASSUME NEW S, NEW s \in Seq(S), s # <<>>
    PROVE  /\ Head(s) \in S /\ Head(s) = s[1] /\ 1 \in 1 .. Len(s)
           /\ Tail(s) \in Seq(S) /\ Len(Tail(s)) = Len(s) - 1
           /\ \A k \in 1 .. Len(Tail(s)) : k + 1 \in 1 .. Len(s) /\ Tail(s)[k] = s[k + 1]
<1>1. Len(s) \in Nat \ {0}
  OBVIOUS
<1>2. Tail(s) \in Seq(S) /\ Len(Tail(s)) = Len(s) - 1 /\ \A k \in 1 .. Len(Tail(s)) : Tail(s)[k] = s[k + 1]
  BY <1>1
<1>3. Head(s) = s[1] /\ 1 \in 1 .. Len(s) /\ Head(s) \in S
  BY <1>1
<1>4. \A k \in 1 .. Len(Tail(s)) : k + 1 \in 1 .. Len(s)
  BY <1>1, <1>2
<1> QED BY <1>2, <1>3, <1>4

LEMMA PipesFilled ==
    ASSUME IInv, NEW p \in Procs,
           proc[p].out # <<>> \/ proc[p].mail # <<>> \/ proc[p].stdin = "open"
    PROVE  proc[p].life # "none"
<1>1. Unstarted
  BY DEF IInv, Order
<1> QED BY <1>1, NothingYet DEF Unstarted

(* A thread reads, drops or passes on lines; the engine does not change.   *)
From(s, t) == \A k \in 1 .. Len(s) : \E j \in 1 .. Len(t) : s[k] = t[j]
ThreadActs(p, r) ==
    /\ r \in ProcRec /\ proc' = [proc EXCEPT ![p] = r] /\ proc[p].life # "none"
    /\ r.engine = proc[p].engine /\ r.life = proc[p].life /\ r.nextId = proc[p].nextId
    /\ From(r.inbox, proc[p].inbox) /\ From(r.out, proc[p].out)
    /\ UNCHANGED <<running, lifecycle>> /\ ClientRec(client') /\ client'.session = client.session

LEMMA ThreadSteps ==
    ASSUME IInv, NEW p \in Procs, NEW r, ThreadActs(p, r)
    PROVE  Acts(p, r) /\ Grows(p) /\ LinesKept(p) /\ proc'[p] = r
<1>0. TypeInv /\ Engines
  BY DEF IInv, Order
<1>1. proc'[p] = r
  BY <1>0 DEF TypeInv, ThreadActs
<1>2. /\ proc[p].nextId \in Nat /\ proc[p].engine.session \in Nat
      /\ EngineOK(proc[p].engine) /\ proc[p].engine.epoch = p
  BY <1>0, ProcTypes DEF Engines, EngineOK
<1>3. Acts(p, r)
  BY <1>2 DEF Acts, ThreadActs
<1>4. Grows(p)
  BY <1>1, <1>2 DEF Grows, ThreadActs
<1>5. LinesKept(p)
  BY <1>1 DEF LinesKept, ThreadActs, From
<1> QED BY <1>1, <1>3, <1>4, <1>5

LEMMA ReaderPasses ==
    ASSUME IInv, NEW p \in Procs, Reader(p), Head(proc[p].out).kind \notin Replies
    PROVE  IInv'
<1>0. TypeInv /\ proc[p].out # <<>> /\ proc[p] \in ProcRec /\ proc[p].life # "none"
      /\ proc[p].out \in Seq(Line) /\ proc[p].mail \in Seq(EventRec) /\ ClientRec(client)
  BY ProcTypes, PipesFilled DEF IInv, Reader, TypeInv
<1> DEFINE line == Head(proc[p].out)
           out == Tail(proc[p].out)
           h == [proc[p] EXCEPT !.out = out]
           i == [h EXCEPT !.mail = Append(@, line)]
           r == IF proc[p].taken \/ proc[p].broken THEN h ELSE i
<1>1. line \in EventRec /\ out \in Seq(Line) /\ From(out, proc[p].out)
  <2>1. line \in Line /\ out \in Seq(Line)
        /\ \A k \in 1 .. Len(out) : k + 1 \in 1 .. Len(proc[p].out) /\ out[k] = proc[p].out[k + 1]
    BY <1>0, TailIs
  <2>2. line \in EventRec
    BY <2>1 DEF Line, ReplyRec, Replies
  <2> QED BY <2>1, <2>2 DEF From
<1>2. proc' = [proc EXCEPT ![p] = r] /\ call' = call /\ client' = client
      /\ UNCHANGED <<running, lifecycle>>
  BY DEF Reader
<1> HIDE DEF line, out
<1>3. /\ h \in ProcRec /\ h.engine = proc[p].engine /\ h.life = proc[p].life
      /\ h.nextId = proc[p].nextId /\ h.pending = proc[p].pending
      /\ h.inbox = proc[p].inbox /\ h.out = out /\ h.mail = proc[p].mail
  BY <1>0, <1>1 DEF ProcRec
<1> HIDE DEF h
<1>4. Append(h.mail, line) \in Seq(EventRec)
  BY <1>0, <1>1, <1>3
<1>5. /\ i \in ProcRec /\ i.engine = h.engine /\ i.life = h.life /\ i.nextId = h.nextId
      /\ i.pending = h.pending /\ i.inbox = h.inbox /\ i.out = h.out
  BY <1>3, <1>4 DEF ProcRec
<1> HIDE DEF i
<1>6. /\ r \in ProcRec /\ r.engine = proc[p].engine /\ r.life = proc[p].life
      /\ r.nextId = proc[p].nextId /\ r.pending = proc[p].pending
      /\ r.inbox = proc[p].inbox /\ r.out = out
  BY <1>3, <1>5
<1> HIDE DEF r
<1>7. ThreadActs(p, r)
  BY <1>0, <1>1, <1>2, <1>6 DEF ThreadActs, From
<1> QED BY <1>2, <1>6, <1>7, ThreadSteps, ProcessMoves

LEMMA WriterEnds ==
    ASSUME IInv, NEW p \in Procs, WriterStops(p)
    PROVE  IInv'
<1>0. TypeInv /\ proc[p] \in ProcRec /\ proc[p].life # "none" /\ proc[p].inbox \in Seq(Cmd)
      /\ ClientRec(client)
  BY ProcTypes, PipesFilled DEF IInv, WriterStops, TypeInv
<1>1. PICK inbox \in {proc[p].inbox} \cup FirstPart(proc[p].inbox) :
        proc' = [proc EXCEPT ![p].stdin = "closed", ![p].inbox = inbox]
  BY DEF WriterStops
<1>2. inbox \in Seq(Cmd) /\ From(inbox, proc[p].inbox)
  BY <1>0, FirstPartIs DEF From
<1> DEFINE h == [proc[p] EXCEPT !.stdin = "closed"]
           r == [h EXCEPT !.inbox = inbox]
<1>3. proc' = [proc EXCEPT ![p] = r]
  BY <1>0, <1>1 DEF TypeInv, ProcRec
<1>4. /\ h \in ProcRec /\ h.engine = proc[p].engine /\ h.life = proc[p].life
      /\ h.nextId = proc[p].nextId /\ h.pending = proc[p].pending /\ h.out = proc[p].out
  BY <1>0 DEF ProcRec
<1> HIDE DEF h
<1>5. /\ r \in ProcRec /\ r.engine = h.engine /\ r.life = h.life /\ r.nextId = h.nextId
      /\ r.pending = h.pending /\ r.inbox = inbox /\ r.out = h.out
  BY <1>2, <1>4 DEF ProcRec
<1> HIDE DEF r
<1>6. call' = call /\ client' = client /\ UNCHANGED <<running, lifecycle>>
  BY DEF WriterStops
<1>7. ThreadActs(p, r)
  BY <1>0, <1>2, <1>3, <1>4, <1>5, <1>6 DEF ThreadActs, From
<1> QED BY <1>4, <1>5, <1>6, <1>7, ThreadSteps, ProcessMoves

LEMMA WebviewHears ==
    ASSUME IInv, NEW p \in Procs, Receive(p)
    PROVE  IInv'
<1>0. TypeInv /\ proc[p] \in ProcRec /\ proc[p].life # "none" /\ proc[p].mail \in Seq(EventRec)
      /\ proc[p].mail # <<>> /\ ClientRec(client)
  BY ProcTypes, PipesFilled DEF IInv, Receive, TypeInv
<1> DEFINE r == [proc[p] EXCEPT !.mail = Tail(@)]
<1>1. Tail(proc[p].mail) \in Seq(EventRec)
  BY <1>0, TailIs
<1>2. /\ r \in ProcRec /\ r.engine = proc[p].engine /\ r.life = proc[p].life
      /\ r.nextId = proc[p].nextId /\ r.pending = proc[p].pending /\ r.inbox = proc[p].inbox
      /\ r.out = proc[p].out
  BY <1>0, <1>1 DEF ProcRec
<1>3. proc' = [proc EXCEPT ![p] = r]
  BY <1>0 DEF Receive, TypeInv
<1> HIDE DEF r
<1>4. ClientRec(client') /\ client'.session = client.session
  <2>1. \A v : LET x == [client EXCEPT !.view = v] IN ClientRec(x) /\ x.session = client.session
    BY <1>0, IdleTypes, ClientChanges
  <2>2. \A v : LET x == [client EXCEPT !.buffer = v] IN ClientRec(x) /\ x.session = client.session
    BY <1>0, IdleTypes, ClientChanges
  <2>3. client' \in {[client EXCEPT !.buffer = Append(client.buffer, Head(proc[p].mail))],
                     [client EXCEPT !.view = ReduceEvent(client.view, Head(proc[p].mail))]}
    BY DEF Receive
  <2> QED BY <2>1, <2>2, <2>3
<1>5. call' = call /\ UNCHANGED <<running, lifecycle>>
  BY DEF Receive
<1>6. ThreadActs(p, r)
  BY <1>0, <1>2, <1>3, <1>4, <1>5 DEF ThreadActs, From
<1> QED BY <1>2, <1>5, <1>6, ThreadSteps, ProcessMoves

LEMMA EngineGivenUp ==
    ASSUME IInv, NEW p \in Procs, ReaderEnds(p) \/ WriteFails(p) \/ RelayBreaks(p)
    PROVE  IInv'
<1>0. TypeInv /\ proc[p] \in ProcRec /\ proc[p].life # "none" /\ proc[p].mail \in Seq(EventRec)
      /\ ClientRec(client) /\ DrainPending(p) /\ client' = client /\ UNCHANGED <<running, lifecycle>>
  BY ProcTypes DEF IInv, ReaderEnds, WriteFails, RelayBreaks, TypeInv
<1> DEFINE h == [proc[p] EXCEPT !.pending = {}]
           i == [h EXCEPT !.alive = FALSE]
<1>1. /\ h \in ProcRec /\ h.engine = proc[p].engine /\ h.life = proc[p].life
      /\ h.nextId = proc[p].nextId /\ h.pending = {} /\ h.out = proc[p].out
      /\ h.inbox = proc[p].inbox
  BY <1>0 DEF ProcRec
<1> HIDE DEF h
<1>2. /\ i \in ProcRec /\ i.engine = proc[p].engine /\ i.life = proc[p].life
      /\ i.nextId = proc[p].nextId /\ i.pending = {} /\ i.out = proc[p].out
      /\ i.inbox = proc[p].inbox
  BY <1>1 DEF ProcRec
<1> HIDE DEF i
<1>3. ASSUME NEW r \in ProcRec, proc' = [proc EXCEPT ![p] = r],
             r.engine = proc[p].engine, r.life = proc[p].life, r.nextId = proc[p].nextId,
             r.pending = {}, r.out = proc[p].out, r.inbox \in {proc[p].inbox, <<>>}
      PROVE  IInv'
  <2>1. From(r.inbox, proc[p].inbox) /\ From(r.out, proc[p].out)
    BY <1>3 DEF From
  <2>2. ThreadActs(p, r)
    BY <1>0, <1>3, <2>1 DEF ThreadActs
  <2> QED BY <1>0, <1>3, <2>2, ThreadSteps, ProcessDrains
<1>4. CASE ReaderEnds(p)
  <2> DEFINE r == [i EXCEPT !.eof = TRUE]
  <2>1. proc' = [proc EXCEPT ![p] = r]
    BY <1>0, <1>4 DEF ReaderEnds, TypeInv, ProcRec, i, h
  <2>2. /\ r \in ProcRec /\ r.engine = i.engine /\ r.life = i.life
        /\ r.nextId = i.nextId /\ r.pending = {} /\ r.out = i.out /\ r.inbox = i.inbox
    BY <1>2 DEF ProcRec
  <2> HIDE DEF r
  <2> QED BY <1>2, <1>3, <2>1, <2>2
<1>5. CASE WriteFails(p)
  <2> DEFINE j == [i EXCEPT !.stdin = "closed"]
             r == [j EXCEPT !.inbox = <<>>]
  <2>1. proc' = [proc EXCEPT ![p] = r]
    BY <1>0, <1>5 DEF WriteFails, TypeInv, ProcRec, i, h
  <2>2. /\ j \in ProcRec /\ j.engine = i.engine /\ j.life = i.life
        /\ j.nextId = i.nextId /\ j.pending = {} /\ j.out = i.out
    BY <1>2 DEF ProcRec
  <2> HIDE DEF j
  <2>3. <<>> \in Seq(Cmd)
    OBVIOUS
  <2>4. /\ r \in ProcRec /\ r.engine = j.engine /\ r.life = j.life
        /\ r.nextId = j.nextId /\ r.pending = {} /\ r.out = j.out /\ r.inbox = <<>>
    BY <2>2, <2>3 DEF ProcRec
  <2> HIDE DEF r
  <2> QED BY <1>2, <1>3, <2>1, <2>2, <2>4
<1>6. CASE RelayBreaks(p)
  <2>0. PICK mail \in FirstPart(proc[p].mail) :
          proc' = [proc EXCEPT ![p].broken = TRUE, ![p].alive = FALSE, ![p].pending = {},
                               ![p].mail = mail]
    BY <1>6 DEF RelayBreaks
  <2> DEFINE j == [i EXCEPT !.broken = TRUE]
             r == [j EXCEPT !.mail = mail]
  <2>1. proc' = [proc EXCEPT ![p] = r]
    BY <1>0, <2>0 DEF TypeInv, ProcRec, i, h
  <2>2. /\ j \in ProcRec /\ j.engine = i.engine /\ j.life = i.life
        /\ j.nextId = i.nextId /\ j.pending = {} /\ j.out = i.out /\ j.inbox = i.inbox
    BY <1>2 DEF ProcRec
  <2> HIDE DEF j
  <2>3. mail \in Seq(EventRec)
    BY <1>0, FirstPartIs
  <2>4. /\ r \in ProcRec /\ r.engine = j.engine /\ r.life = j.life
        /\ r.nextId = j.nextId /\ r.pending = {} /\ r.out = j.out /\ r.inbox = j.inbox
    BY <2>2, <2>3 DEF ProcRec
  <2> HIDE DEF r
  <2> QED BY <1>2, <1>3, <2>1, <2>2, <2>4
<1> QED BY <1>4, <1>5, <1>6

(* An answer leaves the pipe for the one waiter that has its number.       *)
LEMMA ReaderAnswers ==
    ASSUME IInv, NEW p \in Procs, Reader(p), Head(proc[p].out).kind \in Replies
    PROVE  IInv'
<1>0. /\ TypeInv /\ Pending /\ Read
      /\ proc[p].out # <<>> /\ proc[p] \in ProcRec /\ proc[p].life # "none"
      /\ proc[p].out \in Seq(Line) /\ proc[p].pending \in SUBSET Waiter /\ ClientRec(client)
  BY ProcTypes, PipesFilled DEF IInv, Mail, Reader, TypeInv
<1> DEFINE line == Head(proc[p].out)
           out == Tail(proc[p].out)
           waiters == {w \in proc[p].pending : w.id = line.id}
           rest == proc[p].pending \ waiters
           h == [proc[p] EXCEPT !.out = out]
           r == [h EXCEPT !.pending = rest]
           Gets(c) == \E w \in waiters : w.caller = c
<1>1. /\ line \in Line /\ line.kind \in Replies /\ LineFits(p, line)
      /\ out \in Seq(Line) /\ From(out, proc[p].out)
  <2>1. line \in Line /\ line = proc[p].out[1] /\ 1 \in 1 .. Len(proc[p].out) /\ out \in Seq(Line)
        /\ \A k \in 1 .. Len(out) : k + 1 \in 1 .. Len(proc[p].out) /\ out[k] = proc[p].out[k + 1]
    BY <1>0, TailIs
  <2>2. LineFits(p, line)
    BY <1>0, <2>1 DEF Read
  <2> QED BY <2>1, <2>2 DEF From
<1>2. /\ proc' = [proc EXCEPT ![p] = r] /\ client' = client /\ UNCHANGED <<running, lifecycle>>
      /\ call' = [c \in Callers |-> IF Gets(c) THEN [call[c] EXCEPT !.answer = line] ELSE call[c]]
  <2>1. proc' = [proc EXCEPT ![p] = [[proc[p] EXCEPT !.out = out] EXCEPT !.pending = @ \ waiters]]
        /\ client' = client /\ UNCHANGED <<running, lifecycle>>
        /\ call' = [c \in Callers |-> IF Gets(c) THEN [call[c] EXCEPT !.answer = line] ELSE call[c]]
    BY DEF Reader
  <2>2. [[proc[p] EXCEPT !.out = out] EXCEPT !.pending = @ \ waiters] = r
    BY <1>0 DEF ProcRec
  <2> QED BY <2>1, <2>2
<1>3. ASSUME NEW w \in waiters
      PROVE  /\ w \in proc[p].pending /\ w.id = line.id /\ w.caller \in Callers
             /\ Waiting(w.caller) /\ call[w.caller].proc = p /\ call[w.caller].id = line.id
  BY <1>0, <1>3 DEF Pending, Waiter
<1>4. rest \in SUBSET Waiter /\ rest = {w \in proc[p].pending : w \notin waiters}
  BY <1>0
<1>5. ASSUME NEW w \in rest PROVE ~Gets(w.caller)
  <2>1. w \in proc[p].pending /\ w.id # line.id
    BY <1>5
  <2>2. call[w.caller].id = w.id
    BY <1>0, <2>1 DEF Pending
  <2> QED BY <1>3, <2>1, <2>2
<1>6. line \in ReplyRec /\ line.kind # "none" /\ line.session \in Nat
  BY <1>1, LineTypes
<1> HIDE DEF line, out, waiters, rest
<1>7. /\ h \in ProcRec /\ h.engine = proc[p].engine /\ h.life = proc[p].life
      /\ h.nextId = proc[p].nextId /\ h.inbox = proc[p].inbox /\ h.out = out
  BY <1>0, <1>1 DEF ProcRec
<1> HIDE DEF h
<1>8. /\ r \in ProcRec /\ r.engine = proc[p].engine /\ r.life = proc[p].life
      /\ r.nextId = proc[p].nextId /\ r.inbox = proc[p].inbox /\ r.out = out /\ r.pending = rest
  BY <1>4, <1>7 DEF ProcRec
<1> HIDE DEF r
<1>9. Acts(p, r) /\ Grows(p) /\ LinesKept(p) /\ proc'[p] = r
  <2>1. From(r.inbox, proc[p].inbox)
    BY <1>8 DEF From
  <2>2. ThreadActs(p, r)
    BY <1>0, <1>1, <1>2, <1>8, <2>1 DEF ThreadActs
  <2> QED BY <2>2, ThreadSteps
<1>10. /\ call' = [c \in Callers |-> call'[c]]
       /\ \A c \in Callers : call'[c] = IF Gets(c) THEN [call[c] EXCEPT !.answer = line] ELSE call[c]
  BY <1>2
<1>11. ASSUME NEW c \in Callers, Gets(c)
       PROVE  /\ Waiting(c) /\ call'[c] \in CallRec /\ call'[c].answer = line
              /\ call'[c].pc = "wait" /\ call'[c].op = call[c].op /\ call'[c].req = call[c].req
              /\ call'[c].session = call[c].session /\ call'[c].proc = call[c].proc
              /\ call'[c].id = call[c].id /\ call[c].proc = p /\ call[c].id = line.id
  <2>1. Waiting(c) /\ call[c].proc = p /\ call[c].id = line.id
    BY <1>3, <1>11
  <2>2. call[c] \in CallRec /\ call[c].pc = "wait"
    BY <1>0, <2>1, CallTypes DEF Waiting
  <2> QED BY <1>6, <1>10, <1>11, <2>1, <2>2 DEF CallRec
<1>12. ASSUME NEW c \in Callers, ~Gets(c) PROVE call'[c] = call[c]
  BY <1>10, <1>12
<1> HIDE DEF Gets
<1>13. \A c \in Callers : GivenAnswer(c)
  <2> TAKE c \in Callers
  <2>1. CASE Gets(c)
    BY <1>6, <1>11, <2>1 DEF GivenAnswer
  <2>2. CASE ~Gets(c)
    BY <1>12, <2>2 DEF GivenAnswer
  <2> QED BY <2>1, <2>2
<1>14. /\ TypeInv' /\ Order'
       /\ \A q \in Procs \ {p} : proc'[q] = proc[q] /\ Grows(q) /\ LinesKept(q)
       /\ \A c \in Callers : SessionKept(c)
  BY <1>9, <1>10, <1>13, ProcessOrder
<1>15. WaitersLeave
  <2>1. ASSUME NEW c \in Callers, Waiting(c)' PROVE Waiting(c) /\ call'[c] = call[c]
    <3>1. ~Gets(c)
      BY <1>6, <1>11, <2>1 DEF Waiting
    <3> QED BY <1>12, <2>1, <3>1 DEF Waiting
  <2>2. ASSUME NEW q \in Procs, NEW w \in proc[q].pending
        PROVE  w.caller \in Callers /\ Waiting(w.caller) /\ call[w.caller].proc = q
    BY <1>0, <2>2, ProcTypes DEF Pending, Waiter
  <2>3. ASSUME NEW q \in Procs \ {p}, NEW w \in proc[q].pending PROVE Waiting(w.caller)'
    <3>1. ~Gets(w.caller)
      BY <1>3, <2>2, <2>3 DEF Gets
    <3> QED BY <1>12, <2>2, <2>3, <3>1 DEF Waiting
  <2>4. ASSUME NEW w \in rest PROVE Waiting(w.caller)'
    <3>1. w \in proc[p].pending
      BY <1>4, <2>4
    <3> QED BY <1>5, <1>12, <2>2, <2>4, <3>1 DEF Waiting
  <2>5. ASSUME NEW w \in waiters PROVE ~Waiting(w.caller)'
    <3>1. Gets(w.caller) /\ w.caller \in Callers
      BY <1>3, <2>5 DEF Gets
    <3> QED BY <1>6, <1>11, <3>1 DEF Waiting
  <2>6. ASSUME NEW q \in Procs PROVE proc'[q].pending = {w \in proc[q].pending : Waiting(w.caller)'}
    <3>1. CASE q = p
      BY <1>4, <1>8, <1>9, <2>4, <2>5, <3>1
    <3>2. CASE q # p
      BY <1>14, <2>3, <3>2
    <3> QED BY <3>1, <3>2
  <2> QED BY <2>1, <2>6 DEF WaitersLeave
<1>16. ASSUME NEW c \in Callers PROVE AnswerKept(c)
  <2>1. CASE ~Gets(c)
    BY <1>12, <2>1 DEF AnswerKept, Has
  <2>2. CASE Gets(c)
    <3>1. PICK w \in waiters : w.caller = c
      BY <2>2 DEF Gets
    <3>2. /\ line.epoch = p /\ (line.kind = "hello" <=> call[c].req = Hello)
          /\ proc[p].life = "up" => line.session <= proc[p].engine.session
      BY <1>1, <1>3, <3>1 DEF LineFits
    <3>3. OwnFits(c)'
      BY <1>8, <1>9, <1>11, <2>2, <3>2 DEF OwnFits
    <3> QED BY <3>3 DEF AnswerKept
  <2> QED BY <2>1, <2>2
<1>17. \A q \in Procs : Grows(q) /\ LinesKept(q)
  BY <1>9, <1>14
<1>18. ClientKept
  BY <1>2 DEF ClientKept
<1>19. Mail'
  BY <1>14, <1>15, <1>16, <1>17, <1>18, MailKept
<1> QED BY <1>14, <1>19 DEF IInv

LEMMA ProcessesKeepIt ==
    ASSUME IInv, NEW p \in Procs, ProcessStep(p)
    PROVE  IInv'
<1>1. CASE HostCommand(p)
  BY <1>1, HostAnswers
<1>2. CASE HostTick(p)
  BY <1>2, HostTicks
<1>3. CASE HostExits(p) \/ HostCrashes(p) \/ WatchdogKills(p) \/ HostHangs(p)
  BY <1>3, HostGoes
<1>4. CASE Reader(p)
  BY <1>4, ReaderAnswers, ReaderPasses
<1>5. CASE WriterStops(p)
  BY <1>5, WriterEnds
<1>6. CASE ReaderEnds(p) \/ WriteFails(p) \/ RelayBreaks(p)
  BY <1>6, EngineGivenUp
<1>7. CASE Receive(p)
  BY <1>7, WebviewHears
<1> QED BY <1>1, <1>2, <1>3, <1>4, <1>5, <1>6, <1>7 DEF ProcessStep

-----------------------------------------------------------------------------
(* The theorems                                                            *)

LEMMA InitKeepsIt ==
    ASSUME Init
    PROVE  IInv
<1>1. \A p \in Procs : NotStarted(p) \in ProcRec
  <2> TAKE p \in Procs
  <2>1. NewEngine(p) \in Engine
    BY FreshEngine DEF EngineOK
  <2> HIDE DEF NewEngine
  <2> QED BY <2>1 DEF NotStarted, ProcRec
<1>2. \A p \in Procs : proc[p] = NotStarted(p)
  BY DEF Init
<1>3. \A c \in Callers : call[c] = Idle
  BY DEF Init
<1>4. TypeInv
  <2>1. proc \in [Procs -> ProcRec]
    <3> HIDE DEF NotStarted
    <3> QED BY <1>1 DEF Init
  <2>2. call \in [Callers -> CallRec]
    <3> HIDE DEF Idle
    <3> QED BY IdleTypes DEF Init
  <2>3. ClientRec(client)
    <3> HIDE DEF NoSession, NoView
    <3> QED BY IdleTypes DEF Init, ClientRec
  <2> QED BY <2>1, <2>2, <2>3, ProcBound DEF TypeInv, Init
<1>5. Started = {} /\ Living = {}
  BY <1>2, NothingYet DEF Started, Living
<1>6. Order
  <2>1. Engines
    BY <1>2, NothingYet, FreshEngine DEF Engines, EngineOK
  <2>2. Locks
    <3> SUFFICES ASSUME NEW c \in Callers PROVE CallerFits(c)
      BY DEF Locks
    <3> HIDE DEF Idle
    <3> QED BY <1>3, IdleTypes DEF CallerFits, Engaged, Waiting, Has
  <2>3. Unstarted
    BY <1>2 DEF Unstarted
  <2>4. InOrder
    <3>1. 1 .. 0 = {} /\ 0 \in 0 .. MaxProcs
      BY ProcBound
    <3> QED BY <1>5, <3>1 DEF InOrder
  <2>5. Known
    BY DEF Known, Init
  <2>6. OneEngine
    BY <1>5 DEF OneEngine
  <2> QED BY <2>1, <2>2, <2>3, <2>4, <2>5, <2>6 DEF Order
<1>7. Mail
  <2>1. Waits /\ Own
    <3> HIDE DEF Idle
    <3> QED BY <1>3, IdleTypes DEF Waits, Own, OwnFits, Waiting, Has
  <2>2. Pending /\ Written /\ Read
    BY <1>2, NothingYet DEF Pending, Written, Read
  <2>3. Sessions
    <3>1. client.session = NoSession
      BY DEF Init
    <3> HIDE DEF Idle, NoSession
    <3> QED BY <1>3, <3>1, IdleTypes DEF Sessions, SessionFits, FitsIn
  <2> QED BY <2>1, <2>2, <2>3 DEF Mail
<1> QED BY <1>4, <1>6, <1>7 DEF IInv

LEMMA NothingMoves ==
    ASSUME IInv, UNCHANGED vars
    PROVE  IInv'
BY DEF vars, IInv, TypeInv, ClientRec, Order, Mail, Engines, Locks, CallerFits, Engaged,
       Waiting, Has, Unstarted, InOrder, Started, Known, OneEngine, Living, Waits, Pending,
       Written, CmdFits, Read, LineFits, Own, OwnFits, Sessions, SessionFits, FitsIn

LEMMA StepsKeepIt ==
    ASSUME IInv, [Next]_vars
    PROVE  IInv'
<1>1. CASE Next
  <2>1. ASSUME NEW c \in Callers, CallStep(c) PROVE IInv'
    BY <2>1, CallersKeepIt
  <2>2. ASSUME NEW p \in Procs, ProcessStep(p) PROVE IInv'
    BY <2>2, ProcessesKeepIt
  <2> QED BY <1>1, <2>1, <2>2, CallsBegin DEF Next
<1>2. CASE UNCHANGED vars
  BY <1>2, NothingMoves
<1> QED BY <1>1, <1>2

(* The invariant holds of every behaviour from the application's start.    *)
THEOREM Invariance == Spec => []IInv
<1>1. Init => IInv
  BY InitKeepsIt
<1>2. IInv /\ [Next]_vars => IInv'
  BY StepsKeepIt
<1> QED BY <1>1, <1>2, PTL DEF Spec

(* Types, for every number of users, commands and processes.               *)
THEOREM TypeCorrect == Spec => []TypeInv
BY Invariance, PTL DEF IInv

(* One engine, with all the callers that start, stop and connect at once.  *)
THEOREM EngineIsAlone == Spec => []OneEngine
<1>1. IInv => OneEngine
  BY DEF IInv, Order
<1> QED BY <1>1, Invariance, PTL

(* The answer a caller gets is to its own command, of its own engine.      *)
THEOREM AnswersFindTheirCallers == Spec => []AnswersAreOwn
<1>1. IInv => AnswersAreOwn
  <2> SUFFICES ASSUME IInv PROVE AnswersAreOwn
    OBVIOUS
  <2>1. Waits /\ Pending /\ Own
    BY DEF IInv, Mail
  <2>2. \A c \in Callers :
          Waiting(c) => [id |-> call[c].id, caller |-> c] \in proc[call[c].proc].pending
    BY <2>1 DEF Waits
  <2>3. \A p \in Procs : \A w \in proc[p].pending :
          Waiting(w.caller) /\ call[w.caller].proc = p /\ call[w.caller].id = w.id
    BY <2>1 DEF Pending
  <2>4. ASSUME NEW c \in Callers, Has(c, Replied)
        PROVE  /\ call[c].answer.epoch = call[c].proc /\ call[c].answer.id = call[c].id
               /\ call[c].answer.kind = "hello" <=> call[c].req = Hello
    BY <2>1, <2>4 DEF Own, OwnFits
  <2> QED BY <2>2, <2>3, <2>4 DEF AnswersAreOwn, Replied
<1> QED BY <1>1, Invariance, PTL

-----------------------------------------------------------------------------
(* What the steps do to an engine                                          *)

EngineGoes(p) ==
    \/ proc'[p].engine = proc[p].engine
    \/ /\ proc'[p].engine = NewEngine(p)
       /\ proc'[p].inbox = proc[p].inbox \/ proc[p].life = "none"
    \/ HostCommand(p) \/ HostTick(p)

LEMMA CallersLeaveEngines ==
    ASSUME IInv, NEW c \in Callers, CallStep(c), NEW p \in Procs
    PROVE  EngineGoes(p)
<1>0. TypeInv /\ Locks /\ InOrder /\ proc[p] \in ProcRec
  BY ProcTypes DEF IInv, Order
<1>1. CASE UNCHANGED proc
  BY <1>1 DEF EngineGoes
<1>2. CASE Insert(c) \/ Timeout(c)
  <2> DEFINE q == call[c].proc
  <2>1. ASSUME NEW r, proc' = [proc EXCEPT ![q] = r], p = q => r.engine = proc[p].engine
        PROVE  proc'[p].engine = proc[p].engine
    BY <1>0, <2>1 DEF TypeInv
  <2>2. CASE Timeout(c)
    <3> DEFINE r == [proc[q] EXCEPT !.pending = {w \in @ : w.id # call[c].id}]
    <3>1. proc' = [proc EXCEPT ![q] = r]
      BY <1>0, <2>2 DEF Timeout, TypeInv
    <3>2. p = q => r.engine = proc[p].engine
      BY <1>0 DEF ProcRec
    <3> QED BY <2>1, <3>1, <3>2 DEF EngineGoes
  <2>3. CASE Insert(c)
    <3> DEFINE id == proc[q].nextId + 1
               line == Command(q, c)
               r == [proc[q] EXCEPT !.nextId = id]
               s == [proc[q] EXCEPT !.nextId = id, !.pending = @ \cup {[id |-> id, caller |-> c]},
                                    !.inbox = Append(@, line)]
    <3>1. proc' = [proc EXCEPT ![q] = r] \/ proc' = [proc EXCEPT ![q] = s]
      BY <1>0, <2>3 DEF Insert, TypeInv
    <3>2. p = q => r.engine = proc[p].engine /\ s.engine = proc[p].engine
      <4> HIDE DEF id, line
      <4> QED BY <1>0 DEF ProcRec
    <3> HIDE DEF r, s
    <3> QED BY <2>1, <3>1, <3>2 DEF EngineGoes
  <2> QED BY <1>2, <2>2, <2>3
<1>3. ASSUME NEW op, TakeState(c, op) PROVE EngineGoes(p)
  <2>1. proc'[p].engine = proc[p].engine
    BY <1>0, <1>3 DEF TakeState, TypeInv, ProcRec
  <2> QED BY <2>1 DEF EngineGoes
<1>4. ASSUME NEW n, KeepSession(n) PROVE EngineGoes(p)
  <2>1. proc'[p].engine = proc[p].engine
    BY <1>0, <1>4 DEF KeepSession, TypeInv, ProcRec
  <2> QED BY <2>1 DEF EngineGoes
<1>5. CASE Reap(c)
  <2> DEFINE q == call[c].proc
  <2>1. proc' = [proc EXCEPT ![q] = [Ended(q) EXCEPT !.alive = FALSE]]
    BY <1>5 DEF Reap
  <2>2. CASE p = q
    <3> DEFINE r == [Ended(p) EXCEPT !.alive = FALSE]
    <3>1. r.engine = NewEngine(p) /\ r.inbox = proc[p].inbox
      BY <1>0 DEF Ended, ProcRec
    <3> HIDE DEF r
    <3>2. proc'[p] = r
      BY <1>0, <2>1, <2>2 DEF TypeInv, r
    <3> QED BY <3>1, <3>2 DEF EngineGoes
  <2>3. CASE p # q
    <3>1. proc'[p] = proc[p]
      BY <1>0, <2>1, <2>3 DEF TypeInv
    <3> QED BY <3>1 DEF EngineGoes
  <2> QED BY <2>2, <2>3
<1>6. CASE Spawn(c)
  <2> DEFINE q == Cardinality(Started) + 1
             r == [NotStarted(q) EXCEPT !.life = "up", !.alive = TRUE, !.stdin = "open"]
  <2>1. proc' = [proc EXCEPT ![q] = r] /\ q \in Procs
    BY <1>6 DEF Spawn
  <2>2. q \notin Started
    <3>1. PICK n \in 0 .. MaxProcs : Started = 1 .. n
      BY <1>0 DEF InOrder
    <3>2. Cardinality(Started) = n
      BY <3>1, FS_Interval, ProcBound
    <3> QED BY <3>1, <3>2
  <2>3. r.engine = NewEngine(q)
    BY DEF NotStarted
  <2> HIDE DEF q, r
  <2>4. CASE p = q
    <3>1. proc'[p] = r /\ proc[p].life = "none"
      BY <1>0, <2>1, <2>2, <2>4 DEF TypeInv, Started
    <3> QED BY <2>3, <2>4, <3>1 DEF EngineGoes
  <2>5. CASE p # q
    <3>1. proc'[p] = proc[p]
      BY <1>0, <2>1, <2>5 DEF TypeInv
    <3> QED BY <3>1 DEF EngineGoes
  <2> QED BY <2>4, <2>5
<1>7. CASE StartLocked(c) \/ StopLocked(c) \/ StartFailed(c) \/ StopAllowed(c)
  <2>1. UNCHANGED proc \/ \E op : TakeState(c, op)
    BY <1>7 DEF StartLocked, StopLocked, StartFailed, StopAllowed
  <2> QED BY <1>1, <1>3, <2>1
<1>8. CASE StartAnswered(c) \/ ConnectHello(c)
  BY <1>4, <1>8 DEF StartAnswered, ConnectHello
<1>9. CASE \/ Dispatch(c) \/ SpawnFails(c) \/ StopRefused(c) \/ StopReturns(c) \/ ConnectLocked(c)
           \/ ConnectSnapshot(c) \/ ConnectFails(c)
  <2>1. UNCHANGED proc
    BY <1>9 DEF Dispatch, SpawnFails, StopRefused, StopReturns, ConnectLocked, ConnectSnapshot,
                ConnectFails
  <2> QED BY <1>1, <2>1
<1>10. CASE \/ Connected(c) \/ ConnectReturns(c) \/ CheckSession(c) \/ SendReturns(c)
            \/ RefreshReturns(c)
  <2>1. UNCHANGED proc
    BY <1>10 DEF Connected, ConnectReturns, CheckSession, SendReturns, RefreshReturns
  <2> QED BY <1>1, <2>1
<1> QED BY <1>2, <1>5, <1>6, <1>7, <1>8, <1>9, <1>10 DEF CallStep

LEMMA ProcessesLeaveEngines ==
    ASSUME IInv, NEW q \in Procs, ProcessStep(q), NEW p \in Procs
    PROVE  EngineGoes(p)
<1>0. TypeInv /\ proc[p] \in ProcRec
  BY ProcTypes DEF IInv
<1>1. CASE p # q
  <2>1. proc'[p] = proc[p]
    <3>1. CASE HostCommand(q) \/ HostTick(q) \/ HostExits(q) \/ HostCrashes(q) \/ HostHangs(q)
               \/ WatchdogKills(q)
      BY <1>0, <1>1, <3>1
         DEF TypeInv, HostCommand, HostTick, HostExits, HostCrashes, HostHangs, WatchdogKills
    <3>2. CASE Reader(q)
      BY <1>0, <1>1, <3>2 DEF TypeInv, Reader
    <3>3. CASE ReaderEnds(q) \/ WriterStops(q) \/ WriteFails(q) \/ RelayBreaks(q) \/ Receive(q)
      BY <1>0, <1>1, <3>3 DEF TypeInv, ReaderEnds, WriterStops, WriteFails, RelayBreaks, Receive
    <3> QED BY <3>1, <3>2, <3>3 DEF ProcessStep
  <2> QED BY <2>1 DEF EngineGoes
<1>2. CASE p = q
  <2>1. CASE HostCommand(p) \/ HostTick(p)
    BY <2>1 DEF EngineGoes
  <2>2. CASE HostExits(p) \/ HostCrashes(p) \/ WatchdogKills(p)
    <3>1. proc'[p] = Ended(p)
      BY <1>0, <2>2 DEF HostExits, HostCrashes, WatchdogKills, TypeInv
    <3>2. Ended(p).engine = NewEngine(p) /\ Ended(p).inbox = proc[p].inbox
      BY <1>0 DEF Ended, ProcRec
    <3> QED BY <3>1, <3>2 DEF EngineGoes
  <2>3. CASE HostHangs(p) \/ WriterStops(p) \/ Receive(p)
    <3>1. proc'[p].engine = proc[p].engine
      BY <1>0, <2>3 DEF HostHangs, WriterStops, Receive, TypeInv, ProcRec
    <3> QED BY <3>1 DEF EngineGoes
  <2>4. CASE ReaderEnds(p) \/ WriteFails(p) \/ RelayBreaks(p)
    <3>1. proc'[p].engine = proc[p].engine
      BY <1>0, <2>4 DEF ReaderEnds, WriteFails, RelayBreaks, TypeInv, ProcRec
    <3> QED BY <3>1 DEF EngineGoes
  <2>5. CASE Reader(p)
    <3>1. proc'[p].engine = proc[p].engine
      <4> DEFINE line == Head(proc[p].out)
                 h == [proc[p] EXCEPT !.out = Tail(@)]
                 i == [h EXCEPT !.mail = Append(@, line)]
                 j == [h EXCEPT !.pending = @ \ {w \in proc[p].pending : w.id = line.id}]
      <4>1. \/ proc' = [proc EXCEPT ![p] = h] \/ proc' = [proc EXCEPT ![p] = i]
            \/ proc' = [proc EXCEPT ![p] = j]
        BY <2>5 DEF Reader
      <4>2. h.engine = proc[p].engine /\ i.engine = h.engine /\ j.engine = h.engine
        BY <1>0 DEF ProcRec
      <4> HIDE DEF h, i, j
      <4> QED BY <1>0, <4>1, <4>2 DEF TypeInv
    <3> QED BY <3>1 DEF EngineGoes
  <2> QED BY <1>2, <2>1, <2>2, <2>3, <2>4, <2>5 DEF ProcessStep
<1> QED BY <1>1, <1>2

LEMMA EnginesGo ==
    ASSUME IInv, [Next]_vars, NEW p \in Procs
    PROVE  EngineGoes(p)
<1>1. CASE UNCHANGED proc
  BY <1>1 DEF EngineGoes
<1>2. ASSUME Next PROVE UNCHANGED proc \/ EngineGoes(p)
  <2>1. CASE \/ \E c \in Users : CallStart(c) \/ CallStop(c) \/ \E req \in Ops : CallSend(c, req)
             \/ CallConnect \/ CallRefresh
    BY <2>1 DEF CallStart, CallStop, CallSend, CallConnect, CallRefresh, Call
  <2> QED BY <1>2, <2>1, CallersLeaveEngines, ProcessesLeaveEngines DEF Next
<1> QED BY <1>1, <1>2 DEF vars

(* What the host makes of the head of its channel.                         *)
Takes(p, t) ==
    LET cmd == Head(proc[p].inbox)
    IN /\ Elapses(proc[p].engine, t) /\ cmd \in Cmd
       /\ proc'[p].engine = Process(t.e, cmd).e

LEMMA CommandTaken ==
    ASSUME IInv, NEW p \in Procs, HostCommand(p)
    PROVE  \E t : Takes(p, t)
<1>0. TypeInv /\ Engines /\ proc[p] \in ProcRec /\ proc[p].inbox \in Seq(Cmd)
      /\ proc[p].inbox # <<>>
  BY ProcTypes DEF IInv, Order, HostCommand
<1>1. EngineOK(proc[p].engine)
  BY <1>0, ProcTypes DEF Engines, EngineOK
<1>2. PICK t \in {Unchanged(proc[p].engine)} \cup Ticks(proc[p].engine) :
        proc'[p].engine = Process(t.e, Head(proc[p].inbox)).e
  BY <1>0 DEF HostCommand, TypeInv, ProcRec
<1>3. Elapses(proc[p].engine, t)
  BY <1>1, TimeElapses
<1>4. Head(proc[p].inbox) \in Cmd
  BY <1>0, TailIs
<1> QED BY <1>2, <1>3, <1>4 DEF Takes

LEMMA TickTaken ==
    ASSUME IInv, NEW p \in Procs, HostTick(p)
    PROVE  \E t : Elapses(proc[p].engine, t) /\ proc'[p].engine = t.e
           /\ proc'[p].inbox = proc[p].inbox
<1>0. TypeInv /\ Engines /\ proc[p] \in ProcRec
  BY ProcTypes DEF IInv, Order
<1>1. EngineOK(proc[p].engine)
  BY <1>0, ProcTypes DEF Engines, EngineOK
<1>2. PICK t \in Ticks(proc[p].engine) :
        proc'[p].engine = t.e /\ proc'[p].inbox = proc[p].inbox
  BY <1>0 DEF HostTick, TypeInv, ProcRec
<1> QED BY <1>1, <1>2, TimeElapses

(* The last load of a deck wins, whatever is loaded, unloaded and          *)
(* connected while it goes on.                                             *)
THEOREM TheLastLoadWins == Spec => LastLoadWins
<1> DEFINE Wins(p, d) ==
             LET e == proc[p].engine
             IN proc'[p].engine.decks[d].status = "ready" /\ e.decks[d].status = "loading" =>
                  \E l \in Loads(e, d) :
                     /\ proc'[p].engine.decks[d].track = l.track
                     /\ \A m \in Loads(e, d) : m.load <= l.load
<1>1. ASSUME IInv, [Next]_vars, NEW p \in Procs, NEW d \in Decks PROVE Wins(p, d)
  <2> DEFINE e == proc[p].engine
  <2>0. LoadsInOrder(e)
    BY <1>1 DEF IInv, Order, Engines
  <2> SUFFICES ASSUME proc'[p].engine.decks[d].status = "ready", e.decks[d].status = "loading"
               PROVE  \E l \in Loads(e, d) :
                         /\ proc'[p].engine.decks[d].track = l.track
                         /\ \A m \in Loads(e, d) : m.load <= l.load
    OBVIOUS
  <2>1. ASSUME NEW f, Settles(e, f), f.decks[d].status = "ready",
               f.decks[d].track = proc'[p].engine.decks[d].track
        PROVE  \E l \in Loads(e, d) :
                  /\ proc'[p].engine.decks[d].track = l.track
                  /\ \A m \in Loads(e, d) : m.load <= l.load
    <3>1. PICK l \in Loads(e, d) : l.load = e.decks[d].load /\ l.track = f.decks[d].track
      BY <2>1 DEF Settles
    <3>2. \A m \in Loads(e, d) : m.load <= e.decks[d].load
      BY <2>0 DEF LoadsInOrder
    <3> QED BY <2>1, <3>1, <3>2
  <2>2. CASE proc'[p].engine = e
    BY <2>2
  <2>3. CASE proc'[p].engine = NewEngine(p)
    BY <2>3 DEF NewEngine, NewDeck
  <2>4. CASE HostTick(p)
    <3>1. PICK t : Elapses(e, t) /\ proc'[p].engine = t.e
      BY <1>1, <2>4, TickTaken
    <3> QED BY <2>1, <3>1 DEF Elapses
  <2>5. CASE HostCommand(p)
    <3>1. PICK t : Takes(p, t)
      BY <1>1, <2>5, CommandTaken
    <3>2. EngineOK(t.e) /\ Settles(e, t.e)
      BY <3>1 DEF Takes, Elapses
    <3>3. NothingReady(t.e, proc'[p].engine)
      BY <3>1, <3>2, ProcessIs DEF Takes
    <3>4. t.e.decks[d].status = "ready"
          /\ t.e.decks[d].track = proc'[p].engine.decks[d].track
      BY <3>3 DEF NothingReady
    <3> QED BY <2>1, <3>2, <3>4
  <2> QED BY <1>1, <2>2, <2>3, <2>4, <2>5, EnginesGo DEF EngineGoes
<1>2. IInv /\ [Next]_vars => [\A p \in Procs, d \in Decks : Wins(p, d)]_vars
  BY <1>1
<1> QED BY <1>2, Invariance, PTL DEF Spec, LastLoadWins

(* The sessions in flight are bounded by the engine's own; an older one    *)
(* changes nothing.                                                        *)
THEOREM OldSessionsAreRefused == Spec => OldSessionsStayOut
<1> DEFINE StaysOut(p) ==
             LET before == proc[p]
                 after == proc'[p]
             IN /\ p = client.session.epoch
                /\ Len(after.inbox) < Len(before.inbox) /\ before.life = "up"
                /\ Head(before.inbox).op # Hello
                /\ Head(before.inbox).session < client.session.n
                => /\ after.engine.nextLoad = before.engine.nextLoad
                   /\ after.engine.mixer = before.engine.mixer
<1>1. ASSUME IInv, [Next]_vars, NEW p \in Procs PROVE StaysOut(p)
  <2> DEFINE e == proc[p].engine
             cmd == Head(proc[p].inbox)
  <2> SUFFICES ASSUME p = client.session.epoch, proc[p].life = "up",
                      Len(proc'[p].inbox) < Len(proc[p].inbox),
                      cmd.op # Hello, cmd.session < client.session.n
               PROVE  /\ proc'[p].engine.nextLoad = e.nextLoad
                      /\ proc'[p].engine.mixer = e.mixer
    OBVIOUS
  <2>0. TypeInv /\ proc[p].inbox \in Seq(Cmd) /\ e.session \in Nat
    BY <1>1, ProcTypes DEF IInv
  <2>1. client.session.n <= e.session /\ client.session.n \in Nat
    <3>1. client.session \in Session /\ p # 0
      BY <2>0, ProcBound DEF TypeInv, ClientRec, Procs
    <3>2. FitsIn(proc, client.session)
      BY <1>1 DEF IInv, Mail, Sessions
    <3> QED BY <3>1, <3>2 DEF FitsIn, Session
  <2>2. proc'[p].inbox # proc[p].inbox
    BY <2>0
  <2>3. CASE HostTick(p)
    BY <1>1, <2>2, <2>3, TickTaken
  <2>4. CASE HostCommand(p)
    <3>1. PICK t : Takes(p, t)
      BY <1>1, <2>4, CommandTaken
    <3>2. EngineOK(t.e) /\ t.e.session = e.session /\ t.e.nextLoad = e.nextLoad /\ t.e.mixer = e.mixer
      BY <3>1 DEF Takes, Elapses
    <3>3. cmd \in Cmd /\ cmd.session \in Nat
      BY <3>1 DEF Takes, Cmd
    <3>4. cmd.session < t.e.session
      BY <2>0, <2>1, <3>2, <3>3
    <3>5. proc'[p].engine = t.e
      BY <3>1, <3>2, <3>3, <3>4, ProcessIs DEF Takes
    <3> QED BY <3>2, <3>5
  <2> QED BY <1>1, <2>2, <2>3, <2>4, EnginesGo DEF EngineGoes
<1>2. IInv /\ [Next]_vars => [\A p \in Procs : StaysOut(p)]_vars
  BY <1>1
<1> QED BY <1>2, Invariance, PTL DEF Spec, OldSessionsStayOut

-----------------------------------------------------------------------------
(* The past of an engine: what it showed when it had sent so many events,  *)
(* and the revision of each.  A true event says what changed at its        *)
(* number, a true view shows what was so at its own, and is not ahead.     *)
Shown == [decks : [Decks -> Deck], mixer : Settings, rev : Nat]
Recorded(h, e) ==
    /\ h \in [Nat -> Shown]
    /\ h[e.seq].decks = e.decks /\ h[e.seq].mixer = e.mixer
    /\ \A n \in 1 .. e.seq : h[n].rev <= e.rev
    /\ \A n, m \in 1 .. e.seq : n <= m => h[n].rev <= h[m].rev

Reports(a, event, b) ==
    /\ b.decks = IF event.kind = "deck" THEN [a.decks EXCEPT ![event.deck] = event.data] ELSE a.decks
    /\ b.mixer = IF event.kind = "mixer" THEN event.data ELSE a.mixer
    /\ event.kind = "position" => \A d \in Decks : event.data[d] = a.decks[d].status
TrueEvent(h, e, event) ==
    /\ event.seq \in 1 .. e.seq /\ event.rev = h[event.seq].rev
    /\ Reports(h[event.seq - 1], event, h[event.seq])
TrueView(h, e, v) ==
    /\ v.seq \in 1 .. e.seq
    /\ v.rev \in Nat /\ v.rev <= e.rev
    /\ \A n \in 1 .. e.seq : v.seq < n => v.rev <= h[n].rev
    /\ v.decks = h[v.seq].decks /\ v.mixer = h[v.seq].mixer

(* What an engine may do at once: show the same, or something else and     *)
(* report it.                                                              *)
Shows(e, f) ==
    /\ f.epoch = e.epoch /\ f.session = e.session /\ f.rev = e.rev /\ f.seq = e.seq
    /\ f.decks = e.decks /\ f.mixer = e.mixer
Silent(e, x) ==
    /\ x.events = <<>>
    /\ x.e.seq = e.seq /\ x.e.decks = e.decks /\ x.e.mixer = e.mixer
    /\ x.e.session = e.session \/ (e.session = 0 /\ x.e.session = 1)
Says(e, x, event) ==
    /\ x.events = <<event>> /\ event \in EventRec
    /\ event.epoch = e.epoch /\ event.seq = e.seq + 1 /\ event.rev = x.e.rev
    /\ x.e.seq = e.seq + 1 /\ Reports(e, event, x.e)
    /\ x.e.session \in {e.session, e.session + 1}
Emits(e, x) ==
    /\ x.e \in Engine /\ x.e.epoch = e.epoch /\ x.e.rev >= e.rev
    /\ Silent(e, x) \/ \E event \in EventRec : Says(e, x, event)

LEMMA EmitsTheSame ==
    ASSUME NEW e, NEW f, NEW x, Shows(e, f), Emits(f, x)
    PROVE  Emits(e, x)
<1>1. \A event \in EventRec : Says(f, x, event) => Says(e, x, event)
  BY DEF Shows, Says, Reports
<1>2. Silent(f, x) => Silent(e, x)
  BY DEF Shows, Silent
<1> QED BY <1>1, <1>2 DEF Shows, Emits

LEMMA EngineNumbers ==
    ASSUME NEW e \in Engine
    PROVE  /\ e.seq \in Nat /\ e.rev \in Nat /\ e.session \in Nat /\ e.epoch \in Nat
           /\ e.rev >= e.rev /\ e.session \in {e.session, e.session + 1}
           /\ e.decks \in [Decks -> Deck] /\ e.mixer \in Settings
BY DEF Engine

LEMMA EmitsNothing ==
    ASSUME NEW e \in Engine
    PROVE  Emits(e, Unchanged(e)) /\ Emits(e, Refused(e))
<1>1. \A x : x.e = e /\ x.events = <<>> => Emits(e, x)
  BY EngineNumbers DEF Emits, Silent
<1>2. /\ Unchanged(e).e = e /\ Unchanged(e).events = <<>>
      /\ Refused(e).e = e /\ Refused(e).events = <<>>
  BY DEF Unchanged, Refused
<1> QED BY <1>1, <1>2

LEMMA EmittingSays ==
    ASSUME NEW e \in Engine, NEW f \in Engine, NEW kind, NEW deck, NEW data,
           \A n, m \in Nat, k \in Nat :
              [epoch |-> k, kind |-> kind, deck |-> deck, seq |-> n, rev |-> m, data |-> data] \in EventRec,
           f.epoch = e.epoch, f.seq = e.seq, f.rev >= e.rev,
           f.session \in {e.session, e.session + 1},
           f.decks = IF kind = "deck" THEN [e.decks EXCEPT ![deck] = data] ELSE e.decks,
           f.mixer = IF kind = "mixer" THEN data ELSE e.mixer,
           kind = "position" => \A d \in Decks : data[d] = e.decks[d].status
    PROVE  Emits(e, Emitting(f, kind, deck, data))
<1> DEFINE g == [f EXCEPT !.seq = @ + 1]
           x == Emitting(f, kind, deck, data)
           event == Event(f, kind, deck, data)
<1>1. g \in Engine /\ g.epoch = f.epoch /\ g.rev = f.rev /\ g.seq = f.seq + 1
      /\ g.decks = f.decks /\ g.mixer = f.mixer /\ g.session = f.session
  BY DEF Engine
<1>2. /\ event.epoch = f.epoch /\ event.seq = f.seq + 1 /\ event.rev = f.rev
      /\ event.kind = kind /\ event.deck = deck /\ event.data = data
      /\ event \in EventRec
  BY DEF Event, Engine
<1>3. x.e = g /\ x.events = <<event>>
  BY DEF Emitting
<1> HIDE DEF g, x, event
<1>4. Reports(e, event, x.e)
  BY <1>1, <1>2, <1>3 DEF Reports
<1>5. Says(e, x, event)
  BY <1>1, <1>2, <1>3, <1>4 DEF Says
<1>6. Emits(e, x)
  BY <1>1, <1>2, <1>3, <1>5 DEF Emits
<1> QED BY <1>6 DEF x

LEMMA ChangeDeckEmits ==
    ASSUME NEW e \in Engine, NEW d \in Decks, NEW deck \in Deck
    PROVE  Emits(e, ChangeDeck(e, d, deck))
<1> DEFINE ds == [e.decks EXCEPT ![d] = deck]
           f == [e EXCEPT !.rev = @ + 1, !.decks[d] = deck]
           h == [e EXCEPT !.decks = ds]
<1>1. e.decks \in [Decks -> Deck] /\ e.rev \in Nat /\ ds \in [Decks -> Deck]
  BY DEF Engine
<1>2. h \in Engine
  BY <1>1 DEF Engine
<1>3. f = [h EXCEPT !.rev = e.rev + 1]
  BY DEF Engine
<1>4. h.epoch = e.epoch /\ h.session = e.session /\ h.seq = e.seq /\ h.mixer = e.mixer /\ h.decks = ds
  BY DEF Engine
<1> HIDE DEF h, f, ds
<1>5. f \in Engine /\ f.epoch = h.epoch /\ f.session = h.session /\ f.seq = h.seq
      /\ f.mixer = h.mixer /\ f.decks = h.decks /\ f.rev = e.rev + 1
  BY <1>1, <1>2, <1>3 DEF Engine
<1>6. \A n, m \in Nat, k \in Nat :
        [epoch |-> k, kind |-> "deck", deck |-> d, seq |-> n, rev |-> m, data |-> deck] \in EventRec
  BY DEF EventRec, EventOf
<1>7. ChangeDeck(e, d, deck) = Emitting(f, "deck", d, deck)
  BY DEF ChangeDeck, f
<1>8. f.rev >= e.rev
  BY <1>1, <1>5
<1>9. f.decks = [e.decks EXCEPT ![d] = deck]
  BY <1>4, <1>5 DEF ds
<1>10. Emits(e, Emitting(f, "deck", d, deck))
  BY <1>4, <1>5, <1>6, <1>8, <1>9, EmittingSays
<1> QED BY <1>7, <1>10

LEMMA OperationsEmit ==
    ASSUME NEW e, EngineOK(e), NEW d \in Decks
    PROVE  /\ \A t \in Tracks : Emits(e, DeckLoad(e, d, t))
           /\ Emits(e, DeckUnload(e, d))
           /\ \A status \in {"playing", "paused"} : Emits(e, DeckTransport(e, d, status))
           /\ Emits(e, DeckMark(e, d)) /\ Emits(e, DeckClear(e, d))
           /\ Emits(e, LoopEnable(e, d)) /\ Emits(e, DeckSeek(e, d))
           /\ Emits(e, DeckAdjust(e, d)) /\ Emits(e, DeckSync(e, d))
<1> DEFINE deck == e.decks[d]
<1>0. e \in Engine /\ e.nextLoad \in Nat /\ e.loads \in SUBSET Load
  BY DEF EngineOK, Engine
<1>1. /\ deck \in Deck /\ deck.status \in Statuses /\ deck.load \in Nat
      /\ deck.marks \in BOOLEAN /\ deck.setting \in Settings
  BY DeckTypes
<1>2. Emits(e, Refused(e)) /\ Emits(e, ChangeDeck(e, d, deck))
  BY <1>0, <1>1, EmitsNothing, ChangeDeckEmits
<1>3. ASSUME NEW status \in Statuses PROVE [deck EXCEPT !.status = status] \in Deck
  BY <1>1 DEF Deck
<1>4. \A b \in BOOLEAN : [deck EXCEPT !.marks = b] \in Deck
  BY <1>1 DEF Deck
<1>5. [deck EXCEPT !.setting = 1 - @] \in Deck
  BY <1>1 DEF Deck, Settings
<1>6. ASSUME NEW t \in Tracks PROVE Emits(e, DeckLoad(e, d, t))
  <2> DEFINE id == e.nextLoad + 1
             load == [deck |-> d, load |-> id, track |-> t]
             e1 == [e EXCEPT !.nextLoad = id, !.loads = @ \cup {load}]
             new == [e.decks[d] EXCEPT !.status = "loading", !.track = NoTrack,
                                       !.load = id, !.marks = FALSE]
  <2>1. load \in Load /\ id \in Nat
    BY <1>0 DEF Load
  <2>2. new \in Deck
    BY <2>1, <1>1 DEF Deck, Statuses
  <2>3. e1 \in Engine /\ Shows(e, e1)
    BY <1>0, <2>1 DEF Engine, Shows
  <2>4. DeckLoad(e, d, t) = ChangeDeck(e1, d, new)
    BY DEF DeckLoad
  <2> HIDE DEF new, e1
  <2> QED BY <2>2, <2>3, <2>4, ChangeDeckEmits, EmitsTheSame
<1>7. Emits(e, DeckUnload(e, d))
  <2> DEFINE e1 == [e EXCEPT !.loads = {l \in @ : l.deck # d}]
  <2>1. e1 \in Engine /\ Shows(e, e1)
    BY <1>0 DEF Engine, Shows
  <2>2. NewDeck \in Deck
    BY DEF NewDeck, Deck, Statuses, Settings
  <2>3. DeckUnload(e, d) = ChangeDeck(e1, d, NewDeck)
    BY DEF DeckUnload
  <2> HIDE DEF e1
  <2> QED BY <2>1, <2>2, <2>3, ChangeDeckEmits, EmitsTheSame
<1>8. ASSUME NEW status \in {"playing", "paused"} PROVE Emits(e, DeckTransport(e, d, status))
  <2>1. status \in Statuses
    BY DEF Statuses, Loaded
  <2> QED BY <2>1, <1>0, <1>2, <1>3, ChangeDeckEmits DEF DeckTransport
<1>9. \A b \in BOOLEAN : Emits(e, ChangeDeck(e, d, [deck EXCEPT !.marks = b]))
  BY <1>0, <1>4, ChangeDeckEmits
<1>10. Emits(e, DeckAdjust(e, d))
  BY <1>0, <1>5, ChangeDeckEmits DEF DeckAdjust
<1> QED BY <1>2, <1>6, <1>7, <1>8, <1>9, <1>10 DEF DeckMark, DeckClear, LoopEnable, DeckSeek, DeckSync

LEMMA MixerEmits ==
    ASSUME NEW e, EngineOK(e)
    PROVE  Emits(e, MixerSet(e)) /\ Emits(e, MetersSubscribe(e))
<1> DEFINE k == [e EXCEPT !.rev = e.rev + 1]
           f == [e EXCEPT !.rev = @ + 1, !.mixer = 1 - @]
           h == [e EXCEPT !.rev = @ + 1, !.meters = ~@]
<1>1. e \in Engine /\ e.rev \in Nat /\ e.mixer \in Settings /\ e.meters \in BOOLEAN
  BY DEF EngineOK, Engine
<1>2. 1 - e.mixer \in Settings
  BY <1>1 DEF Settings
<1>3. k \in Engine /\ k.rev = e.rev + 1 /\ k.epoch = e.epoch /\ k.session = e.session
      /\ k.seq = e.seq /\ k.decks = e.decks /\ k.mixer = e.mixer
  BY <1>1 DEF Engine
<1>4. f = [k EXCEPT !.mixer = 1 - e.mixer] /\ h = [k EXCEPT !.meters = ~e.meters]
  BY <1>1 DEF Engine
<1>5. MixerSet(e) = Emitting(f, "mixer", NoTrack, f.mixer) /\ MetersSubscribe(e) = Unchanged(h)
  BY DEF MixerSet, MetersSubscribe
<1> HIDE DEF k, f, h
<1>6. f \in Engine /\ f.rev = k.rev /\ f.epoch = k.epoch /\ f.session = k.session
      /\ f.seq = k.seq /\ f.decks = k.decks /\ f.mixer = 1 - e.mixer
  BY <1>2, <1>3, <1>4 DEF Engine
<1>7. h \in Engine /\ h.rev = k.rev /\ h.epoch = k.epoch /\ h.session = k.session
      /\ h.seq = k.seq /\ h.decks = k.decks /\ h.mixer = k.mixer
  BY <1>1, <1>3, <1>4 DEF Engine
<1>8. \A n, m \in Nat, i \in Nat :
        [epoch |-> i, kind |-> "mixer", deck |-> NoTrack, seq |-> n, rev |-> m,
         data |-> f.mixer] \in EventRec
  BY <1>2, <1>6 DEF EventRec, EventOf
<1>9. f.rev >= e.rev /\ h.rev >= e.rev
  BY <1>1, <1>3, <1>6, <1>7
<1>10. Emits(e, Emitting(f, "mixer", NoTrack, f.mixer))
  <2> DEFINE data == f.mixer
  <2>1. \A n, m \in Nat, i \in Nat :
          [epoch |-> i, kind |-> "mixer", deck |-> NoTrack, seq |-> n, rev |-> m,
           data |-> data] \in EventRec
    BY <1>8
  <2>2. f.mixer = data
    OBVIOUS
  <2> HIDE DEF data
  <2>3. Emits(e, Emitting(f, "mixer", NoTrack, data))
    BY <2>1, <2>2, <1>1, <1>3, <1>6, <1>9, EmittingSays
  <2> QED BY <2>2, <2>3
<1>11. Emits(e, Unchanged(h))
  <2>1. Unchanged(h).e = h /\ Unchanged(h).events = <<>>
    BY DEF Unchanged
  <2>2. Silent(e, Unchanged(h))
    BY <2>1, <1>3, <1>7 DEF Silent
  <2> QED BY <2>1, <2>2, <1>3, <1>7, <1>9 DEF Emits
<1> QED BY <1>5, <1>10, <1>11

LEMMA HandleEmits ==
    ASSUME NEW e, EngineOK(e), NEW op \in Commands
    PROVE  Emits(e, Handle(e, op))
<1>1. CASE op.name = "load"
  <2>1. op.deck \in Decks /\ op.track \in Tracks
    BY <1>1 DEF Commands
  <2> QED BY <1>1, <2>1, OperationsEmit DEF Handle
<1>2. CASE op.name \in {"unload", "play", "pause", "mark", "clear", "enable", "seek", "adjust", "sync"}
  <2>1. op.deck \in Decks
    BY <1>2 DEF Commands
  <2> QED BY <1>2, <2>1, OperationsEmit DEF Handle
<1>3. CASE op.name \in {"mixer", "meters", "snapshot", "junction"}
  BY <1>3, MixerEmits, EmitsNothing DEF Handle, EngineOK
<1> QED BY <1>1, <1>2, <1>3 DEF Commands

LEMMA ProcessEmits ==
    ASSUME NEW e, EngineOK(e), NEW cmd \in Cmd
    PROVE  Emits(e, Process(e, cmd))
<1>1. cmd.id \in Nat /\ cmd.op \in Requests /\ e \in Engine /\ e.session \in Nat
      /\ e.session + 1 \in Nat /\ e.rev \in Nat
  BY DEF Cmd, EngineOK, Engine
<1>2. CASE cmd.op = Hello
  <2> DEFINE h == [e EXCEPT !.session = e.session + 1]
             f == [e EXCEPT !.session = @ + 1, !.last = cmd.id]
             data == e.session
  <2>1. h \in Engine /\ h.session = e.session + 1 /\ h.epoch = e.epoch /\ h.decks = e.decks
        /\ h.mixer = e.mixer /\ h.seq = e.seq /\ h.rev = e.rev
    BY <1>1 DEF Engine
  <2>2. f = [h EXCEPT !.last = cmd.id]
    BY <1>1 DEF Engine
  <2> HIDE DEF h, f
  <2>3. f \in Engine /\ f.session = e.session + 1 /\ f.epoch = e.epoch /\ f.decks = e.decks
        /\ f.mixer = e.mixer /\ f.seq = e.seq /\ f.rev = e.rev
    BY <1>1, <2>1, <2>2 DEF Engine
  <2>4. \A n, m \in Nat, k \in Nat :
          [epoch |-> k, kind |-> "invalidated", deck |-> NoTrack, seq |-> n, rev |-> m,
           data |-> data] \in EventRec
    BY <1>1 DEF EventRec, EventOf
  <2>5. Process(e, cmd) = IF e.session = 0 THEN Unchanged(f)
                          ELSE Emitting(f, "invalidated", NoTrack, data)
    BY <1>2 DEF Process, Hello, BeginSession, f
  <2> HIDE DEF data
  <2>6. Emits(e, Emitting(f, "invalidated", NoTrack, data))
    <3>1. f.rev >= e.rev /\ f.session \in {e.session, e.session + 1}
      BY <1>1, <2>3
    <3> QED BY <1>1, <2>3, <2>4, <3>1, EmittingSays
  <2>7. e.session = 0 => Emits(e, Unchanged(f))
    <3>1. Unchanged(f).e = f /\ Unchanged(f).events = <<>> /\ f.rev >= e.rev
      BY <1>1, <2>3 DEF Unchanged
    <3> QED BY <1>1, <2>3, <3>1 DEF Emits, Silent
  <2> QED BY <2>5, <2>6, <2>7
<1>3. CASE cmd.op # Hello
  <2>1. cmd.op \in Commands /\ cmd.op.name # "hello"
    BY <1>1, <1>3 DEF Requests, Commands
  <2>2. CASE ~Authorized(e, cmd)
    BY <2>1, <2>2, <1>1, EmitsNothing DEF Process
  <2>3. CASE Authorized(e, cmd)
    <3> DEFINE f == [e EXCEPT !.last = cmd.id]
    <3>1. Process(e, cmd) = Handle(f, cmd.op)
      BY <2>1, <2>3 DEF Process
    <3>2. f \in Engine /\ Shows(e, f) /\ f.loads = e.loads /\ f.nextLoad = e.nextLoad
      BY <1>1 DEF Engine, Shows
    <3> HIDE DEF f
    <3>3. EngineOK(f)
      BY <3>2 DEF EngineOK, LoadsInOrder, Loads, Shows
    <3> QED BY <2>1, <3>1, <3>2, <3>3, HandleEmits, EmitsTheSame
  <2> QED BY <2>2, <2>3
<1> QED BY <1>2, <1>3

LEMMA TimeEmits ==
    ASSUME NEW e, EngineOK(e), NEW t \in {Unchanged(e)} \cup Ticks(e)
    PROVE  Emits(e, t)
<1>0. e \in Engine /\ e.seq \in Nat /\ e.rev \in Nat /\ e.loads \in SUBSET Load
  BY DEF EngineOK, Engine
<1>1. CASE t = Unchanged(e)
  BY <1>0, <1>1, EmitsNothing
<1>2. ASSUME NEW l \in e.loads, NEW status \in {"ready", "error"}, t = ResolveLoad(e, l, status)
      PROVE  Emits(e, t)
  <2> DEFINE f == [e EXCEPT !.loads = @ \ {l}]
             d == l.deck
             track == IF status = "ready" THEN l.track ELSE NoTrack
             deck == [e.decks[d] EXCEPT !.status = status, !.load = 0, !.track = track]
  <2>1. d \in Decks /\ l.track \in Tracks
    BY <1>0 DEF Load
  <2>2. f \in Engine /\ Shows(e, f)
    BY <1>0 DEF Engine, Shows
  <2>3. deck \in Deck
    <3>1. track \in Tracks \cup {NoTrack} /\ status \in Statuses
      BY <2>1 DEF Statuses, Loaded
    <3> HIDE DEF track
    <3> QED BY <2>1, <3>1, DeckTypes DEF Deck
  <2>4. t = IF Awaited(e, l) THEN ChangeDeck(f, d, deck) ELSE Unchanged(f)
    BY <1>2 DEF ResolveLoad
  <2> HIDE DEF f, d, deck
  <2> QED BY <2>1, <2>2, <2>3, <2>4, ChangeDeckEmits, EmitsNothing, EmitsTheSame DEF d
<1>3. ASSUME NEW d \in Playing(e), t = ReachEnd(e, d) PROVE Emits(e, t)
  <2> DEFINE deck == [e.decks[d] EXCEPT !.status = "paused"]
  <2>1. d \in Decks
    BY DEF Playing
  <2>2. deck \in Deck
    BY <2>1, DeckTypes DEF Deck, Statuses, Loaded
  <2>3. t = ChangeDeck(e, d, deck)
    BY <1>3 DEF ReachEnd
  <2> HIDE DEF deck
  <2> QED BY <1>0, <2>1, <2>2, <2>3, ChangeDeckEmits
<1>4. CASE t = Positions(e)
  <2> DEFINE data == [d \in Decks |-> e.decks[d].status]
  <2>1. data \in [Decks -> Statuses] /\ \A d \in Decks : data[d] = e.decks[d].status
    BY DeckTypes
  <2>2. t = Emitting(e, "position", NoTrack, data)
    BY <1>4 DEF Positions
  <2> HIDE DEF data
  <2>3. \A n, m \in Nat, k \in Nat :
          [epoch |-> k, kind |-> "position", deck |-> NoTrack, seq |-> n, rev |-> m,
           data |-> data] \in EventRec
    BY <2>1 DEF EventRec, EventOf
  <2> QED BY <1>0, <2>1, <2>2, <2>3, EngineNumbers, EmittingSays
<1>5. CASE t = Meters(e)
  <2>1. \A n, m \in Nat, k \in Nat :
          [epoch |-> k, kind |-> "meters", deck |-> NoTrack, seq |-> n, rev |-> m,
           data |-> NoTrack] \in EventRec
    BY DEF EventRec, EventOf
  <2>2. Emits(e, Emitting(e, "meters", NoTrack, NoTrack))
    BY <1>0, <2>1, EngineNumbers, EmittingSays
  <2> QED BY <1>5, <2>2 DEF Meters
<1> QED BY <1>1, <1>2, <1>3, <1>4, <1>5 DEF Ticks

(* The past of an engine goes on: what was true of it stays true.          *)
Continues(h, e, g, f) ==
    /\ e.seq <= f.seq
    /\ \A event : TrueEvent(h, e, event) => TrueEvent(g, f, event)
    /\ \A v : TrueView(h, e, v) => TrueView(g, f, v)

LEMMA PastGoesOn ==
    ASSUME NEW e \in Engine, NEW h, Recorded(h, e), NEW x, Emits(e, x)
    PROVE  \E g : /\ Recorded(g, x.e) /\ Continues(h, e, g, x.e)
                  /\ \A k \in 1 .. Len(x.events) : TrueEvent(g, x.e, x.events[k])
<1> DEFINE f == x.e
<1>0. /\ e.seq \in Nat /\ e.rev \in Nat /\ f \in Engine /\ f.seq \in Nat /\ f.rev \in Nat
      /\ f.rev >= e.rev /\ f.decks \in [Decks -> Deck] /\ f.mixer \in Settings
      /\ h \in [Nat -> Shown] /\ \A n \in Nat : h[n].rev \in Nat
  BY EngineNumbers DEF Emits, Recorded, Shown
<1>1. CASE Silent(e, x)
  <2>1. f.seq = e.seq /\ f.decks = e.decks /\ f.mixer = e.mixer /\ x.events = <<>>
    BY <1>1 DEF Silent
  <2> HIDE DEF f
  <2>2. Recorded(h, f)
    BY <1>0, <2>1 DEF Recorded
  <2>3. Continues(h, e, h, f)
    <3>1. ASSUME NEW v, TrueView(h, e, v) PROVE TrueView(h, f, v)
      <4>1. /\ v.seq \in 1 .. f.seq /\ v.rev \in Nat /\ v.rev <= e.rev
            /\ v.decks = h[v.seq].decks /\ v.mixer = h[v.seq].mixer
        BY <2>1, <3>1 DEF TrueView
      <4>2. v.rev <= f.rev
        BY <1>0, <4>1
      <4>3. \A n \in 1 .. f.seq : v.seq < n => v.rev <= h[n].rev
        BY <2>1, <3>1 DEF TrueView
      <4> QED BY <4>1, <4>2, <4>3 DEF TrueView
    <3> QED BY <1>0, <2>1, <3>1 DEF Continues, TrueEvent
  <2> QED BY <2>1, <2>2, <2>3 DEF f
<1>2. ASSUME NEW event \in EventRec, Says(e, x, event)
      PROVE  \E g : /\ Recorded(g, f) /\ Continues(h, e, g, f)
                    /\ \A k \in 1 .. Len(x.events) : TrueEvent(g, f, x.events[k])
  <2> DEFINE n == e.seq + 1
             now == [decks |-> f.decks, mixer |-> f.mixer, rev |-> f.rev]
             g == [h EXCEPT ![n] = now]
  <2>1. /\ x.events = <<event>> /\ event.seq = n /\ event.rev = f.rev /\ f.seq = n
        /\ Reports(e, event, f)
    BY <1>2 DEF Says
  <2>2. now \in Shown /\ n \in Nat
    BY <1>0 DEF Shown
  <2> HIDE DEF f
  <2>3. /\ g \in [Nat -> Shown]
        /\ g[n].decks = f.decks /\ g[n].mixer = f.mixer /\ g[n].rev = f.rev
        /\ \A k \in Nat : k # n => g[k] = h[k]
    BY <1>0, <2>2
  <2>4. \A k \in 0 .. e.seq : g[k] = h[k]
    BY <1>0, <2>3
  <2> HIDE DEF g, now
  <2>5. Recorded(g, f)
    <3>1. \A k \in 1 .. e.seq : g[k].rev <= f.rev
      BY <1>0, <2>4 DEF Recorded
    <3>2. \A k \in 1 .. f.seq : k = n \/ k \in 1 .. e.seq
      BY <1>0, <2>1
    <3>3. \A k \in 1 .. f.seq : g[k].rev <= f.rev
      BY <1>0, <2>3, <3>1, <3>2
    <3>4. \A k, m \in 1 .. f.seq : k <= m => g[k].rev <= g[m].rev
      <4> SUFFICES ASSUME NEW k \in 1 .. f.seq, NEW m \in 1 .. f.seq, k <= m
                   PROVE  g[k].rev <= g[m].rev
        OBVIOUS
      <4>1. CASE m = n
        BY <2>3, <3>3, <4>1
      <4>2. CASE m # n
        <5>1. m \in 1 .. e.seq /\ k \in 1 .. e.seq
          BY <1>0, <2>1, <3>2, <4>2
        <5> QED BY <1>0, <2>4, <5>1 DEF Recorded
      <4> QED BY <4>1, <4>2
    <3> QED BY <2>1, <2>3, <3>3, <3>4 DEF Recorded
  <2>6. TrueEvent(g, f, event)
    <3>1. e.seq \in 0 .. e.seq /\ n - 1 = e.seq /\ n \in 1 .. f.seq
      BY <1>0, <2>1
    <3>2. g[n - 1].decks = e.decks /\ g[n - 1].mixer = e.mixer
      BY <2>4, <3>1 DEF Recorded
    <3>3. Reports(g[n - 1], event, g[n])
      BY <2>1, <2>3, <3>2 DEF Reports
    <3> QED BY <2>1, <2>3, <3>1, <3>3 DEF TrueEvent
  <2>7. \A k \in 1 .. Len(x.events) : TrueEvent(g, f, x.events[k])
    BY <2>1, <2>6
  <2>8. \A ev : TrueEvent(h, e, ev) => TrueEvent(g, f, ev)
    <3> SUFFICES ASSUME NEW ev, TrueEvent(h, e, ev) PROVE TrueEvent(g, f, ev)
      OBVIOUS
    <3>1. /\ ev.seq \in 1 .. e.seq /\ ev.rev = h[ev.seq].rev
          /\ Reports(h[ev.seq - 1], ev, h[ev.seq])
      BY DEF TrueEvent
    <3>2. ev.seq \in 0 .. e.seq /\ ev.seq - 1 \in 0 .. e.seq /\ ev.seq \in 1 .. f.seq
      BY <1>0, <2>1, <3>1
    <3>3. g[ev.seq] = h[ev.seq] /\ g[ev.seq - 1] = h[ev.seq - 1]
      BY <2>4, <3>2
    <3> QED BY <3>1, <3>2, <3>3 DEF TrueEvent
  <2>9. \A v : TrueView(h, e, v) => TrueView(g, f, v)
    <3> SUFFICES ASSUME NEW v, TrueView(h, e, v) PROVE TrueView(g, f, v)
      OBVIOUS
    <3>1. v.seq \in 1 .. e.seq /\ v.rev \in Nat /\ v.rev <= e.rev
      BY DEF TrueView
    <3>2. v.seq \in 0 .. e.seq /\ v.seq \in 1 .. f.seq /\ v.rev <= f.rev
      BY <1>0, <2>1, <3>1
    <3>3. g[v.seq] = h[v.seq]
      BY <2>4, <3>2
    <3>4. ASSUME NEW k \in 1 .. f.seq, v.seq < k PROVE v.rev <= g[k].rev
      <4>1. CASE k = n
        BY <2>3, <3>2, <4>1
      <4>2. CASE k # n
        <5>1. k \in 1 .. e.seq /\ k \in 0 .. e.seq
          BY <1>0, <2>1, <4>2
        <5> QED BY <2>4, <3>4, <5>1 DEF TrueView
      <4> QED BY <4>1, <4>2
    <3> QED BY <3>1, <3>2, <3>3, <3>4 DEF TrueView
  <2>10. Continues(h, e, g, f)
    BY <1>0, <2>1, <2>8, <2>9 DEF Continues
  <2> QED BY <2>5, <2>7, <2>10
<1> QED BY <1>1, <1>2 DEF Emits

LEMMA SnapshotIsTrue ==
    ASSUME NEW e \in Engine, NEW h, Recorded(h, e), e.seq >= 1
    PROVE  TrueView(h, e, Snapshot(e))
<1>1. Snapshot(e).seq = e.seq /\ Snapshot(e).rev = e.rev
      /\ Snapshot(e).decks = e.decks /\ Snapshot(e).mixer = e.mixer
  BY DEF Snapshot
<1> QED BY <1>1, EngineNumbers DEF TrueView, Recorded

(* The view                                                                *)
View == [epoch : Nat, session : Nat, rev : Nat, seq : Nat, dropped : BOOLEAN,
         invalidated : BOOLEAN, decks : [Decks -> Deck], mixer : Settings]
ViewFits(h, e, v) ==
    v.seq \in 1 .. e.seq /\ (v.dropped \/ v.invalidated \/ TrueView(h, e, v))

LEMMA EventTypes ==
    ASSUME NEW event \in EventRec
    PROVE  /\ event.epoch \in Nat /\ event.seq \in Nat /\ event.rev \in Nat
           /\ event.kind \in {"deck", "mixer", "position", "meters", "invalidated"}
           /\ event.kind = "deck" => event.deck \in Decks /\ event.data \in Deck
           /\ event.kind = "mixer" => event.data \in Settings
           /\ event.kind = "position" => event.data \in [Decks -> Statuses]
<1>1. CASE event \in EventOf("deck", Decks, Deck)
  BY <1>1 DEF EventOf
<1>2. CASE event \in EventOf("mixer", {NoTrack}, Settings)
  BY <1>2 DEF EventOf
<1>3. CASE event \in EventOf("position", {NoTrack}, [Decks -> Statuses])
  BY <1>3 DEF EventOf
<1>4. CASE event \in EventOf("meters", {NoTrack}, {NoTrack}) \cup EventOf("invalidated", {NoTrack}, Nat)
  BY <1>4 DEF EventOf
<1> QED BY <1>1, <1>2, <1>3, <1>4 DEF EventRec

(* Laying an event over a view, field by field.                            *)
LEMMA OverlaidIs ==
    ASSUME NEW v \in View, NEW event \in EventRec, event.kind # "invalidated"
    PROVE  LET r == Overlaid(v, event)
           IN /\ r \in View
              /\ r.epoch = v.epoch /\ r.session = v.session /\ r.seq = v.seq
              /\ r.dropped = v.dropped /\ r.invalidated = v.invalidated
              /\ r.rev = IF event.kind = "meters" THEN v.rev ELSE event.rev
              /\ r.mixer = IF event.kind = "mixer" THEN event.data ELSE v.mixer
              /\ event.kind = "deck" => r.decks = [v.decks EXCEPT ![event.deck] = event.data]
              /\ event.kind = "position" =>
                   r.decks = [d \in Decks |-> [v.decks[d] EXCEPT !.status = event.data[d]]]
              /\ event.kind \in {"mixer", "meters"} => r.decks = v.decks
<1>0. v.decks \in [Decks -> Deck] /\ event.rev \in Nat
  BY EventTypes DEF View
<1>1. CASE event.kind = "deck"
  <2> DEFINE ds == [v.decks EXCEPT ![event.deck] = event.data]
  <2>1. ds \in [Decks -> Deck]
    BY <1>0, <1>1, EventTypes
  <2>2. Overlaid(v, event) = [v EXCEPT !.rev = event.rev, !.decks = ds]
    BY <1>1 DEF Overlaid, View
  <2> HIDE DEF ds
  <2>3. LET r == [v EXCEPT !.rev = event.rev, !.decks = ds]
        IN r \in View /\ r.epoch = v.epoch /\ r.session = v.session /\ r.seq = v.seq
           /\ r.dropped = v.dropped /\ r.invalidated = v.invalidated
           /\ r.rev = event.rev /\ r.mixer = v.mixer /\ r.decks = ds
    BY <1>0, <2>1 DEF View
  <2> QED BY <1>1, <2>2, <2>3 DEF ds
<1>2. CASE event.kind = "mixer"
  <2>1. Overlaid(v, event) = [v EXCEPT !.rev = event.rev, !.mixer = event.data]
    BY <1>2 DEF Overlaid
  <2>2. LET r == [v EXCEPT !.rev = event.rev, !.mixer = event.data]
        IN r \in View /\ r.epoch = v.epoch /\ r.session = v.session /\ r.seq = v.seq
           /\ r.dropped = v.dropped /\ r.invalidated = v.invalidated
           /\ r.rev = event.rev /\ r.mixer = event.data /\ r.decks = v.decks
    BY <1>0, <1>2, EventTypes DEF View
  <2> QED BY <1>2, <2>1, <2>2
<1>3. CASE event.kind = "position"
  <2> DEFINE ds == [d \in Decks |-> [v.decks[d] EXCEPT !.status = event.data[d]]]
  <2>1. ds \in [Decks -> Deck]
    <3>1. ASSUME NEW d \in Decks PROVE [v.decks[d] EXCEPT !.status = event.data[d]] \in Deck
      <4>1. v.decks[d] \in Deck /\ event.data[d] \in Statuses
        BY <1>0, <1>3, EventTypes
      <4> QED BY <4>1 DEF Deck
    <3> QED BY <3>1
  <2>2. Overlaid(v, event) = [v EXCEPT !.rev = event.rev, !.decks = ds]
    BY <1>3 DEF Overlaid, View
  <2> HIDE DEF ds
  <2>3. LET r == [v EXCEPT !.rev = event.rev, !.decks = ds]
        IN r \in View /\ r.epoch = v.epoch /\ r.session = v.session /\ r.seq = v.seq
           /\ r.dropped = v.dropped /\ r.invalidated = v.invalidated
           /\ r.rev = event.rev /\ r.mixer = v.mixer /\ r.decks = ds
    BY <1>0, <2>1 DEF View
  <2> QED BY <1>3, <2>2, <2>3 DEF ds
<1>4. CASE event.kind = "meters"
  BY <1>4 DEF Overlaid
<1> QED BY <1>1, <1>2, <1>3, <1>4, EventTypes

LEMMA CountedIs ==
    ASSUME NEW v \in View, NEW event \in EventRec
    PROVE  LET r == Counted(v, event)
           IN /\ r \in View /\ r.seq = event.seq /\ r.dropped = (v.dropped \/ Missed(v, event))
              /\ r.epoch = v.epoch /\ r.session = v.session /\ r.rev = v.rev
              /\ r.invalidated = v.invalidated /\ r.decks = v.decks /\ r.mixer = v.mixer
<1>1. event.seq \in Nat /\ v.dropped \in BOOLEAN /\ (v.dropped \/ Missed(v, event)) \in BOOLEAN
  BY EventTypes DEF View
<1> DEFINE lost == v.dropped \/ Missed(v, event)
<1>2. Counted(v, event) = [v EXCEPT !.seq = event.seq, !.dropped = lost] /\ lost \in BOOLEAN
  BY <1>1 DEF Counted, View
<1> HIDE DEF lost
<1>3. LET r == [v EXCEPT !.seq = event.seq, !.dropped = lost]
      IN /\ r \in View /\ r.seq = event.seq /\ r.dropped = lost
         /\ r.epoch = v.epoch /\ r.session = v.session /\ r.rev = v.rev
         /\ r.invalidated = v.invalidated /\ r.decks = v.decks /\ r.mixer = v.mixer
  BY <1>1, <1>2 DEF View
<1> QED BY <1>2, <1>3 DEF lost

(* What reduceEngineEvent makes of a view and an event.                    *)
LEMMA ReduceIs ==
    ASSUME NEW v \in View, NEW event \in EventRec
    PROVE  /\ ReduceEvent(v, event) \in View
           /\ ReduceEvent(v, event).epoch = v.epoch
<1> DEFINE next == Counted(v, event)
<1>1. next \in View /\ next.epoch = v.epoch
  BY CountedIs
<1> HIDE DEF next
<1>2. [next EXCEPT !.invalidated = TRUE] \in View
      /\ [next EXCEPT !.invalidated = TRUE].epoch = v.epoch
  BY <1>1 DEF View
<1>3. event.kind # "invalidated" =>
        Overlaid(next, event) \in View /\ Overlaid(next, event).epoch = v.epoch
  BY <1>1, OverlaidIs
<1> QED BY <1>1, <1>2, <1>3 DEF ReduceEvent, next

(* An event of the engine keeps a view true, or it is seen that it may not *)
(* be: the next event leads from what the view shows to what its engine    *)
(* showed then, a later one is a gap, another says nothing new.            *)
LEMMA ReduceFits ==
    ASSUME NEW e \in Engine, NEW h, Recorded(h, e), e.epoch # 0,
           NEW v \in View, v.epoch = e.epoch, ViewFits(h, e, v),
           NEW event \in EventRec, event.epoch = e.epoch => TrueEvent(h, e, event)
    PROVE  ViewFits(h, e, ReduceEvent(v, event))
<1> DEFINE next == Counted(v, event)
           r == ReduceEvent(v, event)
<1>1. CASE Foreign(v, event) \/ event.seq <= v.seq
  BY <1>1 DEF ReduceEvent
<1>2. CASE ~Foreign(v, event) /\ ~(event.seq <= v.seq)
  <2>0. /\ v.seq \in Nat /\ event.seq \in Nat /\ v.seq \in 1 .. e.seq /\ e.seq \in Nat
        /\ v.dropped \in BOOLEAN /\ v.invalidated \in BOOLEAN
    BY EventTypes, EngineNumbers DEF View, ViewFits
  <2>1. /\ TrueEvent(h, e, event) /\ event.seq \in 1 .. e.seq /\ event.seq > v.seq
        /\ event.epoch = v.epoch /\ v.epoch # 0
    BY <1>2, <2>0 DEF Foreign, TrueEvent
  <2>2. /\ next \in View /\ next.seq = event.seq /\ next.dropped = (v.dropped \/ Missed(v, event))
        /\ next.epoch = v.epoch /\ next.session = v.session /\ next.rev = v.rev
        /\ next.invalidated = v.invalidated /\ next.decks = v.decks /\ next.mixer = v.mixer
    BY CountedIs
  <2>3. r = IF event.kind = "invalidated"
            THEN IF v.epoch # 0 /\ event.data # v.session THEN next
                 ELSE [next EXCEPT !.invalidated = TRUE]
            ELSE IF v.epoch = 0 \/ event.rev < v.rev THEN next ELSE Overlaid(next, event)
    BY <1>2 DEF ReduceEvent
  <2> SUFFICES ViewFits(h, e, r)
    OBVIOUS
  <2> HIDE DEF next, r
  <2>4. /\ r.seq = event.seq
        /\ next.dropped => r.dropped
        /\ next.invalidated => r.invalidated
    <3>1. LET m == [next EXCEPT !.invalidated = TRUE]
          IN m.seq = next.seq /\ m.dropped = next.dropped /\ m.invalidated
      BY <2>2 DEF View
    <3>2. event.kind # "invalidated" =>
            /\ Overlaid(next, event).seq = next.seq
            /\ Overlaid(next, event).dropped = next.dropped
            /\ Overlaid(next, event).invalidated = next.invalidated
      BY <2>2, OverlaidIs
    <3> QED BY <2>2, <2>3, <3>1, <3>2
  <2>5. CASE v.dropped \/ v.invalidated \/ Missed(v, event)
    BY <2>1, <2>2, <2>4, <2>5 DEF ViewFits
  <2>6. CASE ~v.dropped /\ ~v.invalidated /\ ~Missed(v, event)
    <3> DEFINE n == event.seq
    <3>1. n = v.seq + 1 /\ n - 1 = v.seq /\ v.seq \in 1 .. e.seq
      BY <2>0, <2>1, <2>6 DEF Missed
    <3>2. /\ v.rev \in Nat /\ v.rev <= e.rev
          /\ \A k \in 1 .. e.seq : v.seq < k => v.rev <= h[k].rev
          /\ v.decks = h[v.seq].decks /\ v.mixer = h[v.seq].mixer
      BY <2>6 DEF ViewFits, TrueView
    <3>3. event.rev = h[n].rev /\ Reports(h[v.seq], event, h[n]) /\ n \in 1 .. e.seq
      BY <2>1, <3>1 DEF TrueEvent
    <3>4. /\ h[n].rev \in Nat /\ h[n].rev <= e.rev /\ v.rev <= h[n].rev
          /\ \A k \in 1 .. e.seq : n < k => h[n].rev <= h[k].rev
      <4>1. n \in Nat /\ h[n] \in Shown
        BY <2>0, <3>3 DEF Recorded
      <4>2. \A k \in 1 .. e.seq : n < k => n <= k
        BY <2>0
      <4> QED BY <2>0, <3>1, <3>2, <3>3, <4>1, <4>2 DEF Recorded, Shown
    <3>5. \A k \in 1 .. e.seq : n < k => v.rev <= h[k].rev
      <4>1. \A k \in 1 .. e.seq : n < k => v.seq < k
        BY <2>0, <3>1
      <4> QED BY <3>2, <4>1
    <3> HIDE DEF n
    <3>6. CASE event.kind = "invalidated"
      <4>1. h[n].decks = v.decks /\ h[n].mixer = v.mixer
        BY <3>2, <3>3, <3>6 DEF Reports
      <4>2. CASE r = next
        <5>1. TrueView(h, e, r)
          BY <2>2, <3>2, <3>3, <3>5, <4>1, <4>2 DEF TrueView, n
        <5> QED BY <2>1, <2>4, <5>1 DEF ViewFits
      <4>3. CASE r = [next EXCEPT !.invalidated = TRUE]
        <5>1. r.invalidated
          BY <2>2, <4>3 DEF View
        <5> QED BY <2>1, <2>4, <5>1 DEF ViewFits
      <4> QED BY <2>3, <3>6, <4>2, <4>3
    <3>7. CASE event.kind # "invalidated"
      <4>1. r = Overlaid(next, event)
        <5>1. ~(event.rev < v.rev)
          BY <3>2, <3>3, <3>4
        <5> QED BY <2>1, <2>3, <3>7, <5>1
      <4>2. /\ r.rev = IF event.kind = "meters" THEN next.rev ELSE event.rev
            /\ r.mixer = IF event.kind = "mixer" THEN event.data ELSE next.mixer
            /\ event.kind = "deck" => r.decks = [next.decks EXCEPT ![event.deck] = event.data]
            /\ event.kind = "position" =>
                 r.decks = [d \in Decks |-> [next.decks[d] EXCEPT !.status = event.data[d]]]
            /\ event.kind \in {"mixer", "meters"} => r.decks = next.decks
        BY <2>2, <3>7, <4>1, OverlaidIs
      <4>3. r.rev \in Nat /\ r.rev <= e.rev /\ \A k \in 1 .. e.seq : n < k => r.rev <= h[k].rev
        BY <2>2, <3>2, <3>3, <3>4, <3>5, <4>2
      <4>4. r.mixer = h[n].mixer
        BY <2>2, <3>2, <3>3, <4>2 DEF Reports
      <4>5. r.decks = h[n].decks
        <5>1. CASE event.kind = "deck"
          BY <2>2, <3>2, <3>3, <4>2, <5>1 DEF Reports
        <5>2. CASE event.kind = "position"
          <6>1. h[n].decks = next.decks /\ \A d \in Decks : event.data[d] = next.decks[d].status
            BY <2>2, <3>2, <3>3, <5>2 DEF Reports
          <6>2. next.decks \in [Decks -> Deck]
            BY <2>2 DEF View
          <6>3. \A d \in Decks : [next.decks[d] EXCEPT !.status = event.data[d]] = next.decks[d]
            <7> TAKE d \in Decks
            <7>1. next.decks[d] \in Deck
              BY <6>2
            <7> QED BY <6>1, <7>1 DEF Deck
          <6>4. [d \in Decks |-> [next.decks[d] EXCEPT !.status = event.data[d]]] = next.decks
            BY <6>2, <6>3
          <6> QED BY <4>2, <5>2, <6>1, <6>4
        <5>3. CASE event.kind \in {"mixer", "meters"}
          BY <2>2, <3>2, <3>3, <4>2, <5>3 DEF Reports
        <5> QED BY <3>7, <5>1, <5>2, <5>3, EventTypes
      <4>6. TrueView(h, e, r)
        BY <2>4, <3>3, <4>3, <4>4, <4>5 DEF TrueView, n
      <4> QED BY <2>1, <2>4, <4>6 DEF ViewFits
    <3> QED BY <3>6, <3>7
  <2> QED BY <2>5, <2>6
<1> QED BY <1>1, <1>2

(* The replay of the events kept during a snapshot, over all of them.      *)
Replays(s, event, v) == IF Replayable(s, event) THEN ReduceEvent(v, event) ELSE v
Replay(s, events, N, f) ==
    f = [k \in 0 .. N |-> IF k = 0 THEN ApplySnapshot(s) ELSE Replays(s, events[k], f[k - 1])]

LEMMA LeastExists ==
    ASSUME NEW S \in SUBSET Nat, S # {}
    PROVE  \E n \in S : \A m \in S : n <= m
<1> DEFINE Less == OpToRel(<, Nat)
<1>1. \E n \in S : \A m \in S : <<m, n>> \notin Less
  <2>1. IsWellFoundedOn(Less, Nat)
    BY NatLessThanWellFounded
  <2> HIDE DEF Less
  <2> QED BY <2>1, WFMin
<1>2. \A m, n \in Nat : <<m, n>> \in Less <=> m < n
  BY DEF OpToRel
<1> HIDE DEF Less
<1>3. \A m, n \in Nat : ~(m < n) => n <= m
  OBVIOUS
<1>4. PICK n \in S : \A m \in S : <<m, n>> \notin Less
  BY <1>1
<1>5. \A m \in S : n <= m
  BY <1>2, <1>3, <1>4
<1> QED BY <1>5

LEMMA ReplayExists ==
    ASSUME NEW s, NEW events, NEW N \in Nat
    PROVE  \E f : Replay(s, events, N, f)
<1> DEFINE Short == {n \in Nat : ~ \E f : Replay(s, events, n, f)}
<1>1. SUFFICES ASSUME Short # {} PROVE FALSE
  OBVIOUS
<1>2. PICK n \in Short : \A m \in Short : n <= m
  BY <1>1, LeastExists
<1>3. CASE n = 0
  <2> DEFINE f == [k \in 0 .. 0 |-> ApplySnapshot(s)]
  <2>1. \A k \in 0 .. 0 : k = 0
    OBVIOUS
  <2>2. f = [k \in 0 .. 0 |-> IF k = 0 THEN ApplySnapshot(s) ELSE Replays(s, events[k], f[k - 1])]
    BY <2>1, Zenon
  <2>3. Replay(s, events, 0, f)
    BY <2>2, Zenon DEF Replay
  <2> QED BY <1>2, <1>3, <2>3
<1>4. CASE n # 0
  <2>1. n - 1 \in Nat /\ n \in Nat /\ ~(n <= n - 1)
    BY <1>2, <1>4
  <2>2. PICK e : Replay(s, events, n - 1, e)
    BY <1>2, <2>1
  <2> DEFINE F(k) == IF k = 0 THEN ApplySnapshot(s) ELSE Replays(s, events[k], e[k - 1])
             f == [k \in 0 .. n |-> F(k)]
             G(k) == IF k = 0 THEN ApplySnapshot(s) ELSE Replays(s, events[k], f[k - 1])
  <2>3. ASSUME NEW k \in 0 .. n, k # 0
        PROVE  f[k - 1] = e[k - 1]
    <3>1. k - 1 \in 0 .. n /\ k - 1 \in 0 .. n - 1
      BY <2>1, <2>3
    <3>2. e = [j \in 0 .. n - 1 |-> F(j)]
      BY <2>2, Zenon DEF Replay
    <3>3. e[k - 1] = F(k - 1)
      BY <3>1, <3>2, Zenon
    <3>4. f[k - 1] = F(k - 1)
      BY <3>1, Zenon
    <3> QED BY <3>3, <3>4, Zenon
  <2>4. f = [k \in 0 .. n |-> G(k)]
    <3>1. \A k \in 0 .. n : F(k) = G(k)
      BY <2>3, Zenon
    <3> QED BY <3>1, Zenon
  <2>5. Replay(s, events, n, f)
    BY <2>4, Zenon DEF Replay
  <2> QED BY <1>2, <2>5
<1> QED BY <1>3, <1>4

LEMMA ReplayIs ==
    ASSUME NEW s, NEW events
    PROVE  ApplySnapshotWithEvents(s, events)
              = (CHOOSE f : Replay(s, events, Len(events), f))[Len(events)]
BY Zenon DEF ApplySnapshotWithEvents, Replay, Replays

(* What holds of the snapshot and survives every event holds at the end.   *)
LEMMA ReplayedWithin ==
    ASSUME NEW s, NEW events \in Seq(EventRec), NEW within, ApplySnapshot(s) \in within,
           \A v \in within : \A k \in 1 .. Len(events) : ReduceEvent(v, events[k]) \in within
    PROVE  ApplySnapshotWithEvents(s, events) \in within
<1> DEFINE N == Len(events)
           f == CHOOSE g : Replay(s, events, N, g)
<1>1. N \in Nat
  OBVIOUS
<1>2. Replay(s, events, N, f)
  BY <1>1, ReplayExists, Zenon
<1>3. ApplySnapshotWithEvents(s, events) = f[N]
  BY ReplayIs, Zenon
<1> HIDE DEF f
<1>4. \A n \in 0 .. N : f[n] = IF n = 0 THEN ApplySnapshot(s) ELSE Replays(s, events[n], f[n - 1])
  BY <1>2, Zenon DEF Replay
<1> HIDE DEF N
<1> DEFINE Outside == {n \in 0 .. N : f[n] \notin within}
<1>5. ASSUME Outside # {} PROVE FALSE
  <2>0. Outside \in SUBSET Nat
    OBVIOUS
  <2>1. PICK n \in Outside : \A m \in Outside : n <= m
    BY <1>5, <2>0, LeastExists
  <2>2. CASE n = 0
    BY <1>1, <1>4, <2>1, <2>2
  <2>3. CASE n # 0
    <3>1. n - 1 \in 0 .. N /\ ~(n <= n - 1) /\ n \in 1 .. N
      BY <1>1, <2>1, <2>3
    <3>2. f[n - 1] \in within
      BY <2>1, <3>1
    <3>3. f[n] = Replays(s, events[n], f[n - 1])
      BY <1>4, <2>3, <3>1
    <3> QED BY <2>1, <3>1, <3>2, <3>3 DEF Replays, N
  <2> QED BY <2>2, <2>3
<1>6. N \in 0 .. N
  BY <1>1
<1> QED BY <1>3, <1>5, <1>6

(* A snapshot and the events kept meanwhile make a true view, or one that  *)
(* shows that something is missing.                                        *)
LEMMA AppliedIs ==
    ASSUME NEW s \in Snapshots
    PROVE  /\ ApplySnapshot(s) \in View /\ ApplySnapshot(s).epoch = s.epoch
           /\ ApplySnapshot(s).seq = s.seq /\ ApplySnapshot(s).rev = s.rev
           /\ ApplySnapshot(s).decks = s.decks /\ ApplySnapshot(s).mixer = s.mixer
<1>1. /\ s.epoch \in Nat /\ s.session \in Nat /\ s.rev \in Nat /\ s.seq \in Nat
      /\ s.decks \in [Decks -> Deck] /\ s.mixer \in Settings
  <2>1. CASE s = NoView
    <3>1. NewDeck \in Deck
      BY DEF NewDeck, Deck, Statuses, Settings
    <3> QED BY <2>1, <3>1 DEF NoView, Settings
  <2>2. CASE s # NoView
    BY <2>2 DEF Snapshots
  <2> QED BY <2>1, <2>2
<1> QED BY <1>1 DEF ApplySnapshot, View

LEMMA ReplayedTypes ==
    ASSUME NEW s \in Snapshots, NEW events \in Seq(EventRec)
    PROVE  /\ ApplySnapshotWithEvents(s, events) \in View
           /\ ApplySnapshotWithEvents(s, events).epoch = s.epoch
<1> DEFINE within == {v \in View : v.epoch = s.epoch}
<1>1. ApplySnapshot(s) \in within
  BY AppliedIs
<1>2. \A v \in within : \A k \in 1 .. Len(events) : ReduceEvent(v, events[k]) \in within
  BY ReduceIs
<1> HIDE DEF within
<1>3. ApplySnapshotWithEvents(s, events) \in within
  BY <1>1, <1>2, ReplayedWithin
<1> QED BY <1>3 DEF within

LEMMA ReplayedFits ==
    ASSUME NEW e \in Engine, NEW h, Recorded(h, e), e.epoch # 0,
           NEW s \in Snapshots, s.epoch = e.epoch, TrueView(h, e, s),
           NEW events \in Seq(EventRec),
           \A k \in 1 .. Len(events) : events[k].epoch = e.epoch => TrueEvent(h, e, events[k])
    PROVE  ViewFits(h, e, ApplySnapshotWithEvents(s, events))
<1> DEFINE within == {v \in View : v.epoch = e.epoch /\ ViewFits(h, e, v)}
<1>1. ApplySnapshot(s) \in within
  <2> DEFINE v == ApplySnapshot(s)
  <2>1. /\ v \in View /\ v.epoch = e.epoch /\ v.seq = s.seq /\ v.rev = s.rev
        /\ v.decks = s.decks /\ v.mixer = s.mixer
    BY AppliedIs
  <2> HIDE DEF v
  <2>2. TrueView(h, e, v)
    BY <2>1 DEF TrueView
  <2>3. v \in within
    BY <2>1, <2>2 DEF ViewFits, TrueView
  <2> QED BY <2>3 DEF v
<1>2. \A v \in within : \A k \in 1 .. Len(events) : ReduceEvent(v, events[k]) \in within
  <2> TAKE v \in within
  <2> TAKE k \in 1 .. Len(events)
  <2>1. events[k] \in EventRec /\ v \in View /\ v.epoch = e.epoch /\ ViewFits(h, e, v)
    OBVIOUS
  <2>2. ViewFits(h, e, ReduceEvent(v, events[k]))
    BY <2>1, ReduceFits
  <2>3. ReduceEvent(v, events[k]) \in View /\ ReduceEvent(v, events[k]).epoch = v.epoch
    BY <2>1, ReduceIs
  <2> QED BY <2>1, <2>2, <2>3
<1> HIDE DEF within
<1>3. ApplySnapshotWithEvents(s, events) \in within
  BY <1>1, <1>2, ReplayedWithin
<1> QED BY <1>3 DEF within


-----------------------------------------------------------------------------
(* What the webview and the callers keep of what the engines send          *)

(* An event or a snapshot on its way, or kept by the webview.              *)
InFlight(event) ==
    \/ \E p \in Procs : \/ \E k \in 1 .. Len(proc[p].out) : proc[p].out[k] = event
                        \/ \E k \in 1 .. Len(proc[p].mail) : proc[p].mail[k] = event
    \/ \E k \in 1 .. Len(client.buffer) : client.buffer[k] = event
InHand(k, s) ==
    \/ k.snapshot = s
    \/ k.pc = "wait" /\ k.answer.kind = "result" /\ k.answer.snapshot = s
Taken(s) ==
    \/ \E p \in Procs : \E k \in 1 .. Len(proc[p].out) :
         proc[p].out[k].kind = "result" /\ proc[p].out[k].snapshot = s
    \/ \E c \in Callers : InHand(call[c], s)

Typed == client.view \in View /\ client.buffer \in Seq(EventRec)

ClientGoes ==
    /\ \/ client'.buffer \in {client.buffer, <<>>}
       \/ \E p \in Procs : /\ proc[p].mail # <<>>
                           /\ client'.buffer = Append(client.buffer, Head(proc[p].mail))
    /\ \/ client'.view \in {client.view, NoView, [client.view EXCEPT !.invalidated = TRUE]}
       \/ \E p \in Procs : /\ proc[p].mail # <<>>
                           /\ client'.view = ReduceEvent(client.view, Head(proc[p].mail))
       \/ \E s \in Snapshots : /\ \E c \in Callers : InHand(call[c], s)
                               /\ client'.view = ApplySnapshotWithEvents(s, client.buffer)
    /\ \/ client'.session \in {client.session, NoSession}
       \/ \E c \in Callers : call[c].pc = "connected" /\ client'.session = call[c].session

(* The other fields when some are changed.                                 *)
LEMMA ClientParts ==
    ASSUME NEW k, ClientRec(k), NEW v
    PROVE  /\ \A b : LET x == [k EXCEPT !.buffering = b, !.buffer = v]
                     IN x.view = k.view /\ x.buffer = v /\ x.session = k.session
           /\ LET x == [k EXCEPT !.view = v]
              IN x.view = v /\ x.buffer = k.buffer /\ x.session = k.session
           /\ LET x == [k EXCEPT !.buffer = v]
              IN x.view = k.view /\ x.buffer = v /\ x.session = k.session
           /\ LET x == [k EXCEPT !.view.invalidated = v]
              IN x.view = [k.view EXCEPT !.invalidated = v] /\ x.buffer = k.buffer
                 /\ x.session = k.session
           /\ \A s : LET x == [k EXCEPT !.session = s]
                     IN x.view = k.view /\ x.buffer = k.buffer /\ x.session = s
           /\ \A s : LET x == [k EXCEPT !.session = s, !.view = v]
                     IN x.view = v /\ x.buffer = k.buffer /\ x.session = s
<1>1. k = [session |-> k.session, view |-> k.view, buffering |-> k.buffering, buffer |-> k.buffer]
  BY DEF ClientRec
<1>2. ASSUME NEW b
      PROVE  LET x == [k EXCEPT !.buffering = b, !.buffer = v]
             IN x.view = k.view /\ x.buffer = v /\ x.session = k.session
  <2> DEFINE m == [k EXCEPT !.buffering = b]
  <2>1. m = [session |-> k.session, view |-> k.view, buffering |-> b, buffer |-> k.buffer]
    BY <1>1
  <2>2. [k EXCEPT !.buffering = b, !.buffer = v] = [m EXCEPT !.buffer = v]
    BY <1>1
  <2> HIDE DEF m
  <2> QED BY <2>1, <2>2
<1>3. ASSUME NEW w
      PROVE  LET x == [k EXCEPT !.view = w]
             IN x.view = w /\ x.buffer = k.buffer /\ x.session = k.session
  BY <1>1
<1>4. LET x == [k EXCEPT !.buffer = v]
      IN x.view = k.view /\ x.buffer = v /\ x.session = k.session
  BY <1>1
<1>5. LET x == [k EXCEPT !.view.invalidated = v]
      IN x.view = [k.view EXCEPT !.invalidated = v] /\ x.buffer = k.buffer
         /\ x.session = k.session
  <2> DEFINE view == [k.view EXCEPT !.invalidated = v]
  <2>1. [k EXCEPT !.view.invalidated = v] = [k EXCEPT !.view = view]
    BY <1>1
  <2> HIDE DEF view
  <2>2. [k EXCEPT !.view = view].view = view /\ [k EXCEPT !.view = view].buffer = k.buffer
        /\ [k EXCEPT !.view = view].session = k.session
    BY <1>3
  <2> QED BY <2>1, <2>2 DEF view
<1>6. ASSUME NEW s
      PROVE  LET x == [k EXCEPT !.session = s]
             IN x.view = k.view /\ x.buffer = k.buffer /\ x.session = s
  BY <1>1
<1>7. ASSUME NEW s
      PROVE  LET x == [k EXCEPT !.session = s, !.view = v]
             IN x.view = v /\ x.buffer = k.buffer /\ x.session = s
  <2> DEFINE m == [k EXCEPT !.session = s]
  <2>1. m = [session |-> s, view |-> k.view, buffering |-> k.buffering, buffer |-> k.buffer]
    BY <1>1
  <2>2. [k EXCEPT !.session = s, !.view = v] = [m EXCEPT !.view = v]
    BY <1>1
  <2> HIDE DEF m
  <2> QED BY <2>1, <2>2
<1> QED BY <1>2, <1>3, <1>4, <1>5, <1>6, <1>7

LEMMA ClientStays ==
    ASSUME client' = client
    PROVE  ClientGoes
BY DEF ClientGoes

LEMMA ClientAdvances ==
    ASSUME IInv, [Next]_vars
    PROVE  ClientGoes
<1>0. ClientRec(client)
  BY DEF IInv, TypeInv
<1> DEFINE Spares(x) == x.view = client.view /\ x.session = client.session
                       /\ x.buffer \in {client.buffer, <<>>}
           Marks(x) == x.view = [client.view EXCEPT !.invalidated = TRUE]
                       /\ x.session = client.session /\ x.buffer \in {client.buffer, <<>>}
<1>1. ASSUME Spares(client') \/ Marks(client') PROVE ClientGoes
  BY <1>1 DEF ClientGoes
<1>2. Spares(Buffering) /\ Spares(NotBuffering) /\ ClientRec(NotBuffering) /\ NotBuffering.buffer = <<>>
  <2>1. \A b : LET x == [client EXCEPT !.buffering = b, !.buffer = <<>>]
                IN x.view = client.view /\ x.buffer = <<>> /\ x.session = client.session
    BY <1>0, ClientParts
  <2>2. ClientRec(NotBuffering)
    BY <1>0, ClientKeeps
  <2> QED BY <2>1, <2>2 DEF Buffering, NotBuffering
<1>3. ASSUME NEW c
      PROVE  /\ ClientRec(Invalidated(c)) /\ Invalidated(c).buffer = client.buffer
             /\ Spares(Invalidated(c)) \/ Marks(Invalidated(c))
  <2>1. ClientRec(Invalidated(c))
    BY <1>0, ClientKeeps
  <2>2. CASE Invalidated(c) = client
    BY <2>1, <2>2
  <2>3. CASE Invalidated(c) = [client EXCEPT !.view.invalidated = TRUE]
    BY <1>0, <2>1, <2>3, ClientParts
  <2> QED BY <2>2, <2>3 DEF Invalidated
<1>4. ASSUME NEW c
      PROVE  LET x == [Invalidated(c) EXCEPT !.buffering = FALSE, !.buffer = <<>>]
             IN Spares(x) \/ Marks(x)
  <2> DEFINE i == Invalidated(c)
  <2>1. ClientRec(i) /\ (Spares(i) \/ Marks(i))
    BY <1>3
  <2> HIDE DEF i
  <2>2. LET x == [i EXCEPT !.buffering = FALSE, !.buffer = <<>>]
        IN x.view = i.view /\ x.session = i.session /\ x.buffer = <<>>
    BY <2>1, ClientParts
  <2> QED BY <2>1, <2>2 DEF i
<1>5. ASSUME NEW s \in Snapshots, NEW c \in Callers, InHand(call[c], s),
             client' = [NotBuffering EXCEPT !.view = ApplySnapshotWithEvents(s, client.buffer)]
      PROVE  ClientGoes
  <2> DEFINE v == ApplySnapshotWithEvents(s, client.buffer)
             n == NotBuffering
  <2>1. ClientRec(n) /\ n.buffer = <<>> /\ n.session = client.session
    BY <1>2
  <2> HIDE DEF v, n
  <2>2. client' = [n EXCEPT !.view = v]
    BY <1>5 DEF v, n
  <2>3. client'.view = v /\ client'.buffer = <<>> /\ client'.session = client.session
    BY <2>1, <2>2, ClientParts
  <2> QED BY <1>5, <2>3 DEF ClientGoes, v
<1> HIDE DEF Marks
<1>6. ASSUME NEW c \in Callers, CallStep(c) PROVE ClientGoes
  <2>0. TypeInv
    BY DEF IInv
  <2>1. CASE StopReturns(c)
    <3>1. client' = client \/ client' = [client EXCEPT !.session = NoSession, !.view = NoView]
      BY <2>1 DEF StopReturns
    <3>2. LET x == [client EXCEPT !.session = NoSession, !.view = NoView]
          IN x.view = NoView /\ x.buffer = client.buffer /\ x.session = NoSession
      BY <1>0, ClientParts
    <3> QED BY <3>1, <3>2, ClientStays DEF ClientGoes
  <2>2. CASE ConnectLocked(c) \/ ConnectFails(c)
    <3>1. client' = client \/ client' = NotBuffering
      BY <2>2 DEF ConnectLocked, ConnectFails
    <3> QED BY <1>1, <1>2, <3>1, ClientStays
  <2>3. CASE Connected(c)
    <3>1. call[c].pc = "connected" /\ client' = [client EXCEPT !.session = call[c].session]
      BY <2>3 DEF Connected, At
    <3>2. client'.view = client.view /\ client'.buffer = client.buffer
          /\ client'.session = call[c].session
      BY <1>0, <3>1, ClientParts
    <3> QED BY <3>1, <3>2 DEF ClientGoes
  <2>4. CASE ConnectReturns(c)
    <3> DEFINE s == call[c].snapshot
    <3>1. \/ client' = NotBuffering
          \/ client' = [NotBuffering EXCEPT !.view = ApplySnapshotWithEvents(s, client.buffer)]
      BY <2>4 DEF ConnectReturns
    <3>2. s \in Snapshots /\ InHand(call[c], s)
      BY <2>0, CallTypes DEF InHand
    <3> HIDE DEF s
    <3> QED BY <1>1, <1>2, <1>5, <3>1, <3>2
  <2>5. CASE SendReturns(c)
    BY <1>1, <1>3, <2>5 DEF SendReturns
  <2>6. CASE RefreshReturns(c)
    <3> DEFINE s == call[c].answer.snapshot
    <3>1. CASE Has(c, {"result"}) /\ call[c].session = client.session
      <4>1. client' = [NotBuffering EXCEPT !.view = ApplySnapshotWithEvents(s, client.buffer)]
        BY <2>6, <3>1 DEF RefreshReturns
      <4>2. s \in Snapshots /\ InHand(call[c], s)
        <5>1. call[c].answer \in ReplyRec
          BY <2>0, <3>1, CallTypes DEF Has
        <5> QED BY <3>1, <5>1 DEF ReplyRec, InHand, Has
      <4> HIDE DEF s
      <4> QED BY <1>5, <4>1, <4>2
    <3>2. CASE ~(Has(c, {"result"}) /\ call[c].session = client.session)
      <4>1. client' = [Invalidated(c) EXCEPT !.buffering = FALSE, !.buffer = <<>>]
        BY <2>6, <3>2 DEF RefreshReturns
      <4> QED BY <1>1, <1>4, <4>1
    <3> QED BY <3>1, <3>2
  <2>7. CASE \/ Dispatch(c) \/ Insert(c) \/ Timeout(c) \/ Reap(c)
             \/ StartLocked(c) \/ Spawn(c) \/ SpawnFails(c) \/ StartAnswered(c) \/ StartFailed(c)
    BY <2>7, ClientStays DEF Dispatch, Insert, Timeout, Reap, StartLocked, Spawn, SpawnFails,
                             StartAnswered, StartFailed
  <2>8. CASE \/ StopLocked(c) \/ StopAllowed(c) \/ StopRefused(c)
             \/ ConnectHello(c) \/ ConnectSnapshot(c) \/ CheckSession(c)
    BY <2>8, ClientStays DEF StopLocked, StopAllowed, StopRefused, ConnectHello, ConnectSnapshot,
                             CheckSession
  <2> QED BY <1>6, <2>1, <2>2, <2>3, <2>4, <2>5, <2>6, <2>7, <2>8 DEF CallStep
<1>7. ASSUME NEW p \in Procs, ProcessStep(p) PROVE ClientGoes
  <2>1. CASE Receive(p)
    <3> DEFINE event == Head(proc[p].mail)
    <3>1. /\ proc[p].mail # <<>>
          /\ \/ client' = [client EXCEPT !.buffer = Append(client.buffer, event)]
             \/ client' = [client EXCEPT !.view = ReduceEvent(client.view, event)]
      BY <2>1 DEF Receive
    <3>2. \/ /\ client'.buffer = Append(client.buffer, event)
             /\ client'.view = client.view /\ client'.session = client.session
          \/ /\ client'.view = ReduceEvent(client.view, event)
             /\ client'.buffer = client.buffer /\ client'.session = client.session
      <4> DEFINE a == Append(client.buffer, event)
                 v == ReduceEvent(client.view, event)
      <4>1. LET x == [client EXCEPT !.buffer = a]
            IN x.view = client.view /\ x.buffer = a /\ x.session = client.session
        BY <1>0, ClientParts
      <4>2. LET x == [client EXCEPT !.view = v]
            IN x.view = v /\ x.buffer = client.buffer /\ x.session = client.session
        BY <1>0, ClientParts
      <4> QED BY <3>1, <4>1, <4>2
    <3> QED BY <3>1, <3>2 DEF ClientGoes
  <2>2. CASE ~Receive(p)
    BY <1>7, <2>2, ClientStays DEF ProcessStep, HostCommand, HostTick, HostExits, HostCrashes, HostHangs,
         Reader, ReaderEnds, WriterStops, WriteFails, RelayBreaks, WatchdogKills
  <2> QED BY <2>1, <2>2
<1>8. CASE \/ \E c \in Users : CallStart(c) \/ CallStop(c) \/ \E req \in Ops : CallSend(c, req)
           \/ CallConnect \/ CallRefresh
  <2>1. client' = client \/ client' = Buffering
    BY <1>8 DEF CallStart, CallStop, CallSend, CallConnect, CallRefresh
  <2> QED BY <1>1, <1>2, <2>1, ClientStays
<1>9. CASE UNCHANGED vars
  BY <1>9, ClientStays DEF vars
<1> QED BY <1>6, <1>7, <1>8, <1>9 DEF Next

LEMMA ClientTyped ==
    ASSUME IInv, Typed, [Next]_vars
    PROVE  Typed'
<1>0. ClientGoes /\ TypeInv
  BY ClientAdvances DEF IInv
<1>1. ASSUME NEW p \in Procs, proc[p].mail # <<>> PROVE Head(proc[p].mail) \in EventRec
  BY <1>0, <1>1, ProcTypes, TailIs
<1>2. client'.buffer \in Seq(EventRec)
  <2>1. client.buffer \in Seq(EventRec)
    BY DEF Typed
  <2>2. ASSUME NEW p \in Procs, proc[p].mail # <<>>,
               client'.buffer = Append(client.buffer, Head(proc[p].mail))
        PROVE  client'.buffer \in Seq(EventRec)
    BY <1>1, <2>1, <2>2
  <2>3. <<>> \in Seq(EventRec)
    OBVIOUS
  <2> QED BY <1>0, <2>1, <2>2, <2>3 DEF ClientGoes
<1>3. NoView \in View
  <2>1. NewDeck \in Deck
    BY DEF NewDeck, Deck, Statuses, Settings
  <2> QED BY <2>1 DEF NoView, View, Settings
<1>4. [client.view EXCEPT !.invalidated = TRUE] \in View
  BY DEF Typed, View
<1>5. client'.view \in View
  BY <1>0, <1>1, <1>3, <1>4, ReduceIs, ReplayedTypes DEF ClientGoes, Typed
<1> QED BY <1>2, <1>5 DEF Typed


-----------------------------------------------------------------------------
(* What the steps do to the pipes                                          *)

Keeps(c, p, n) ==
    /\ Has(c, {"hello"}) /\ call[c].op \in {"start", "connect"}
    /\ p = running /\ n = call[c].answer.session
PipesGo(p) ==
    \/ HostCommand(p) \/ HostTick(p)
    \/ /\ proc'[p].life \in {"none", "up"} =>
            proc[p].life \in {"none", "up"} /\ proc'[p].engine = proc[p].engine
       /\ From(proc'[p].out, proc[p].out)
       /\ \A k \in 1 .. Len(proc'[p].mail) :
            \/ \E j \in 1 .. Len(proc[p].mail) : proc'[p].mail[k] = proc[p].mail[j]
            \/ \E j \in 1 .. Len(proc[p].out) : proc'[p].mail[k] = proc[p].out[j]
       /\ \A k \in 1 .. Len(proc'[p].inbox) :
            \/ \E j \in 1 .. Len(proc[p].inbox) : proc'[p].inbox[k] = proc[p].inbox[j]
            \/ \E c \in Callers : call[c].pc = "insert" /\ proc'[p].inbox[k] = Command(p, c)
       /\ \/ proc'[p].session = proc[p].session
          \/ \E c \in Callers : Keeps(c, p, proc'[p].session)

(* A record that differs from the process in fields that do not matter, or *)
(* has less in its pipes.                                                  *)
Less(r, q) ==
    /\ r.life \in {"none", "up"} => q.life \in {"none", "up"} /\ r.engine = q.engine
    /\ From(r.out, q.out) /\ From(r.mail, q.mail) /\ From(r.inbox, q.inbox)
    /\ r.session = q.session

LEMMA LessIs ==
    ASSUME NEW p \in Procs, Less(proc'[p], proc[p])
    PROVE  PipesGo(p)
BY DEF Less, PipesGo, From

LEMMA AllFromAll ==
    ASSUME NEW s
    PROVE  From(s, s) /\ From(<<>>, s)
BY DEF From

LEMMA SameIsLess ==
    ASSUME NEW q, NEW r, r.life = q.life, r.engine = q.engine, r.out = q.out, r.mail = q.mail,
           r.inbox = q.inbox, r.session = q.session
    PROVE  Less(r, q)
BY AllFromAll DEF Less

LEMMA EndedIsLess ==
    ASSUME NEW p \in Procs, proc[p] \in ProcRec
    PROVE  /\ Less(Ended(p), proc[p])
           /\ LET r == [Ended(p) EXCEPT !.alive = FALSE] IN Less(r, proc[p])
<1> DEFINE e == NewEngine(p)
           i == [proc[p] EXCEPT !.life = "exited", !.engine = e]
           r == [i EXCEPT !.alive = FALSE]
<1> HIDE DEF e
<1>1. /\ i.life = "exited" /\ i.out = proc[p].out /\ i.mail = proc[p].mail
      /\ i.inbox = proc[p].inbox /\ i.session = proc[p].session
  BY DEF ProcRec
<1>2. /\ r.life = "exited" /\ r.out = proc[p].out /\ r.mail = proc[p].mail
      /\ r.inbox = proc[p].inbox /\ r.session = proc[p].session
  BY DEF ProcRec
<1>3. Ended(p) = i /\ [Ended(p) EXCEPT !.alive = FALSE] = r
  BY DEF Ended, e
<1> HIDE DEF i, r
<1> QED BY <1>1, <1>2, <1>3, AllFromAll DEF Less

LEMMA CallersFillPipes ==
    ASSUME IInv, NEW c \in Callers, CallStep(c), NEW p \in Procs
    PROVE  PipesGo(p)
<1>0. TypeInv /\ Locks /\ InOrder /\ Unstarted /\ proc[p] \in ProcRec
  BY ProcTypes DEF IInv, Order
<1>1. ASSUME proc'[p] = proc[p] PROVE PipesGo(p)
  BY <1>1, LessIs, SameIsLess
<1>2. CASE UNCHANGED proc
  BY <1>1, <1>2
<1>3. ASSUME NEW q \in Procs, NEW r, proc' = [proc EXCEPT ![q] = r],
             p = q => Less(r, proc[p])
      PROVE  PipesGo(p)
  <2>1. CASE p = q
    <3>1. proc'[p] = r
      BY <1>0, <1>3, <2>1 DEF TypeInv
    <3> QED BY <1>3, <2>1, <3>1, LessIs
  <2>2. CASE p # q
    <3>1. proc'[p] = proc[p]
      BY <1>0, <1>3, <2>2 DEF TypeInv
    <3> QED BY <1>1, <3>1
  <2> QED BY <2>1, <2>2
<1>4. CASE Timeout(c)
  <2> DEFINE q == call[c].proc
             rest == {w \in proc[q].pending : w.id # call[c].id}
             r == [proc[q] EXCEPT !.pending = rest]
  <2>1. proc' = [proc EXCEPT ![q] = r] /\ q \in Procs
    <3>1. q # 0 /\ q \in 0 .. MaxProcs
      BY <1>0, <1>4, CallTypes DEF Timeout, Locks, CallerFits, Engaged
    <3> QED BY <1>0, <1>4, <3>1, ProcBound DEF Timeout, TypeInv, Procs
  <2> HIDE DEF rest
  <2>2. p = q => Less(r, proc[p])
    <3> SUFFICES ASSUME p = q PROVE Less(r, proc[p])
      OBVIOUS
    <3>1. /\ r.life = proc[p].life /\ r.engine = proc[p].engine /\ r.out = proc[p].out
          /\ r.mail = proc[p].mail /\ r.inbox = proc[p].inbox /\ r.session = proc[p].session
      BY <1>0 DEF ProcRec
    <3> HIDE DEF r
    <3> QED BY <3>1, SameIsLess
  <2> HIDE DEF r, q
  <2> QED BY <1>3, <2>1, <2>2
<1>5. CASE Insert(c)
  <2> DEFINE q == call[c].proc
             id == proc[q].nextId + 1
             line == Command(q, c)
             h == [proc[q] EXCEPT !.nextId = id]
             i == [h EXCEPT !.pending = @ \cup {[id |-> id, caller |-> c]}]
             r == [i EXCEPT !.inbox = Append(@, line)]
  <2>1. proc' = [proc EXCEPT ![q] = h] \/ proc' = [proc EXCEPT ![q] = r]
    <3>1. [proc[q] EXCEPT !.nextId = id, !.pending = @ \cup {[id |-> id, caller |-> c]},
                          !.inbox = Append(@, line)] = r
      OBVIOUS
    <3>2. q \in Procs /\ proc[q] \in ProcRec
      <4>1. q # 0 /\ q \in 0 .. MaxProcs
        BY <1>0, <1>5, CallTypes DEF Insert, Locks, CallerFits, Engaged
      <4>2. q \in Procs
        BY <4>1, ProcBound DEF Procs
      <4> QED BY <1>0, <4>2, ProcTypes
    <3> QED BY <1>0, <1>5, <3>1, <3>2 DEF Insert, TypeInv, ProcRec
  <2>2. q \in Procs /\ call[c].pc = "insert"
    <3>1. q # 0 /\ q \in 0 .. MaxProcs /\ call[c].pc = "insert"
      BY <1>0, <1>5, CallTypes DEF Insert, Locks, CallerFits, Engaged
    <3> QED BY <3>1, ProcBound DEF Procs
  <2>3. ASSUME p = q
        PROVE  /\ h.life = proc[p].life /\ h.engine = proc[p].engine /\ h.out = proc[p].out
               /\ h.mail = proc[p].mail /\ h.inbox = proc[p].inbox /\ h.session = proc[p].session
               /\ r.life = proc[p].life /\ r.engine = proc[p].engine /\ r.out = proc[p].out
               /\ r.mail = proc[p].mail /\ r.inbox = Append(proc[p].inbox, line)
               /\ r.session = proc[p].session
    <3> HIDE DEF id, line
    <3>1. /\ h \in [{"life", "alive", "stdin", "taken", "inbox", "out", "eof", "pending", "nextId",
                     "session", "engine", "mail", "broken"} -> {h[f] : f \in DOMAIN h}]
          /\ h.life = proc[p].life /\ h.engine = proc[p].engine /\ h.out = proc[p].out
          /\ h.mail = proc[p].mail /\ h.inbox = proc[p].inbox /\ h.session = proc[p].session
      BY <1>0, <2>3 DEF ProcRec
    <3> QED BY <1>0, <2>3 DEF ProcRec
  <2> HIDE DEF h, r, line
  <2>4. CASE proc' = [proc EXCEPT ![q] = h]
    <3>1. p = q => Less(h, proc[p])
      BY <2>3, SameIsLess
    <3>2. p = q => proc'[p] = h
      BY <1>0, <2>4 DEF TypeInv
    <3>3. p # q => proc'[p] = proc[p]
      BY <1>0, <2>4 DEF TypeInv
    <3>4. p = q => Less(proc'[p], proc[p])
      BY <3>1, <3>2
    <3> QED BY <1>1, <3>3, <3>4, LessIs
  <2>5. CASE proc' = [proc EXCEPT ![q] = r] /\ p = q
    <3>1. proc'[p] = r
      BY <1>0, <2>5 DEF TypeInv
    <3>2. proc[p].inbox \in Seq(Cmd)
      BY <1>0, ProcTypes
    <3>3. \A k \in 1 .. Len(r.inbox) :
            \/ \E j \in 1 .. Len(proc[p].inbox) : r.inbox[k] = proc[p].inbox[j]
            \/ r.inbox[k] = Command(p, c)
      BY <2>3, <2>5, <3>2 DEF line
    <3>4. \A k \in 1 .. Len(r.inbox) :
            \/ \E j \in 1 .. Len(proc[p].inbox) : r.inbox[k] = proc[p].inbox[j]
            \/ \E o \in Callers : call[o].pc = "insert" /\ r.inbox[k] = Command(p, o)
      BY <2>2, <3>3
    <3>5. From(r.out, proc[p].out)
          /\ \A k \in 1 .. Len(r.mail) : \E j \in 1 .. Len(proc[p].mail) : r.mail[k] = proc[p].mail[j]
      BY <2>3, <2>5 DEF From
    <3>6. r.life = proc[p].life /\ r.engine = proc[p].engine /\ r.session = proc[p].session
      BY <2>3, <2>5
    <3> HIDE DEF q
    <3> QED BY <3>1, <3>4, <3>5, <3>6 DEF PipesGo
  <2>6. CASE proc' = [proc EXCEPT ![q] = r] /\ p # q
    BY <1>3, <2>2, <2>6
  <2> QED BY <2>1, <2>4, <2>5, <2>6
<1>6. ASSUME NEW op, TakeState(c, op) PROVE PipesGo(p)
  <2>0. running \in Procs
    BY <1>0, <1>6, ProcBound DEF TakeState, TypeInv, Procs
  <2>1. PICK mail \in FirstPart(proc[running].mail) :
           proc' = [proc EXCEPT ![running].taken = TRUE, ![running].mail = mail]
    BY <1>6 DEF TakeState
  <2> DEFINE q == [proc[running] EXCEPT !.taken = TRUE]
             r == [q EXCEPT !.mail = mail]
  <2>2. proc' = [proc EXCEPT ![running] = r]
    BY <1>0, <2>0, <2>1 DEF TypeInv, ProcRec
  <2>3. From(mail, proc[running].mail)
    BY <1>0, <2>0, ProcTypes, FirstPartIs DEF From
  <2>4. p = running => Less(r, proc[p])
    <3> SUFFICES ASSUME p = running PROVE Less(r, proc[p])
      OBVIOUS
    <3>1. /\ q.life = proc[p].life /\ q.engine = proc[p].engine /\ q.out = proc[p].out
          /\ q.inbox = proc[p].inbox /\ q.session = proc[p].session /\ q \in ProcRec
      BY <1>0 DEF ProcRec
    <3> HIDE DEF q
    <3>2. /\ r.life = q.life /\ r.engine = q.engine /\ r.out = q.out
          /\ r.inbox = q.inbox /\ r.session = q.session /\ r.mail = mail
      BY <3>1 DEF ProcRec
    <3> HIDE DEF r
    <3> QED BY <2>3, <3>1, <3>2, AllFromAll DEF Less
  <2> HIDE DEF r
  <2> QED BY <1>3, <2>0, <2>2, <2>4
<1>7. ASSUME Has(c, {"hello"}), call[c].op \in {"start", "connect"},
             KeepSession(call[c].answer.session)
      PROVE  PipesGo(p)
  <2> DEFINE n == call[c].answer.session
             r == [proc[running] EXCEPT !.session = n]
  <2>0. running \in Procs
    <3>1. running # 0
      BY <1>0, <1>7 DEF Locks, CallerFits, Has, Locked
    <3> QED BY <1>0, <3>1, ProcBound DEF TypeInv, Procs
  <2>1. proc' = [proc EXCEPT ![running] = r]
    BY <1>0, <1>7, <2>0 DEF KeepSession, TypeInv
  <2>2. CASE p # running
    BY <1>3, <2>0, <2>1, <2>2
  <2>3. CASE p = running
    <3>1. /\ r.life = proc[p].life /\ r.engine = proc[p].engine /\ r.out = proc[p].out
          /\ r.mail = proc[p].mail /\ r.inbox = proc[p].inbox /\ r.session = n
      BY <1>0, <2>3 DEF ProcRec
    <3>2. proc'[p] = r
      BY <1>0, <2>1, <2>3 DEF TypeInv
    <3>3. Keeps(c, p, proc'[p].session)
      BY <1>7, <2>3, <3>1, <3>2 DEF Keeps
    <3> HIDE DEF r
    <3> QED BY <3>1, <3>2, <3>3, AllFromAll DEF PipesGo, From
  <2> QED BY <2>2, <2>3
<1>8. CASE Reap(c)
  <2> DEFINE q == call[c].proc
             r == [Ended(q) EXCEPT !.alive = FALSE]
  <2>0. q \in Procs
    <3>1. q # 0 /\ q \in 0 .. MaxProcs
      BY <1>0, <1>8, CallTypes DEF Reap, Locks, CallerFits
    <3> QED BY <3>1, ProcBound DEF Procs
  <2>1. proc' = [proc EXCEPT ![q] = r]
    BY <1>8 DEF Reap
  <2>2. p = q => Less(r, proc[p])
    BY <1>0, EndedIsLess
  <2> HIDE DEF r, q
  <2> QED BY <1>3, <2>0, <2>1, <2>2
<1>9. CASE Spawn(c)
  <2> DEFINE q == Cardinality(Started) + 1
             r == [NotStarted(q) EXCEPT !.life = "up", !.alive = TRUE, !.stdin = "open"]
  <2>1. proc' = [proc EXCEPT ![q] = r] /\ q \in Procs
    BY <1>9 DEF Spawn
  <2>2. q \notin Started
    <3>1. PICK n \in 0 .. MaxProcs : Started = 1 .. n
      BY <1>0 DEF InOrder
    <3>2. Cardinality(Started) = n
      BY <3>1, FS_Interval, ProcBound
    <3> QED BY <3>1, <3>2
  <2>3. r.engine = NewEngine(q) /\ r.inbox = <<>> /\ r.out = <<>> /\ r.mail = <<>> /\ r.session = 0
    BY DEF NotStarted
  <2> HIDE DEF q, r
  <2>4. p = q => Less(r, proc[p])
    <3> SUFFICES ASSUME p = q PROVE Less(r, proc[p])
      OBVIOUS
    <3>1. proc[p].life = "none" /\ proc[p] = NotStarted(p)
      BY <1>0, <2>1, <2>2 DEF Started, Unstarted
    <3> QED BY <2>3, <3>1, NothingYet, AllFromAll DEF Less
  <2> QED BY <1>3, <2>1, <2>4
<1>10. CASE StartLocked(c) \/ StopLocked(c) \/ StartFailed(c) \/ StopAllowed(c)
  <2>1. UNCHANGED proc \/ \E op : TakeState(c, op)
    BY <1>10 DEF StartLocked, StopLocked, StartFailed, StopAllowed
  <2> QED BY <1>2, <1>6, <2>1
<1>11. CASE StartAnswered(c) \/ ConnectHello(c)
  BY <1>7, <1>11 DEF StartAnswered, ConnectHello, At
<1>12. CASE \/ Dispatch(c) \/ SpawnFails(c) \/ StopRefused(c) \/ StopReturns(c) \/ ConnectLocked(c)
            \/ ConnectSnapshot(c) \/ ConnectFails(c)
  <2>1. UNCHANGED proc
    BY <1>12 DEF Dispatch, SpawnFails, StopRefused, StopReturns, ConnectLocked, ConnectSnapshot,
                 ConnectFails
  <2> QED BY <1>2, <2>1
<1>13. CASE \/ Connected(c) \/ ConnectReturns(c) \/ CheckSession(c) \/ SendReturns(c)
            \/ RefreshReturns(c)
  <2>1. UNCHANGED proc
    BY <1>13 DEF Connected, ConnectReturns, CheckSession, SendReturns, RefreshReturns
  <2> QED BY <1>2, <2>1
<1> QED BY <1>4, <1>5, <1>8, <1>9, <1>10, <1>11, <1>12, <1>13 DEF CallStep


LEMMA ProcessesFillPipes ==
    ASSUME IInv, NEW q \in Procs, ProcessStep(q), NEW p \in Procs
    PROVE  PipesGo(p)
<1>0. TypeInv /\ proc[p] \in ProcRec
  BY ProcTypes DEF IInv
<1>1. CASE p # q
  <2>1. proc'[p] = proc[p]
    <3>1. CASE HostCommand(q) \/ HostTick(q) \/ HostExits(q) \/ HostCrashes(q) \/ HostHangs(q)
               \/ WatchdogKills(q)
      BY <1>0, <1>1, <3>1
         DEF TypeInv, HostCommand, HostTick, HostExits, HostCrashes, HostHangs, WatchdogKills
    <3>2. CASE Reader(q)
      BY <1>0, <1>1, <3>2 DEF TypeInv, Reader
    <3>3. CASE ReaderEnds(q) \/ WriterStops(q) \/ WriteFails(q) \/ RelayBreaks(q) \/ Receive(q)
      BY <1>0, <1>1, <3>3 DEF TypeInv, ReaderEnds, WriterStops, WriteFails, RelayBreaks, Receive
    <3> QED BY <3>1, <3>2, <3>3 DEF ProcessStep
  <2> QED BY <2>1, LessIs, SameIsLess
<1>2. ASSUME NEW r, proc' = [proc EXCEPT ![p] = r], Less(r, proc[p]) PROVE PipesGo(p)
  BY <1>0, <1>2, LessIs DEF TypeInv
<1>3. CASE HostCommand(p) \/ HostTick(p)
  BY <1>3 DEF PipesGo
<1>4. CASE HostExits(p) \/ HostCrashes(p) \/ WatchdogKills(p)
  BY <1>0, <1>2, <1>4, EndedIsLess DEF HostExits, HostCrashes, WatchdogKills
<1>5. CASE HostHangs(p)
  <2> DEFINE r == [proc[p] EXCEPT !.life = "hung"]
  <2>1. /\ r.life = "hung" /\ r.out = proc[p].out /\ r.mail = proc[p].mail
        /\ r.inbox = proc[p].inbox /\ r.session = proc[p].session
    BY <1>0 DEF ProcRec
  <2>2. proc' = [proc EXCEPT ![p] = r]
    BY <1>0, <1>5 DEF HostHangs, TypeInv
  <2> HIDE DEF r
  <2>3. Less(r, proc[p])
    BY <2>1, AllFromAll DEF Less
  <2> QED BY <1>2, <2>2, <2>3
<1>6. CASE Receive(p)
  <2> DEFINE r == [proc[p] EXCEPT !.mail = Tail(@)]
  <2>1. /\ r.life = proc[p].life /\ r.engine = proc[p].engine /\ r.out = proc[p].out
        /\ r.inbox = proc[p].inbox /\ r.session = proc[p].session /\ r.mail = Tail(proc[p].mail)
    BY <1>0 DEF ProcRec
  <2>2. proc' = [proc EXCEPT ![p] = r]
    BY <1>0, <1>6 DEF Receive, TypeInv
  <2>3. From(Tail(proc[p].mail), proc[p].mail)
    BY <1>0, <1>6, ProcTypes, TailIs DEF From, Receive
  <2> HIDE DEF r
  <2>4. Less(r, proc[p])
    BY <2>1, <2>3, AllFromAll DEF Less
  <2> QED BY <1>2, <2>2, <2>4
<1>7. CASE WriterStops(p)
  <2>1. PICK inbox \in {proc[p].inbox} \cup FirstPart(proc[p].inbox) :
          proc' = [proc EXCEPT ![p].stdin = "closed", ![p].inbox = inbox]
    BY <1>7 DEF WriterStops
  <2>2. From(inbox, proc[p].inbox)
    BY <1>0, AllFromAll, ProcTypes, FirstPartIs DEF From
  <2> DEFINE h == [proc[p] EXCEPT !.stdin = "closed"]
             r == [h EXCEPT !.inbox = inbox]
  <2>3. proc' = [proc EXCEPT ![p] = r]
    BY <1>0, <2>1 DEF TypeInv, ProcRec
  <2>4. /\ h \in ProcRec /\ h.life = proc[p].life /\ h.engine = proc[p].engine /\ h.out = proc[p].out
        /\ h.mail = proc[p].mail /\ h.session = proc[p].session
    BY <1>0 DEF ProcRec
  <2> HIDE DEF h
  <2>5. /\ r.life = h.life /\ r.engine = h.engine /\ r.out = h.out
        /\ r.mail = h.mail /\ r.session = h.session /\ r.inbox = inbox
    BY <2>4 DEF ProcRec
  <2> HIDE DEF r
  <2>6. Less(r, proc[p])
    BY <2>2, <2>4, <2>5, AllFromAll DEF Less
  <2> QED BY <1>2, <2>3, <2>6
<1>8. CASE ReaderEnds(p) \/ WriteFails(p) \/ RelayBreaks(p)
  <2> DEFINE h == [proc[p] EXCEPT !.pending = {}]
             i == [h EXCEPT !.alive = FALSE]
  <2>1. /\ h \in ProcRec /\ h.life = proc[p].life /\ h.engine = proc[p].engine
        /\ h.out = proc[p].out /\ h.mail = proc[p].mail /\ h.inbox = proc[p].inbox
        /\ h.session = proc[p].session
    BY <1>0 DEF ProcRec
  <2> HIDE DEF h
  <2>2. /\ i \in ProcRec /\ i.life = proc[p].life /\ i.engine = proc[p].engine
        /\ i.out = proc[p].out /\ i.mail = proc[p].mail /\ i.inbox = proc[p].inbox
        /\ i.session = proc[p].session
    BY <2>1 DEF ProcRec
  <2> HIDE DEF i
  <2>3. ASSUME NEW r, proc' = [proc EXCEPT ![p] = r],
               r.life = proc[p].life, r.engine = proc[p].engine, r.out = proc[p].out,
               From(r.mail, proc[p].mail), From(r.inbox, proc[p].inbox),
               r.session = proc[p].session
        PROVE  PipesGo(p)
    <3>1. Less(r, proc[p])
      BY <2>3, AllFromAll DEF Less
    <3> QED BY <1>2, <2>3, <3>1
  <2>4. CASE ReaderEnds(p)
    <3> DEFINE r == [i EXCEPT !.eof = TRUE]
    <3>1. proc' = [proc EXCEPT ![p] = r]
      BY <1>0, <2>4 DEF ReaderEnds, TypeInv, ProcRec, i, h
    <3>2. /\ r.life = i.life /\ r.engine = i.engine /\ r.out = i.out /\ r.mail = i.mail
          /\ r.inbox = i.inbox /\ r.session = i.session
      BY <2>2 DEF ProcRec
    <3> HIDE DEF r
    <3> QED BY <2>2, <2>3, <3>1, <3>2, AllFromAll
  <2>5. CASE WriteFails(p)
    <3> DEFINE j == [i EXCEPT !.stdin = "closed"]
               r == [j EXCEPT !.inbox = <<>>]
    <3>1. proc' = [proc EXCEPT ![p] = r]
      BY <1>0, <2>5 DEF WriteFails, TypeInv, ProcRec, i, h
    <3>2. /\ j.life = i.life /\ j.engine = i.engine /\ j.out = i.out /\ j.mail = i.mail
          /\ j.session = i.session /\ j \in ProcRec
      BY <2>2 DEF ProcRec
    <3> HIDE DEF j
    <3>3. /\ r.life = j.life /\ r.engine = j.engine /\ r.out = j.out /\ r.mail = j.mail
          /\ r.session = j.session /\ r.inbox = <<>>
      BY <3>2 DEF ProcRec
    <3> HIDE DEF r
    <3> QED BY <2>2, <2>3, <3>1, <3>2, <3>3, AllFromAll
  <2>6. CASE RelayBreaks(p)
    <3>0. PICK mail \in FirstPart(proc[p].mail) :
            proc' = [proc EXCEPT ![p].broken = TRUE, ![p].alive = FALSE, ![p].pending = {},
                                 ![p].mail = mail]
      BY <2>6 DEF RelayBreaks
    <3> DEFINE j == [i EXCEPT !.broken = TRUE]
               r == [j EXCEPT !.mail = mail]
    <3>1. proc' = [proc EXCEPT ![p] = r]
      BY <1>0, <3>0 DEF TypeInv, ProcRec, i, h
    <3>2. /\ j.life = i.life /\ j.engine = i.engine /\ j.out = i.out /\ j.inbox = i.inbox
          /\ j.session = i.session /\ j \in ProcRec
      BY <2>2 DEF ProcRec
    <3> HIDE DEF j
    <3>3. From(mail, proc[p].mail)
      BY <1>0, ProcTypes, FirstPartIs DEF From
    <3>4. /\ r.life = j.life /\ r.engine = j.engine /\ r.out = j.out /\ r.inbox = j.inbox
          /\ r.session = j.session /\ r.mail = mail
      BY <3>2 DEF ProcRec
    <3> HIDE DEF r
    <3> QED BY <2>2, <2>3, <3>1, <3>2, <3>3, <3>4, AllFromAll
  <2> QED BY <1>8, <2>4, <2>5, <2>6
<1>9. CASE Reader(p)
  <2> DEFINE line == Head(proc[p].out)
             out == Tail(proc[p].out)
             rest == proc[p].pending \ {w \in proc[p].pending : w.id = line.id}
             h == [proc[p] EXCEPT !.out = out]
             i == [h EXCEPT !.mail = Append(@, line)]
             j == [h EXCEPT !.pending = rest]
  <2>0. proc[p].out # <<>> /\ proc[p].out \in Seq(Line) /\ proc[p].mail \in Seq(EventRec)
        /\ proc[p].pending \in SUBSET Waiter
    BY <1>0, <1>9, ProcTypes DEF Reader
  <2>1. From(out, proc[p].out) /\ line = proc[p].out[1] /\ 1 \in 1 .. Len(proc[p].out)
        /\ out \in Seq(Line) /\ line \in Line
    BY <2>0, TailIs DEF From
  <2>2. \/ proc' = [proc EXCEPT ![p] = h]
        \/ proc' = [proc EXCEPT ![p] = i] /\ line.kind \notin Replies
        \/ proc' = [proc EXCEPT ![p] = j]
    BY <1>9 DEF Reader
  <2> HIDE DEF line, out, rest
  <2>3. /\ h.life = proc[p].life /\ h.engine = proc[p].engine /\ h.out = out
        /\ h.mail = proc[p].mail /\ h.inbox = proc[p].inbox /\ h.session = proc[p].session
        /\ h \in ProcRec
    BY <1>0, <2>1 DEF ProcRec
  <2> HIDE DEF h
  <2>4. /\ i.life = h.life /\ i.engine = h.engine /\ i.out = h.out
        /\ i.mail = Append(h.mail, line) /\ i.inbox = h.inbox /\ i.session = h.session
        /\ j.life = h.life /\ j.engine = h.engine /\ j.out = h.out
        /\ j.mail = h.mail /\ j.inbox = h.inbox /\ j.session = h.session
    BY <2>3 DEF ProcRec
  <2> HIDE DEF i, j
  <2>5. CASE proc' = [proc EXCEPT ![p] = h] \/ proc' = [proc EXCEPT ![p] = j]
    <3>1. Less(h, proc[p]) /\ Less(j, proc[p])
      BY <2>1, <2>3, <2>4, AllFromAll DEF Less
    <3> QED BY <1>2, <2>5, <3>1
  <2>6. CASE proc' = [proc EXCEPT ![p] = i] /\ line.kind \notin Replies
    <3>1. proc'[p] = i
      BY <1>0, <2>6 DEF TypeInv
    <3>2. line \in EventRec
      BY <2>1, <2>6 DEF Line, ReplyRec, Replies
    <3>3. \A k \in 1 .. Len(i.mail) :
            \/ \E m \in 1 .. Len(proc[p].mail) : i.mail[k] = proc[p].mail[m]
            \/ \E m \in 1 .. Len(proc[p].out) : i.mail[k] = proc[p].out[m]
      <4> SUFFICES ASSUME NEW k \in 1 .. Len(i.mail)
                   PROVE  \/ \E m \in 1 .. Len(proc[p].mail) : i.mail[k] = proc[p].mail[m]
                          \/ \E m \in 1 .. Len(proc[p].out) : i.mail[k] = proc[p].out[m]
        OBVIOUS
      <4>1. \/ k \in 1 .. Len(proc[p].mail) /\ i.mail[k] = proc[p].mail[k]
            \/ i.mail[k] = line
        BY <2>0, <2>3, <2>4, <3>2
      <4> QED BY <2>1, <4>1
    <3>4. i.life = proc[p].life /\ i.engine = proc[p].engine /\ i.session = proc[p].session
          /\ From(i.out, proc[p].out)
      BY <2>1, <2>3, <2>4
    <3>5. \A k \in 1 .. Len(i.inbox) : \E m \in 1 .. Len(proc[p].inbox) : i.inbox[k] = proc[p].inbox[m]
      BY <2>3, <2>4
    <3> QED BY <3>1, <3>3, <3>4, <3>5 DEF PipesGo
  <2> QED BY <2>2, <2>5, <2>6
<1> QED BY <1>1, <1>3, <1>4, <1>5, <1>6, <1>7, <1>8, <1>9 DEF ProcessStep

LEMMA PipesFlow ==
    ASSUME IInv, [Next]_vars, NEW p \in Procs
    PROVE  PipesGo(p)
<1>1. CASE UNCHANGED proc
  BY <1>1, LessIs, SameIsLess
<1>2. ASSUME Next PROVE UNCHANGED proc \/ PipesGo(p)
  <2>1. CASE \/ \E c \in Users : CallStart(c) \/ CallStop(c) \/ \E req \in Ops : CallSend(c, req)
             \/ CallConnect \/ CallRefresh
    BY <2>1 DEF CallStart, CallStop, CallSend, CallConnect, CallRefresh, Call
  <2> QED BY <1>2, <2>1, CallersFillPipes, ProcessesFillPipes DEF Next
<1> QED BY <1>1, <1>2 DEF vars


-----------------------------------------------------------------------------
(* What the callers were told                                              *)

(* A caller that has a session to send in has it from a second hello: the  *)
(* first is start()'s, before anyone may connect.                          *)
Second(k) ==
    \/ k.op \in {"send", "refresh", "resolve"} \/ k.pc = "connected"
    \/ k.req = GetSnapshot \/ (k.op = "connect" /\ k.req # Hello)
CallerTold(k) ==
    /\ k.pc = "wait" /\ k.answer.kind = "hello" =>
         k.answer.session >= 1 /\ (k.op = "connect" => k.answer.session >= 2)
    /\ Second(k) => k.session.n >= 2
    /\ k.pc \in {"stopped", "refused"} => k.op = "stop"
HelloFits(p, line) == line.kind = "hello" =>
    /\ line.session >= 1
    /\ \A w \in proc[p].pending :
         w.id = line.id /\ call[w.caller].op = "connect" => line.session >= 2
Told(p) ==
    /\ proc[p].life = "up" => /\ proc[p].session <= proc[p].engine.session
                              /\ proc[p].engine.session <= proc[p].engine.seq + 1
    /\ \A k \in 1 .. Len(proc[p].inbox) :
         proc[p].inbox[k].op = GetSnapshot => proc[p].inbox[k].session >= 2
    /\ \A k \in 1 .. Len(proc[p].out) : HelloFits(p, proc[p].out[k])
Greeted ==
    running # 0 => \/ proc[running].session >= 1
                   \/ lifecycle # Nobody /\ call[lifecycle].op = "start"
Greets ==
    /\ Greeted
    /\ \A c \in Callers : CallerTold(call[c])
    /\ \A p \in Procs : Told(p)
    /\ client.session # NoSession => client.session.n >= 2

CallGoes(c) ==
    /\ CallerTold(call'[c])
    /\ \A s : InHand(call'[c], s) => Taken(s) \/ s = NoView

LEMMA Requested ==
    GetSnapshot # Hello /\ GetSnapshot # Junction
BY DEF GetSnapshot, Hello, Junction

LEMMA SameGoes ==
    ASSUME Greets, NEW c \in Callers, call'[c] = call[c]
    PROVE  CallGoes(c)
BY DEF CallGoes, Greets, Taken

LEMMA IdleGoes ==
    ASSUME NEW c \in Callers, call'[c] = Idle
    PROVE  CallGoes(c)
<1>1. Idle.pc = "idle" /\ Idle.op = "none" /\ Idle.req = Hello /\ Idle.snapshot = NoView
  BY DEF Idle
<1> QED BY <1>1, Requested DEF CallGoes, CallerTold, Second, InHand

(* A caller goes on with what it has.                                      *)
GoesOn(c, k) ==
    /\ k.op = call[c].op /\ k.session = call[c].session /\ k.snapshot = call[c].snapshot
    /\ k.req \in {call[c].req, Hello}
    /\ \/ k.pc # "wait" \/ k.answer.kind \notin {"hello", "result"}
       \/ call[c].pc = "wait" /\ k.answer = call[c].answer
    /\ k.pc \in {"stopped", "refused"} => k.op = "stop"
    /\ k.pc # "connected"

LEMMA GoingOn ==
    ASSUME IInv, Greets, NEW c \in Callers, GoesOn(c, call'[c])
    PROVE  CallGoes(c)
<1>1. CallerTold(call[c])
  BY DEF Greets
<1>2. CallerTold(call'[c])
  BY <1>1, Requested DEF CallerTold, Second, GoesOn
<1>3. \A s : InHand(call'[c], s) => InHand(call[c], s)
  BY DEF InHand, GoesOn
<1> QED BY <1>2, <1>3 DEF CallGoes, Taken

(* The records that the steps make, field by field.                        *)
LEMMA CallSteps ==
    ASSUME TypeInv, NEW c \in Callers
    PROVE  /\ \A pc : GoTo(c, pc) =>
                /\ call'[c].pc = pc /\ call'[c].op = call[c].op /\ call'[c].req = call[c].req
                /\ call'[c].session = call[c].session /\ call'[c].snapshot = call[c].snapshot
                /\ call'[c].answer = call[c].answer
           /\ \A kind : Answered(c, kind) =>
                /\ call'[c].pc = "wait" /\ call'[c].op = call[c].op /\ call'[c].req = call[c].req
                /\ call'[c].session = call[c].session /\ call'[c].snapshot = call[c].snapshot
                /\ call'[c].answer.kind = kind
           /\ Return(c) => call'[c] = Idle
           /\ \A op : TakeState(c, op) =>
                /\ call'[c].pc = "reap" /\ call'[c].op = op /\ call'[c].req = Hello
                /\ call'[c].snapshot = NoView
           /\ \A req : call' = [call EXCEPT ![c].pc = "dispatch", ![c].req = req] =>
                /\ call'[c].pc = "dispatch" /\ call'[c].op = call[c].op /\ call'[c].req = req
                /\ call'[c].session = call[c].session /\ call'[c].snapshot = call[c].snapshot
<1>0. call[c] \in CallRec
  BY CallTypes
<1>1. ASSUME NEW pc, GoTo(c, pc)
      PROVE  /\ call'[c].pc = pc /\ call'[c].op = call[c].op /\ call'[c].req = call[c].req
             /\ call'[c].session = call[c].session /\ call'[c].snapshot = call[c].snapshot
             /\ call'[c].answer = call[c].answer
  BY <1>0, <1>1 DEF GoTo, TypeInv, CallRec
<1>2. ASSUME NEW kind, Answered(c, kind)
      PROVE  /\ call'[c].pc = "wait" /\ call'[c].op = call[c].op /\ call'[c].req = call[c].req
             /\ call'[c].session = call[c].session /\ call'[c].snapshot = call[c].snapshot
             /\ call'[c].answer.kind = kind
  <2> DEFINE a == Answer(kind)
             k == [call[c] EXCEPT !.pc = "wait", !.answer = a]
  <2>1. a.kind = kind
    BY DEF Answer
  <2> HIDE DEF a
  <2>2. call' = [call EXCEPT ![c] = k]
    BY <1>0, <1>2 DEF Answered, TypeInv, CallRec, a
  <2>3. /\ k.pc = "wait" /\ k.op = call[c].op /\ k.req = call[c].req
        /\ k.session = call[c].session /\ k.snapshot = call[c].snapshot /\ k.answer = a
    BY <1>0 DEF CallRec
  <2> HIDE DEF k
  <2>4. call'[c] = k
    BY <2>2 DEF TypeInv
  <2> QED BY <2>1, <2>3, <2>4
<1>3. Return(c) => call'[c] = Idle
  BY DEF Return, TypeInv
<1>4. ASSUME NEW op, TakeState(c, op)
      PROVE  /\ call'[c].pc = "reap" /\ call'[c].op = op /\ call'[c].req = Hello
             /\ call'[c].snapshot = NoView
  <2> DEFINE k == [Idle EXCEPT !.pc = "reap", !.op = op, !.proc = running]
  <2>1. k.pc = "reap" /\ k.op = op /\ k.req = Hello /\ k.snapshot = NoView
    BY DEF Idle
  <2>2. call'[c] = k
    BY <1>4 DEF TakeState, TypeInv
  <2> HIDE DEF k
  <2> QED BY <2>1, <2>2
<1>5. ASSUME NEW req, call' = [call EXCEPT ![c].pc = "dispatch", ![c].req = req]
      PROVE  /\ call'[c].pc = "dispatch" /\ call'[c].op = call[c].op /\ call'[c].req = req
             /\ call'[c].session = call[c].session /\ call'[c].snapshot = call[c].snapshot
  <2> DEFINE k == [call[c] EXCEPT !.pc = "dispatch", !.req = req]
  <2>1. call' = [call EXCEPT ![c] = k]
    BY <1>0, <1>5 DEF TypeInv, CallRec
  <2>2. /\ k.pc = "dispatch" /\ k.op = call[c].op /\ k.req = req
        /\ k.session = call[c].session /\ k.snapshot = call[c].snapshot
    BY <1>0 DEF CallRec
  <2> HIDE DEF k
  <2>3. call'[c] = k
    BY <2>1 DEF TypeInv
  <2> QED BY <2>2, <2>3
<1> QED BY <1>1, <1>2, <1>3, <1>4, <1>5

(* A caller that ends an engine knows no session and has no snapshot.      *)
LEMMA TakingGoes ==
    ASSUME TypeInv, NEW c \in Callers, NEW op \in {"start", "stop", "abort"}, TakeState(c, op)
    PROVE  CallGoes(c)
<1>1. /\ call'[c].pc = "reap" /\ call'[c].op = op /\ call'[c].req = Hello
      /\ call'[c].snapshot = NoView
  BY CallSteps
<1> QED BY <1>1, Requested DEF CallGoes, CallerTold, Second, InHand

LEMMA OthersHear ==
    ASSUME TypeInv, NEW c \in Callers, CallStep(c), NEW o \in Callers, o # c
    PROVE  call'[o] = call[o]
<1>1. CASE \/ Dispatch(c) \/ Insert(c) \/ Timeout(c) \/ Reap(c) \/ Spawn(c) \/ SpawnFails(c)
           \/ StartAnswered(c) \/ StopRefused(c) \/ StopReturns(c)
  BY <1>1 DEF Dispatch, Insert, Timeout, Reap, Spawn, SpawnFails, StartAnswered, StopRefused,
              StopReturns, Answered, GoTo, Return, TypeInv
<1>2. CASE StartLocked(c) \/ StartFailed(c) \/ StopLocked(c) \/ StopAllowed(c)
  BY <1>2 DEF StartLocked, StartFailed, StopLocked, StopAllowed, TakeState, GoTo, Return, TypeInv
<1>3. CASE \/ ConnectLocked(c) \/ ConnectHello(c) \/ ConnectSnapshot(c) \/ ConnectFails(c)
           \/ Connected(c) \/ ConnectReturns(c) \/ CheckSession(c) \/ SendReturns(c)
           \/ RefreshReturns(c)
  BY <1>3 DEF ConnectLocked, ConnectHello, ConnectSnapshot, ConnectFails, Connected,
              ConnectReturns, CheckSession, SendReturns, RefreshReturns, Answered, GoTo, Return,
              TypeInv
<1> QED BY <1>1, <1>2, <1>3 DEF CallStep


LEMMA CallerHears ==
    ASSUME IInv, Greets, NEW c \in Callers, CallStep(c)
    PROVE  CallGoes(c)
<1>0. /\ TypeInv /\ CallerFits(c) /\ OwnFits(c) /\ CallerTold(call[c]) /\ call[c] \in CallRec
      /\ call[c].answer.kind = "none" \/ call[c].pc \in {"wait", "refused"}
  BY CallTypes DEF IInv, Order, Mail, Locks, Own, Greets, CallerFits
<1>1. ASSUME NEW pc, GoTo(c, pc), pc \notin {"connected", "wait"},
             pc \in {"stopped", "refused"} => call[c].op = "stop"
      PROVE  CallGoes(c)
  <2>1. GoesOn(c, call'[c])
    BY <1>0, <1>1, CallSteps DEF GoesOn
  <2> QED BY <2>1, GoingOn
<1>2. ASSUME NEW kind \in {"failed", "mismatch"}, Answered(c, kind) PROVE CallGoes(c)
  <2>1. GoesOn(c, call'[c])
    BY <1>0, <1>2, CallSteps DEF GoesOn
  <2> QED BY <2>1, GoingOn
<1>3. ASSUME Return(c) PROVE CallGoes(c)
  BY <1>0, <1>3, CallSteps, IdleGoes
<1>4. ASSUME call' = [call EXCEPT ![c].pc = "dispatch", ![c].req = Hello] PROVE CallGoes(c)
  <2>1. GoesOn(c, call'[c])
    BY <1>0, <1>4, CallSteps DEF GoesOn
  <2> QED BY <2>1, GoingOn
<1>5. CASE Dispatch(c)
  <2>1. CASE Answered(c, "failed")
    BY <1>2, <2>1
  <2>2. CASE call' = [call EXCEPT ![c].pc = "insert", ![c].proc = running]
    <3> DEFINE k == [call[c] EXCEPT !.pc = "insert", !.proc = running]
    <3>1. call'[c] = k
      BY <1>0, <2>2 DEF TypeInv, CallRec
    <3>2. /\ k.pc = "insert" /\ k.op = call[c].op /\ k.req = call[c].req
          /\ k.session = call[c].session /\ k.snapshot = call[c].snapshot
      BY <1>0 DEF CallRec
    <3>3. GoesOn(c, call'[c])
      BY <3>1, <3>2 DEF GoesOn
    <3> QED BY <3>3, GoingOn
  <2> QED BY <1>5, <2>1, <2>2 DEF Dispatch
<1>6. CASE Insert(c)
  <2> DEFINE id == proc[call[c].proc].nextId + 1
  <2>1. CASE Answered(c, "failed")
    BY <1>2, <2>1
  <2>2. CASE call' = [call EXCEPT ![c].pc = "wait", ![c].id = id]
    <3> DEFINE k == [call[c] EXCEPT !.pc = "wait", !.id = id]
    <3> HIDE DEF id
    <3>1. call'[c] = k
      BY <1>0, <2>2 DEF TypeInv, CallRec
    <3>2. /\ k.pc = "wait" /\ k.op = call[c].op /\ k.req = call[c].req
          /\ k.session = call[c].session /\ k.snapshot = call[c].snapshot
          /\ k.answer = call[c].answer
      BY <1>0 DEF CallRec
    <3>3. k.answer.kind = "none"
      BY <1>0, <1>6, <3>2 DEF Insert
    <3>4. GoesOn(c, call'[c])
      BY <3>1, <3>2, <3>3 DEF GoesOn
    <3> QED BY <3>4, GoingOn
  <2> QED BY <1>6, <2>1, <2>2 DEF Insert
<1>7. CASE Timeout(c)
  BY <1>2, <1>7 DEF Timeout
<1>8. CASE Reap(c)
  BY <1>1, <1>3, <1>8 DEF Reap
<1>9. CASE StartLocked(c)
  BY <1>0, <1>1, <1>3, <1>9, TakingGoes DEF StartLocked
<1>10. CASE Spawn(c)
  BY <1>4, <1>10 DEF Spawn
<1>11. CASE \/ SpawnFails(c) \/ StartAnswered(c) \/ StopReturns(c) \/ ConnectFails(c)
            \/ ConnectReturns(c) \/ SendReturns(c) \/ RefreshReturns(c)
  BY <1>3, <1>11 DEF SpawnFails, StartAnswered, StopReturns, ConnectFails, ConnectReturns,
                     SendReturns, RefreshReturns
<1>12. CASE StartFailed(c) \/ StopAllowed(c)
  BY <1>0, <1>12, TakingGoes DEF StartFailed, StopAllowed
<1>13. CASE StopLocked(c)
  <2> DEFINE s == [epoch |-> running, n |-> proc[running].session]
  <2>0. call[c].op = "stop"
    BY <1>13 DEF StopLocked, At
  <2>1. CASE GoTo(c, "stopped")
    BY <1>1, <2>0, <2>1
  <2>2. CASE TakeState(c, "stop")
    BY <1>0, <2>2, TakingGoes
  <2>3. CASE call' = [call EXCEPT ![c].pc = "dispatch", ![c].req = Junction, ![c].session = s]
    <3> HIDE DEF s
    <3> DEFINE k == [call[c] EXCEPT !.pc = "dispatch", !.req = Junction, !.session = s]
    <3>1. call'[c] = k
      BY <1>0, <2>3 DEF TypeInv, CallRec
    <3>2. k.pc = "dispatch" /\ k.op = call[c].op /\ k.req = Junction /\ k.snapshot = call[c].snapshot
      BY <1>0 DEF CallRec
    <3> HIDE DEF k
    <3>3. CallerTold(k)
      BY <2>0, <3>2, Requested DEF CallerTold, Second
    <3>4. \A x : InHand(k, x) => InHand(call[c], x)
      BY <3>2 DEF InHand
    <3> QED BY <3>1, <3>3, <3>4 DEF CallGoes, Taken
  <2> QED BY <1>13, <2>1, <2>2, <2>3 DEF StopLocked
<1>14. CASE StopRefused(c)
  BY <1>1, <1>14 DEF StopRefused
<1>15. CASE ConnectLocked(c)
  BY <1>3, <1>4, <1>15 DEF ConnectLocked
<1>16. CASE ConnectHello(c)
  <2> DEFINE n == call[c].answer.session
             s == [epoch |-> running, n |-> n]
             k == [Idle EXCEPT !.pc = "dispatch", !.op = "connect", !.req = GetSnapshot, !.session = s]
  <2>1. n >= 2
    BY <1>0, <1>16 DEF ConnectHello, CallerTold, Has, At
  <2>2. call'[c] = k
    BY <1>0, <1>16 DEF ConnectHello, TypeInv
  <2>3. s.n = n
    OBVIOUS
  <2> HIDE DEF n, s
  <2>4. k.pc = "dispatch" /\ k.op = "connect" /\ k.session = s /\ k.snapshot = NoView
    BY DEF Idle
  <2> HIDE DEF k
  <2> QED BY <2>1, <2>2, <2>3, <2>4 DEF CallGoes, CallerTold, InHand
<1>17. CASE ConnectSnapshot(c)
  <2> DEFINE s == call[c].session
             x == call[c].answer.snapshot
             k == [Idle EXCEPT !.pc = "connected", !.op = "connect", !.session = s, !.snapshot = x]
  <2>1. s.n >= 2
    <3>1. call[c].req # Hello /\ call[c].op = "connect"
      BY <1>0, <1>17 DEF ConnectSnapshot, Has, At, OwnFits, Replied
    <3> QED BY <1>0, <3>1 DEF CallerTold, Second
  <2>2. InHand(call[c], x)
    BY <1>17 DEF ConnectSnapshot, Has, InHand
  <2>3. call'[c] = k
    BY <1>0, <1>17 DEF ConnectSnapshot, TypeInv
  <2> HIDE DEF s, x
  <2>4. k.pc = "connected" /\ k.op = "connect" /\ k.session = s /\ k.snapshot = x
    BY DEF Idle
  <2> HIDE DEF k
  <2> QED BY <2>1, <2>2, <2>3, <2>4 DEF CallGoes, CallerTold, InHand, Taken
<1>18. CASE Connected(c)
  <2> DEFINE k == [call[c] EXCEPT !.pc = "check", !.op = "resolve", !.req = Junction]
  <2>1. call[c].session.n >= 2
    BY <1>0, <1>18 DEF Connected, At, CallerTold, Second
  <2>2. call'[c] = k
    BY <1>0, <1>18 DEF Connected, TypeInv, CallRec
  <2>3. k.pc = "check" /\ k.session = call[c].session /\ k.snapshot = call[c].snapshot
    BY <1>0 DEF CallRec
  <2> HIDE DEF k
  <2>4. \A x : InHand(k, x) => InHand(call[c], x)
    BY <2>3 DEF InHand
  <2>5. CallerTold(k)
    BY <2>1, <2>3 DEF CallerTold
  <2> QED BY <2>2, <2>4, <2>5 DEF CallGoes, Taken
<1>19. CASE CheckSession(c)
  BY <1>1, <1>2, <1>19 DEF CheckSession
<1> QED BY <1>5, <1>6, <1>7, <1>8, <1>9, <1>10, <1>11, <1>12, <1>13, <1>14, <1>15, <1>16, <1>17,
           <1>18, <1>19 DEF CallStep

LEMMA BeginnersHear ==
    ASSUME IInv, Greets, NEW c \in Callers,
           \/ \E b \in Users : CallStart(b) \/ CallStop(b) \/ \E req \in Ops : CallSend(b, req)
           \/ CallConnect \/ CallRefresh
    PROVE  CallGoes(c)
<1>0. TypeInv
  BY DEF IInv
<1>1. ASSUME NEW b \in Callers, NEW k, call' = [call EXCEPT ![b] = k],
             k.pc \notin {"wait", "stopped", "refused"}, k.snapshot = NoView,
             Second(k) => k.session.n >= 2
      PROVE  CallGoes(c)
  <2>1. CASE b = c
    <3>1. call'[c] = k
      BY <1>0, <1>1, <2>1 DEF TypeInv
    <3> QED BY <1>1, <3>1 DEF CallGoes, CallerTold, InHand
  <2>2. CASE b # c
    <3>1. call'[c] = call[c]
      BY <1>0, <1>1, <2>2 DEF TypeInv
    <3> QED BY <3>1, SameGoes
  <2> QED BY <2>1, <2>2
<1>2. ASSUME NEW b \in Callers, NEW op \in {"start", "stop", "connect"},
             Call(b, [Idle EXCEPT !.pc = "lock", !.op = op])
      PROVE  CallGoes(c)
  <2> DEFINE k == [Idle EXCEPT !.pc = "lock", !.op = op]
  <2>1. k.pc = "lock" /\ k.op = op /\ k.req = Hello /\ k.snapshot = NoView
    BY DEF Idle
  <2>2. call' = [call EXCEPT ![b] = k]
    BY <1>2 DEF Call
  <2> HIDE DEF k
  <2>3. ~Second(k)
    BY <2>1, Requested DEF Second
  <2> QED BY <1>1, <2>1, <2>2, <2>3
<1>3. ASSUME NEW b \in Callers, NEW op, NEW req, client.session # NoSession,
             Call(b, [Idle EXCEPT !.pc = "check", !.op = op, !.req = req, !.session = client.session])
      PROVE  CallGoes(c)
  <2> DEFINE s == client.session
             k == [Idle EXCEPT !.pc = "check", !.op = op, !.req = req, !.session = s]
  <2>1. s.n >= 2
    BY <1>3 DEF Greets
  <2>2. call' = [call EXCEPT ![b] = k]
    BY <1>3 DEF Call
  <2> HIDE DEF s
  <2>3. k.pc = "check" /\ k.session = s /\ k.snapshot = NoView
    BY DEF Idle
  <2> HIDE DEF k
  <2> QED BY <1>1, <2>1, <2>2, <2>3
<1>4. Users \subseteq Callers /\ Webview \in Callers
  BY DEF Callers
<1> QED BY <1>2, <1>3, <1>4 DEF CallStart, CallStop, CallSend, CallConnect, CallRefresh

LEMMA AnswersHeard ==
    ASSUME IInv, Greets, NEW p \in Procs, ProcessStep(p), NEW c \in Callers
    PROVE  CallGoes(c)
<1>0. TypeInv /\ call[c] \in CallRec /\ CallerTold(call[c]) /\ Told(p) /\ Pending
  BY CallTypes DEF IInv, Mail, Greets
<1>1. ASSUME NEW a, call'[c] = [call[c] EXCEPT !.answer = a]
      PROVE  /\ call'[c].pc = call[c].pc /\ call'[c].op = call[c].op /\ call'[c].req = call[c].req
             /\ call'[c].session = call[c].session /\ call'[c].snapshot = call[c].snapshot
             /\ call'[c].answer = a
  BY <1>0, <1>1 DEF CallRec
<1>2. CASE DrainPending(p)
  <2> DEFINE a == Answer("drained")
  <2>1. a.kind = "drained"
    BY DEF Answer
  <2>2. call'[c] = call[c] \/ (call'[c] = [call[c] EXCEPT !.answer = a] /\ Waiting(c))
    BY <1>0, <1>2 DEF DrainPending, Pending
  <2> HIDE DEF a
  <2>3. CASE call'[c] = [call[c] EXCEPT !.answer = a] /\ Waiting(c)
    <3>1. GoesOn(c, call'[c])
      BY <1>1, <2>1, <2>3 DEF GoesOn, Waiting
    <3> QED BY <3>1, GoingOn
  <2> QED BY <2>2, <2>3, SameGoes
<1>3. CASE Reader(p)
  <2> DEFINE line == Head(proc[p].out)
             Gets == \E w \in proc[p].pending : w.id = line.id /\ w.caller = c
  <2>0. proc[p].out # <<>> /\ proc[p].out \in Seq(Line)
    BY <1>0, <1>3, ProcTypes DEF Reader
  <2>1. line = proc[p].out[1] /\ 1 \in 1 .. Len(proc[p].out)
    BY <2>0, TailIs
  <2>2. call'[c] = call[c] \/ (call'[c] = [call[c] EXCEPT !.answer = line] /\ Gets)
    BY <1>3 DEF Reader
  <2>3. CASE call'[c] = [call[c] EXCEPT !.answer = line] /\ Gets
    <3>1. HelloFits(p, line)
      BY <1>0, <2>1 DEF Told
    <3>2. call[c].pc = "wait"
      BY <1>0, <2>3 DEF Pending, Waiting
    <3>3. line.kind = "hello" => line.session >= 1 /\ (call[c].op = "connect" => line.session >= 2)
      BY <2>3, <3>1 DEF HelloFits
    <3> HIDE DEF line
    <3>4. CallerTold(call'[c])
      BY <1>0, <1>1, <2>3, <3>2, <3>3 DEF CallerTold, Second
    <3>5. ASSUME NEW s, InHand(call'[c], s) PROVE Taken(s)
      <4>1. CASE call[c].snapshot = s
        BY <4>1 DEF Taken, InHand
      <4>2. CASE line.kind = "result" /\ line.snapshot = s
        BY <2>1, <4>2 DEF Taken
      <4> QED BY <1>1, <2>3, <3>5, <4>1, <4>2 DEF InHand
    <3> QED BY <3>4, <3>5 DEF CallGoes
  <2> QED BY <2>2, <2>3, SameGoes
<1>4. CASE UNCHANGED call
  BY <1>4, SameGoes
<1>5. CASE \/ HostCommand(p) \/ HostTick(p) \/ HostExits(p) \/ HostCrashes(p) \/ HostHangs(p)
           \/ WriterStops(p) \/ WatchdogKills(p) \/ Receive(p)
  BY <1>4, <1>5 DEF HostCommand, HostTick, HostExits, HostCrashes, HostHangs, WriterStops,
                    WatchdogKills, Receive
<1> QED BY <1>2, <1>3, <1>5 DEF ProcessStep, ReaderEnds, WriteFails, RelayBreaks

LEMMA CallsFlow ==
    ASSUME IInv, Greets, [Next]_vars, NEW c \in Callers
    PROVE  CallGoes(c)
<1>1. CASE UNCHANGED call
  BY <1>1, SameGoes
<1>2. ASSUME NEW o \in Callers, CallStep(o) PROVE CallGoes(c)
  <2>1. CASE o = c
    BY <1>2, <2>1, CallerHears
  <2>2. CASE o # c
    BY <1>2, <2>2, OthersHear, SameGoes DEF IInv
  <2> QED BY <2>1, <2>2
<1> QED BY <1>1, <1>2, BeginnersHear, AnswersHeard DEF Next, vars


-----------------------------------------------------------------------------
(* What a step of the host adds                                            *)

NumberedIn(e) == e.session <= e.seq + 1

LEMMA NumbersGrow ==
    ASSUME NEW e \in Engine, NEW x, Emits(e, x)
    PROVE  /\ x.e \in Engine /\ x.e.session \in Nat /\ x.e.seq \in Nat
           /\ x.e.session >= e.session /\ x.e.seq >= e.seq
           /\ NumberedIn(e) => NumberedIn(x.e)
<1>1. /\ x.e \in Engine /\ x.e.session \in Nat /\ x.e.seq \in Nat
      /\ e.session \in Nat /\ e.seq \in Nat
  BY EngineNumbers DEF Emits
<1> QED BY <1>1 DEF Emits, Silent, Says, NumberedIn

NewReply(p, line, f) ==
    /\ line.kind \in Replies
    /\ line.id \in Nat /\ line.id <= proc[p].nextId
    /\ HelloFits(p, line)
    /\ line.kind = "result" =>
         line.snapshot = NoView \/ (line.snapshot = Snapshot(f) /\ f.seq >= 1)
Adds(p, t, r) ==
    /\ proc[p].life = "up" /\ proc'[p].life = "up" /\ proc'[p].session = proc[p].session
    /\ Emits(proc[p].engine, t) /\ Emits(t.e, r) /\ proc'[p].engine = r.e
    /\ t.events \in Seq(EventRec) /\ r.events \in Seq(EventRec)
    /\ proc'[p].mail = proc[p].mail /\ From(proc'[p].inbox, proc[p].inbox)
    /\ \A k \in 1 .. Len(proc'[p].out) :
         \/ \E j \in 1 .. Len(proc[p].out) : proc'[p].out[k] = proc[p].out[j]
         \/ \E j \in 1 .. Len(t.events) : proc'[p].out[k] = t.events[j]
         \/ \E j \in 1 .. Len(r.events) : proc'[p].out[k] = r.events[j]
         \/ NewReply(p, proc'[p].out[k], r.e)

LEMMA TickAdds ==
    ASSUME IInv, NEW p \in Procs, HostTick(p)
    PROVE  \E t, r : Adds(p, t, r)
<1>0. /\ TypeInv /\ Engines /\ proc[p] \in ProcRec /\ proc[p].life = "up"
      /\ proc[p].out \in Seq(Line)
  BY ProcTypes DEF IInv, Order, HostTick
<1>1. EngineOK(proc[p].engine)
  BY <1>0, ProcTypes DEF Engines, EngineOK
<1>2. PICK t \in Ticks(proc[p].engine) :
         proc' = [proc EXCEPT ![p].engine = t.e, ![p].out = @ \o t.events]
  BY DEF HostTick
<1>3. Elapses(proc[p].engine, t) /\ Emits(proc[p].engine, t)
  BY <1>1, TimeElapses, TimeEmits
<1> DEFINE f == t.e
           events == t.events
           h == [proc[p] EXCEPT !.engine = f]
           r == [h EXCEPT !.out = proc[p].out \o events]
           u == Unchanged(f)
<1>4. proc'[p] = r
  BY <1>0, <1>2 DEF TypeInv, ProcRec
<1>5. /\ EngineOK(f) /\ f \in Engine /\ events \in Seq(EventRec) /\ events \in Seq(Line)
  BY <1>3, EventsAreLines DEF Elapses, EngineOK
<1>6. Emits(f, u) /\ u.e = f /\ u.events = <<>>
  BY <1>5, EmitsNothing DEF Unchanged
<1> HIDE DEF f, events, u
<1>7. /\ h \in ProcRec /\ h.life = "up" /\ h.session = proc[p].session /\ h.engine = f
      /\ h.mail = proc[p].mail /\ h.inbox = proc[p].inbox
  BY <1>0, <1>5 DEF ProcRec
<1> HIDE DEF h
<1>8. /\ r.life = "up" /\ r.session = proc[p].session /\ r.engine = f
      /\ r.mail = proc[p].mail /\ r.inbox = proc[p].inbox /\ r.out = proc[p].out \o events
  BY <1>7 DEF ProcRec
<1> HIDE DEF r
<1>9. \A k \in 1 .. Len(r.out) : \/ \E j \in 1 .. Len(proc[p].out) : r.out[k] = proc[p].out[j]
                                 \/ \E j \in 1 .. Len(events) : r.out[k] = events[j]
  <2> TAKE k \in 1 .. Len(r.out)
  <2> DEFINE o == proc[p].out
  <2>1. o \in Seq(Line) /\ k \in 1 .. Len(o \o events) /\ r.out = o \o events
    BY <1>0, <1>8
  <2> HIDE DEF o
  <2>2. \/ k \in 1 .. Len(o) /\ r.out[k] = o[k]
        \/ k - Len(o) \in 1 .. Len(events) /\ r.out[k] = events[k - Len(o)]
    BY <1>5, <2>1, PlaceInSum
  <2> QED BY <2>2 DEF o
<1>10. <<>> \in Seq(EventRec)
  OBVIOUS
<1>11. Adds(p, t, u)
  BY <1>0, <1>3, <1>4, <1>5, <1>6, <1>8, <1>9, <1>10, AllFromAll DEF Adds, f, events
<1> QED BY <1>11

LEMMA CommandAdds ==
    ASSUME IInv, Greets, NEW p \in Procs, HostCommand(p)
    PROVE  \E t, r : Adds(p, t, r)
<1>0. /\ TypeInv /\ Engines /\ Locks /\ Pending /\ Written /\ Greeted /\ Told(p)
      /\ proc[p] \in ProcRec /\ proc[p].life = "up"
      /\ proc[p].inbox # <<>> /\ proc[p].inbox \in Seq(Cmd) /\ proc[p].out \in Seq(Line)
      /\ proc[p].session \in Nat /\ proc[p].pending \in SUBSET Waiter
  BY ProcTypes DEF IInv, Order, Mail, HostCommand, Greets
<1> DEFINE e == proc[p].engine
           cmd == Head(proc[p].inbox)
           inbox == Tail(proc[p].inbox)
<1>1. EngineOK(e) /\ e \in Engine /\ e.session \in Nat /\ e.seq \in Nat
  BY <1>0, ProcTypes, EngineNumbers DEF Engines, EngineOK
<1>2. PICK t \in {Unchanged(e)} \cup Ticks(e) :
         proc' = [proc EXCEPT ![p].engine = Process(t.e, cmd).e, ![p].inbox = Tail(@),
                      ![p].out = @ \o <<Reply(t.e, cmd, Process(t.e, cmd))>> \o t.events
                                   \o Process(t.e, cmd).events]
  BY DEF HostCommand
<1> DEFINE r == Process(t.e, cmd)
           f == r.e
           reply == Reply(t.e, cmd, r)
           ts == t.events
           rs == r.events
<1>3. Elapses(e, t) /\ Emits(e, t)
  BY <1>1, TimeElapses, TimeEmits
<1>4. /\ cmd \in Cmd /\ cmd.id \in Nat /\ cmd.id <= proc[p].nextId /\ From(inbox, proc[p].inbox)
      /\ cmd.op = GetSnapshot => cmd.session >= 2
  <2>1. cmd \in Cmd /\ cmd = proc[p].inbox[1] /\ 1 \in 1 .. Len(proc[p].inbox)
        /\ From(inbox, proc[p].inbox)
    BY <1>0, TailIs DEF From
  <2>2. cmd.op = GetSnapshot => cmd.session >= 2
    BY <1>0, <2>1 DEF Told
  <2>3. cmd.id <= proc[p].nextId
    BY <1>0, <2>1 DEF Written, CmdFits
  <2> QED BY <2>1, <2>2, <2>3 DEF Cmd
<1>5. /\ EngineOK(t.e) /\ t.e \in Engine /\ t.e.session = e.session /\ ts \in Seq(EventRec)
      /\ ts \in Seq(Line)
  BY <1>3, EventsAreLines DEF Elapses, EngineOK
<1>6. /\ f \in Engine /\ rs \in Seq(EventRec) /\ rs \in Seq(Line) /\ Emits(t.e, r)
      /\ f.session \in Nat /\ f.seq \in Nat
  <2>1. EngineOK(f) /\ rs \in Seq(EventRec)
    BY <1>4, <1>5, ProcessIs
  <2> QED BY <1>4, <1>5, <2>1, EventsAreLines, ProcessEmits, NumbersGrow DEF EngineOK
<1>7. NewReply(p, reply, f) /\ reply \in Line
  <2> DEFINE kind == IF cmd.op = Hello THEN "hello"
                     ELSE IF ~Authorized(t.e, cmd) THEN "mismatch"
                     ELSE IF ~r.ok THEN "error" ELSE "result"
             s == IF cmd.op = GetSnapshot THEN Snapshot(f) ELSE NoView
  <2>1. /\ reply.kind = kind /\ reply.id = cmd.id /\ reply.session = f.session
        /\ reply.snapshot = s
        /\ reply = [kind |-> kind, epoch |-> t.e.epoch, id |-> cmd.id, session |-> f.session,
                    snapshot |-> s]
    BY DEF Reply
  <2>2. kind = "hello" => cmd.op = Hello
    OBVIOUS
  <2>3. kind = "result" => Authorized(t.e, cmd)
    OBVIOUS
  <2>4. kind \in {"hello", "mismatch", "error", "result"}
    OBVIOUS
  <2>5. cmd.op = Hello => f.session = t.e.session + 1
    <3> SUFFICES ASSUME cmd.op = Hello PROVE f.session = t.e.session + 1
      OBVIOUS
    <3> DEFINE b == BeginSession(t.e, cmd)
    <3>1. r = b
      BY DEF Process, Hello
    <3>2. b.e.session = t.e.session + 1
      BY <1>4, <1>5, SessionBegins
    <3> HIDE DEF b, r
    <3> QED BY <3>1, <3>2
  <2>6. cmd.op = GetSnapshot /\ Authorized(t.e, cmd) => f.seq >= 1
    <3> SUFFICES ASSUME cmd.op = GetSnapshot, Authorized(t.e, cmd) PROVE f.seq >= 1
      OBVIOUS
    <3>1. t.e.session >= 2
      BY <1>4 DEF Authorized
    <3>2. NumberedIn(e)
      BY <1>0 DEF Told, NumberedIn
    <3>3. NumberedIn(t.e) /\ t.e.seq \in Nat /\ t.e.session \in Nat
      BY <1>1, <1>3, <3>2, NumbersGrow
    <3>4. f.seq >= t.e.seq
      BY <1>5, <1>6, NumbersGrow
    <3> HIDE DEF f
    <3> QED BY <1>6, <3>1, <3>3, <3>4 DEF NumberedIn
  <2>7. s \in Snapshots /\ t.e.epoch \in Nat
    <3>1. t.e.epoch \in Nat
      BY <1>5, EngineNumbers
    <3>2. Snapshot(f) \in Snapshots /\ NoView \in Snapshots
      BY <1>6, SnapshotTypes DEF Snapshots
    <3> HIDE DEF Snapshots, f, Snapshot, NoView
    <3> QED BY <3>1, <3>2
  <2>8. ASSUME NEW w \in proc[p].pending, call[w.caller].op = "connect" PROVE e.session >= 1
    <3>1. w.caller \in Callers /\ Waiting(w.caller) /\ call[w.caller].proc = p
      BY <1>0, <2>8 DEF Pending, Waiter
    <3>2. lifecycle = w.caller /\ running = p
      BY <1>0, <2>8, <3>1 DEF Locks, CallerFits, Engaged, Locked, Waiting
    <3>3. proc[p].session >= 1 /\ p # 0
      BY <1>0, <2>8, <3>2, ProcBound DEF Greeted, Procs
    <3>4. proc[p].session <= e.session
      BY <1>0 DEF Told
    <3> HIDE DEF e
    <3> QED BY <1>0, <1>1, <3>3, <3>4
  <2> HIDE DEF kind, s, f
  <2>9. HelloFits(p, reply)
    <3> SUFFICES ASSUME reply.kind = "hello"
                 PROVE  /\ reply.session >= 1
                        /\ \A w \in proc[p].pending :
                             w.id = reply.id /\ call[w.caller].op = "connect" => reply.session >= 2
      BY DEF HelloFits
    <3>1. reply.session = e.session + 1
      BY <1>5, <2>1, <2>2, <2>5
    <3> HIDE DEF e, reply
    <3> QED BY <1>1, <2>8, <3>1
  <2>10. reply.kind = "result" =>
           reply.snapshot = NoView \/ (reply.snapshot = Snapshot(f) /\ f.seq >= 1)
    BY <2>1, <2>3, <2>6 DEF s
  <2>11. reply \in Line
    BY <1>4, <1>6, <2>1, <2>4, <2>7 DEF Line, ReplyRec
  <2> HIDE DEF reply
  <2> QED BY <1>4, <2>1, <2>4, <2>9, <2>10, <2>11 DEF NewReply, Replies
<1> HIDE DEF f, reply, ts, rs, r, inbox
<1> DEFINE o == proc[p].out
           o1 == o \o <<reply>>
           o2 == o1 \o ts
           o3 == o2 \o rs
           i == [proc[p] EXCEPT !.engine = f]
           j == [i EXCEPT !.inbox = inbox]
           q == [j EXCEPT !.out = o3]
<1>8. proc'[p] = q
  <2>1. proc'[p] = [proc[p] EXCEPT !.engine = f, !.inbox = inbox, !.out = o \o <<reply>> \o ts \o rs]
    BY <1>0, <1>2 DEF TypeInv, f, reply, ts, rs, r, inbox
  <2> QED BY <1>0, <2>1 DEF ProcRec
<1>9. o \in Seq(Line) /\ <<reply>> \in Seq(Line)
  BY <1>0, <1>7
<1> HIDE DEF o
<1>10. o1 \in Seq(Line)
  BY <1>9
<1> HIDE DEF o1
<1>11. o2 \in Seq(Line)
  BY <1>5, <1>10
<1> HIDE DEF o2
<1>12. ASSUME NEW k \in 1 .. Len(o3)
       PROVE  \/ \E n \in 1 .. Len(o) : o3[k] = o[n]
              \/ o3[k] = reply
              \/ \E n \in 1 .. Len(ts) : o3[k] = ts[n]
              \/ \E n \in 1 .. Len(rs) : o3[k] = rs[n]
  <2>1. \/ k \in 1 .. Len(o2) /\ o3[k] = o2[k]
        \/ \E n \in 1 .. Len(rs) : o3[k] = rs[n]
    BY <1>6, <1>11, PlaceInSum
  <2>2. ASSUME NEW m \in 1 .. Len(o2)
        PROVE  \/ m \in 1 .. Len(o1) /\ o2[m] = o1[m]
               \/ \E n \in 1 .. Len(ts) : o2[m] = ts[n]
    BY <1>5, <1>10, PlaceInSum DEF o2
  <2>3. ASSUME NEW m \in 1 .. Len(o1)
        PROVE  \/ m \in 1 .. Len(o) /\ o1[m] = o[m]
               \/ o1[m] = reply
    <3> DEFINE x == <<reply>>
    <3>1. x \in Seq(Line) /\ Len(x) = 1 /\ \A n \in 1 .. Len(x) : x[n] = reply
      BY <1>9
    <3>2. o1 = o \o x
      BY DEF o1
    <3> HIDE DEF x
    <3>3. \/ m \in 1 .. Len(o) /\ o1[m] = o[m]
          \/ m - Len(o) \in 1 .. Len(x) /\ o1[m] = x[m - Len(o)]
      BY <1>9, <3>1, <3>2, PlaceInSum
    <3> QED BY <3>1, <3>3
  <2> HIDE DEF o3
  <2> QED BY <2>1, <2>2, <2>3
<1> HIDE DEF o3
<1>13. /\ i \in ProcRec /\ i.life = "up" /\ i.session = proc[p].session /\ i.engine = f
       /\ i.mail = proc[p].mail
  BY <1>0, <1>6 DEF ProcRec
<1> HIDE DEF i
<1>14. inbox \in Seq(Cmd)
  BY <1>0, TailIs DEF inbox
<1>15. /\ j \in ProcRec /\ j.life = "up" /\ j.session = proc[p].session /\ j.engine = f
       /\ j.mail = proc[p].mail /\ j.inbox = inbox
  BY <1>13, <1>14 DEF ProcRec
<1> HIDE DEF j
<1>16. /\ q.life = "up" /\ q.session = proc[p].session /\ q.engine = f
       /\ q.mail = proc[p].mail /\ q.inbox = inbox /\ q.out = o3
  BY <1>15 DEF ProcRec
<1> HIDE DEF q
<1>17. Adds(p, t, r)
  <2>1. \A k \in 1 .. Len(proc'[p].out) :
          \/ \E n \in 1 .. Len(proc[p].out) : proc'[p].out[k] = proc[p].out[n]
          \/ \E n \in 1 .. Len(ts) : proc'[p].out[k] = ts[n]
          \/ \E n \in 1 .. Len(rs) : proc'[p].out[k] = rs[n]
          \/ NewReply(p, proc'[p].out[k], f)
    BY <1>7, <1>8, <1>12, <1>16 DEF o
  <2> QED BY <1>0, <1>3, <1>4, <1>5, <1>6, <1>8, <1>16, <2>1 DEF Adds, f, ts, rs
<1> QED BY <1>17


-----------------------------------------------------------------------------
(* Everyone who connects was greeted after the engine had been started     *)

WaitGoes(c) ==
    Waiting(c)' => \/ Waiting(c) /\ call'[c] = call[c]
                   \/ /\ Insert(c) /\ call'[c].proc = call[c].proc
                      /\ call'[c].id = proc[call[c].proc].nextId + 1

LEMMA WaitsFlow ==
    ASSUME IInv, [Next]_vars, NEW c \in Callers
    PROVE  WaitGoes(c)
<1>0. TypeInv /\ call[c] \in CallRec
  BY CallTypes DEF IInv
<1>1. call'[c] = call[c] => WaitGoes(c)
  BY DEF WaitGoes, Waiting
<1>2. call'[c].pc # "wait" \/ call'[c].answer.kind # "none" => WaitGoes(c)
  BY DEF WaitGoes, Waiting
<1>3. ASSUME CallStep(c) PROVE WaitGoes(c)
  <2>1. \A pc : GoTo(c, pc) => call'[c].pc = pc
    BY <1>0, CallSteps
  <2>2. \A kind : Answered(c, kind) => call'[c].answer.kind = kind
    BY <1>0, CallSteps
  <2>3. Return(c) => call'[c].pc # "wait"
    <3>1. Return(c) => call'[c] = Idle
      BY <1>0, CallSteps
    <3> QED BY <3>1, IdleTypes
  <2>4. \A op : TakeState(c, op) => call'[c].pc = "reap"
    BY <1>0, CallSteps
  <2>5. \A req : call' = [call EXCEPT ![c].pc = "dispatch", ![c].req = req] => call'[c].pc = "dispatch"
    BY <1>0, CallSteps
  <2>6. CASE Dispatch(c)
    <3>1. call' = [call EXCEPT ![c].pc = "insert", ![c].proc = running] => call'[c].pc = "insert"
      BY <1>0 DEF TypeInv, CallRec
    <3> QED BY <1>2, <2>2, <2>6, <3>1 DEF Dispatch
  <2>7. CASE Insert(c)
    <3> DEFINE id == proc[call[c].proc].nextId + 1
    <3>1. CASE Answered(c, "failed")
      BY <1>2, <2>2, <3>1
    <3>2. CASE call' = [call EXCEPT ![c].pc = "wait", ![c].id = id]
      <4> HIDE DEF id
      <4>1. call'[c].proc = call[c].proc /\ call'[c].id = id
        BY <1>0, <3>2 DEF TypeInv, CallRec
      <4> QED BY <2>7, <4>1 DEF WaitGoes, id
    <3> QED BY <2>7, <3>1, <3>2 DEF Insert
  <2>8. CASE Timeout(c) \/ CheckSession(c)
    BY <1>2, <2>1, <2>2, <2>8 DEF Timeout, CheckSession
  <2>9. CASE StartLocked(c) \/ StartFailed(c) \/ StopAllowed(c) \/ Reap(c) \/ StopRefused(c)
    BY <1>2, <2>1, <2>3, <2>4, <2>9 DEF StartLocked, StartFailed, StopAllowed, Reap, StopRefused
  <2>10. CASE Spawn(c) \/ ConnectLocked(c)
    BY <1>2, <2>3, <2>5, <2>10 DEF Spawn, ConnectLocked
  <2>11. CASE \/ SpawnFails(c) \/ StartAnswered(c) \/ StopReturns(c) \/ ConnectFails(c)
              \/ ConnectReturns(c) \/ SendReturns(c) \/ RefreshReturns(c)
    BY <1>2, <2>3, <2>11 DEF SpawnFails, StartAnswered, StopReturns, ConnectFails, ConnectReturns,
                             SendReturns, RefreshReturns
  <2>12. CASE StopLocked(c)
    <3> DEFINE s == [epoch |-> running, n |-> proc[running].session]
    <3>1. call' = [call EXCEPT ![c].pc = "dispatch", ![c].req = Junction, ![c].session = s]
            => call'[c].pc = "dispatch"
      <4> HIDE DEF s
      <4> QED BY <1>0 DEF TypeInv, CallRec
    <3> QED BY <1>2, <2>1, <2>4, <2>12, <3>1 DEF StopLocked
  <2>13. CASE ConnectHello(c) \/ ConnectSnapshot(c)
    <3> DEFINE s == [epoch |-> running, n |-> call[c].answer.session]
               x == call[c].answer.snapshot
               k1 == [Idle EXCEPT !.pc = "dispatch", !.op = "connect", !.req = GetSnapshot,
                                  !.session = s]
               k2 == [Idle EXCEPT !.pc = "connected", !.op = "connect",
                                  !.session = call[c].session, !.snapshot = x]
    <3>1. call'[c] \in {k1, k2}
      BY <1>0, <2>13 DEF ConnectHello, ConnectSnapshot, TypeInv
    <3> HIDE DEF s, x
    <3>2. k1.pc = "dispatch" /\ k2.pc = "connected"
      BY DEF Idle
    <3> HIDE DEF k1, k2
    <3> QED BY <1>2, <3>1, <3>2
  <2>14. CASE Connected(c)
    <3>1. call' = [call EXCEPT ![c].pc = "check", ![c].op = "resolve", ![c].req = Junction]
            => call'[c].pc = "check"
      BY <1>0 DEF TypeInv, CallRec
    <3> QED BY <1>2, <2>14, <3>1 DEF Connected
  <2> QED BY <1>3, <2>6, <2>7, <2>8, <2>9, <2>10, <2>11, <2>12, <2>13, <2>14 DEF CallStep
<1>4. ASSUME NEW o \in Callers, CallStep(o), o # c PROVE WaitGoes(c)
  BY <1>0, <1>1, <1>4, OthersHear
<1>5. ASSUME NEW p \in Procs, ProcessStep(p) PROVE WaitGoes(c)
  <2>1. \A a : call'[c] = [call[c] EXCEPT !.answer = a] => call'[c].answer = a
    BY <1>0 DEF CallRec
  <2>2. CASE DrainPending(p)
    <3>1. call'[c] = call[c] \/ call'[c] = [call[c] EXCEPT !.answer = Answer("drained")]
      BY <2>2 DEF DrainPending
    <3>2. Answer("drained").kind = "drained"
      BY DEF Answer
    <3> QED BY <1>1, <1>2, <2>1, <3>1, <3>2
  <2>3. CASE Reader(p)
    <3> DEFINE line == Head(proc[p].out)
    <3>1. call'[c] = call[c] \/ (call'[c] = [call[c] EXCEPT !.answer = line] /\ line.kind \in Replies)
      BY <2>3 DEF Reader
    <3> HIDE DEF line
    <3> QED BY <1>1, <1>2, <2>1, <3>1 DEF Replies
  <2>4. CASE \/ HostCommand(p) \/ HostTick(p) \/ HostExits(p) \/ HostCrashes(p) \/ HostHangs(p)
             \/ WriterStops(p) \/ WatchdogKills(p) \/ Receive(p)
    BY <1>1, <2>4 DEF HostCommand, HostTick, HostExits, HostCrashes, HostHangs, WriterStops,
                      WatchdogKills, Receive
  <2> QED BY <1>5, <2>2, <2>3, <2>4 DEF ProcessStep, ReaderEnds, WriteFails, RelayBreaks
<1>6. CASE \/ \E b \in Users : CallStart(b) \/ CallStop(b) \/ \E req \in Ops : CallSend(b, req)
           \/ CallConnect \/ CallRefresh
  <2>1. ASSUME NEW b, NEW k, Call(b, k), k.pc # "wait" PROVE WaitGoes(c)
    <3>1. call'[c] = call[c] \/ call'[c] = k
      BY <1>0, <2>1 DEF Call, TypeInv
    <3> QED BY <1>1, <1>2, <2>1, <3>1
  <2>2. \A op : [Idle EXCEPT !.pc = "lock", !.op = op].pc # "wait"
    BY DEF Idle
  <2>3. ASSUME NEW op, NEW req, NEW s
        PROVE  [Idle EXCEPT !.pc = "check", !.op = op, !.req = req, !.session = s].pc # "wait"
    BY DEF Idle
  <2> QED BY <1>6, <2>1, <2>2, <2>3 DEF CallStart, CallStop, CallSend, CallConnect, CallRefresh
<1>7. CASE UNCHANGED vars
  BY <1>1, <1>7 DEF vars
<1> QED BY <1>3, <1>4, <1>5, <1>6, <1>7 DEF Next

HelloWillFit(p, line) == line.kind = "hello" =>
    /\ line.session >= 1
    /\ \A w \in proc'[p].pending :
         w.id = line.id /\ call'[w.caller].op = "connect" => line.session >= 2

(* A hello that was right stays right: who waits for it waited for it      *)
(* before, for a number given later no line is on its way.                 *)
LEMMA HelloStays ==
    ASSUME IInv, IInv', [Next]_vars, NEW p \in Procs, NEW line,
           line.kind = "hello", HelloFits(p, line), line.id \in Nat, line.id <= proc[p].nextId
    PROVE  HelloWillFit(p, line)
<1> SUFFICES ASSUME NEW w \in proc'[p].pending, w.id = line.id, call'[w.caller].op = "connect"
             PROVE  line.session >= 2
  BY DEF HelloFits, HelloWillFit
<1>0. /\ TypeInv /\ TypeInv' /\ Waits /\ Pending' /\ proc[p].nextId \in Nat
      /\ w = [id |-> w.id, caller |-> w.caller] /\ w.caller \in Callers
  <2>1. TypeInv /\ TypeInv' /\ Waits /\ Pending' /\ proc[p].nextId \in Nat
    BY ProcTypes DEF IInv, Mail
  <2>2. proc'[p] \in ProcRec
    BY <2>1 DEF TypeInv
  <2>3. w \in Waiter
    BY <2>2 DEF ProcRec
  <2> QED BY <2>1, <2>3 DEF Waiter
<1> DEFINE c == w.caller
<1>1. Waiting(c)' /\ call'[c].proc = p /\ call'[c].id = w.id
  BY <1>0 DEF Pending
<1>2. CASE Waiting(c) /\ call'[c] = call[c]
  <2>1. w \in proc[p].pending /\ call[c].op = "connect"
    BY <1>0, <1>1, <1>2 DEF Waits
  <2> QED BY <2>1 DEF HelloFits
<1>3. CASE call'[c].proc = call[c].proc /\ call'[c].id = proc[call[c].proc].nextId + 1
  BY <1>0, <1>1, <1>3
<1> QED BY <1>0, <1>1, <1>2, <1>3, WaitsFlow DEF WaitGoes

LEMMA ToldStays ==
    ASSUME IInv, IInv', Greets, [Next]_vars, NEW p \in Procs
    PROVE  Told(p)'
<1>0. /\ TypeInv /\ TypeInv' /\ Told(p) /\ Unstarted /\ Locks /\ Own /\ Read /\ Read'
      /\ proc[p].engine \in Engine /\ proc[p].engine.session \in Nat /\ proc[p].engine.seq \in Nat
      /\ proc[p].session \in Nat /\ proc[p].out \in Seq(Line) /\ proc[p].nextId \in Nat
      /\ \A c \in Callers : CallerTold(call[c])
  BY ProcTypes, EngineNumbers DEF IInv, Order, Mail, Greets
<1>1. ASSUME NEW j \in 1 .. Len(proc[p].out) PROVE HelloWillFit(p, proc[p].out[j])
  <2> DEFINE line == proc[p].out[j]
  <2>1. line \in Line /\ HelloFits(p, line) /\ LineFits(p, line)
    BY <1>0 DEF Told, Read
  <2> HIDE DEF line
  <2>2. ASSUME line.kind = "hello" PROVE HelloWillFit(p, line)
    <3>1. line.id \in Nat /\ line.id <= proc[p].nextId
      BY <2>1, <2>2, LineTypes DEF LineFits, Replies
    <3> QED BY <2>1, <2>2, <3>1, HelloStays
  <2>3. ASSUME line.kind # "hello" PROVE HelloWillFit(p, line)
    BY <2>3 DEF HelloWillFit
  <2>4. HelloWillFit(p, line)
    BY <2>2, <2>3
  <2> QED BY <2>4 DEF line
<1> DEFINE AllFit == \A k \in 1 .. Len(proc'[p].out) : HelloWillFit(p, proc'[p].out[k])
<1>a. AllFit => \A k \in 1 .. Len(proc'[p].out) : HelloFits(p, proc[p].out[k])'
  BY DEF HelloFits, HelloWillFit
<1> HIDE DEF AllFit
<1>2. CASE HostCommand(p) \/ HostTick(p)
  <2>1. PICK t, r : Adds(p, t, r)
    BY <1>2, TickAdds, CommandAdds
  <2>2. NumberedIn(proc[p].engine) /\ proc[p].session <= proc[p].engine.session
    BY <1>0, <2>1 DEF Told, NumberedIn, Adds
  <2>3. /\ t.e \in Engine /\ t.e.session \in Nat /\ t.e.session >= proc[p].engine.session
        /\ NumberedIn(t.e)
    BY <1>0, <2>1, <2>2, NumbersGrow DEF Adds
  <2>4. r.e.session \in Nat /\ r.e.session >= t.e.session /\ NumberedIn(r.e)
    BY <2>1, <2>3, NumbersGrow DEF Adds
  <2>5. proc'[p].session <= proc'[p].engine.session
        /\ proc'[p].engine.session <= proc'[p].engine.seq + 1
    BY <1>0, <2>1, <2>2, <2>3, <2>4 DEF Adds, NumberedIn
  <2>6. ASSUME NEW k \in 1 .. Len(proc'[p].inbox), proc'[p].inbox[k].op = GetSnapshot
        PROVE  proc'[p].inbox[k].session >= 2
    BY <1>0, <2>1, <2>6 DEF Adds, From, Told
  <2>7. UNCHANGED call
    BY <1>2 DEF HostCommand, HostTick
  <2>8. AllFit
    <3> SUFFICES ASSUME NEW k \in 1 .. Len(proc'[p].out) PROVE HelloWillFit(p, proc'[p].out[k])
      BY DEF AllFit
    <3> DEFINE line == proc'[p].out[k]
    <3>1. CASE \E j \in 1 .. Len(proc[p].out) : line = proc[p].out[j]
      BY <1>1, <3>1
    <3>2. CASE \/ \E j \in 1 .. Len(t.events) : line = t.events[j]
               \/ \E j \in 1 .. Len(r.events) : line = r.events[j]
      <4>1. line \in EventRec
        BY <2>1, <3>2 DEF Adds
      <4> HIDE DEF line
      <4>2. line.kind # "hello"
        BY <4>1, EventsAreNoReplies DEF Replies
      <4>3. HelloWillFit(p, line)
        BY <4>2 DEF HelloWillFit
      <4> QED BY <4>3 DEF line
    <3>3. CASE NewReply(p, line, r.e)
      <4> HIDE DEF line
      <4>1. HelloFits(p, line) /\ line.id \in Nat /\ line.id <= proc[p].nextId
        BY <3>3 DEF NewReply
      <4>2. HelloWillFit(p, line)
        <5>1. CASE line.kind = "hello"
          BY <4>1, <5>1, HelloStays
        <5>2. CASE line.kind # "hello"
          BY <5>2 DEF HelloWillFit
        <5> QED BY <5>1, <5>2
      <4> QED BY <4>2 DEF line
    <3>4. \/ \E j \in 1 .. Len(proc[p].out) : line = proc[p].out[j]
          \/ \E j \in 1 .. Len(t.events) : line = t.events[j]
          \/ \E j \in 1 .. Len(r.events) : line = r.events[j]
          \/ NewReply(p, line, r.e)
      BY <2>1 DEF Adds
    <3> HIDE DEF line
    <3>5. HelloWillFit(p, line)
      BY <3>1, <3>2, <3>3, <3>4 DEF line
    <3> QED BY <3>5 DEF line
  <2>9. \A k \in 1 .. Len(proc'[p].out) : HelloFits(p, proc[p].out[k])'
    BY <1>a, <2>8
  <2> QED BY <2>5, <2>6, <2>9 DEF Told
<1>3. CASE ~(HostCommand(p) \/ HostTick(p))
  <2>0. /\ proc'[p].life \in {"none", "up"} =>
             proc[p].life \in {"none", "up"} /\ proc'[p].engine = proc[p].engine
        /\ From(proc'[p].out, proc[p].out)
        /\ \A k \in 1 .. Len(proc'[p].inbox) :
             \/ \E j \in 1 .. Len(proc[p].inbox) : proc'[p].inbox[k] = proc[p].inbox[j]
             \/ \E c \in Callers : call[c].pc = "insert" /\ proc'[p].inbox[k] = Command(p, c)
        /\ \/ proc'[p].session = proc[p].session
           \/ \E c \in Callers : Keeps(c, p, proc'[p].session)
    BY <1>3, PipesFlow DEF PipesGo
  <2>1. ASSUME proc'[p].life = "up"
        PROVE  /\ proc'[p].session <= proc'[p].engine.session
               /\ proc'[p].engine.session <= proc'[p].engine.seq + 1
    <3>1. proc'[p].engine = proc[p].engine /\ proc[p].life \in {"none", "up"}
      BY <2>0, <2>1
    <3>2. /\ proc[p].session <= proc[p].engine.session
          /\ proc[p].engine.session <= proc[p].engine.seq + 1
      <4>1. CASE proc[p].life = "up"
        BY <1>0, <4>1 DEF Told
      <4>2. CASE proc[p].life = "none"
        <5>1. proc[p].session = 0 /\ proc[p].engine = NewEngine(p)
          BY <1>0, <4>2, NothingYet DEF Unstarted
        <5>2. NewEngine(p).session = 0 /\ NewEngine(p).seq = 0
          BY DEF NewEngine
        <5> QED BY <5>1, <5>2
      <4> QED BY <3>1, <4>1, <4>2
    <3>3. ASSUME NEW c \in Callers, Keeps(c, p, proc'[p].session)
          PROVE  proc'[p].session <= proc[p].engine.session
      <4>1. Has(c, {"hello"}) /\ Has(c, Replied) /\ call[c].op \in Locked
            /\ proc'[p].session = call[c].answer.session /\ p = running
        BY <3>3 DEF Keeps, Has, Replied, Locked
      <4>2. call[c].proc = p /\ proc[p].life # "none"
        BY <1>0, <4>1 DEF Locks, CallerFits, Engaged
      <4> QED BY <1>0, <3>1, <4>1, <4>2 DEF Own, OwnFits
    <3> QED BY <2>0, <3>1, <3>2, <3>3
  <2>2. ASSUME NEW k \in 1 .. Len(proc'[p].inbox), proc'[p].inbox[k].op = GetSnapshot
        PROVE  proc'[p].inbox[k].session >= 2
    <3>1. CASE \E j \in 1 .. Len(proc[p].inbox) : proc'[p].inbox[k] = proc[p].inbox[j]
      BY <1>0, <2>2, <3>1 DEF Told
    <3>2. ASSUME NEW c \in Callers, proc'[p].inbox[k] = Command(p, c)
          PROVE  proc'[p].inbox[k].session >= 2
      <4>1. call[c].req = GetSnapshot /\ proc'[p].inbox[k].session = call[c].session.n
        BY <2>2, <3>2 DEF Command
      <4> QED BY <1>0, <4>1 DEF CallerTold, Second
    <3> QED BY <2>0, <3>1, <3>2
  <2>3. AllFit
    <3> SUFFICES ASSUME NEW k \in 1 .. Len(proc'[p].out) PROVE HelloWillFit(p, proc'[p].out[k])
      BY DEF AllFit
    <3>1. PICK j \in 1 .. Len(proc[p].out) : proc'[p].out[k] = proc[p].out[j]
      BY <2>0 DEF From
    <3> QED BY <1>1, <3>1
  <2>4. \A k \in 1 .. Len(proc'[p].out) : HelloFits(p, proc[p].out[k])'
    BY <1>a, <2>3
  <2> QED BY <2>1, <2>2, <2>4 DEF Told
<1> QED BY <1>2, <1>3


(* The engine in `state` was greeted, or start() holds the lock and will.  *)
LEMMA HolderSteps ==
    ASSUME IInv, Greets, NEW c \in Callers, CallStep(c)
    PROVE  /\ running' \in {running, 0} \/ (Spawn(c) /\ lifecycle = c)
           /\ lifecycle' = lifecycle \/ lifecycle \in {c, Nobody}
           /\ lifecycle = c /\ call[c].op = "start" =>
                \/ running' = 0 \/ StartAnswered(c)
                \/ lifecycle' = c /\ call'[c].op = "start"
<1>0. TypeInv /\ CallerFits(c) /\ CallerTold(call[c]) /\ c # Nobody
  BY CallerNames DEF IInv, Order, Locks, Greets, Callers
<1> DEFINE Holds == /\ running' \in {running, 0} \/ (Spawn(c) /\ lifecycle = c)
                    /\ lifecycle' = lifecycle \/ lifecycle \in {c, Nobody}
                    /\ lifecycle = c /\ call[c].op = "start" =>
                         \/ running' = 0 \/ StartAnswered(c)
                         \/ lifecycle' = c /\ call'[c].op = "start"
<1>1. \A pc : GoTo(c, pc) => call'[c].op = call[c].op
  BY <1>0, CallSteps
<1>2. \A kind : Answered(c, kind) => call'[c].op = call[c].op
  BY <1>0, CallSteps
<1>3. \A req : call' = [call EXCEPT ![c].pc = "dispatch", ![c].req = req] => call'[c].op = call[c].op
  BY <1>0, CallSteps
<1>4. \A op : TakeState(c, op) => running' = 0
  BY DEF TakeState
<1>5. CASE Dispatch(c) \/ CheckSession(c)
  <2>1. call' = [call EXCEPT ![c].pc = "insert", ![c].proc = running] => call'[c].op = call[c].op
    BY <1>0, CallTypes DEF TypeInv, CallRec
  <2>2. running' = running /\ lifecycle' = lifecycle /\ call'[c].op = call[c].op
    BY <1>1, <1>2, <1>5, <2>1 DEF Dispatch, CheckSession
  <2> QED BY <2>2
<1>6. CASE Insert(c) \/ Timeout(c)
  <2> DEFINE id == proc[call[c].proc].nextId + 1
  <2>1. call' = [call EXCEPT ![c].pc = "wait", ![c].id = id] => call'[c].op = call[c].op
    <3> HIDE DEF id
    <3> QED BY <1>0, CallTypes DEF TypeInv, CallRec
  <2>2. running' = running /\ lifecycle' = lifecycle /\ call'[c].op = call[c].op
    BY <1>2, <1>6, <2>1 DEF Insert, Timeout
  <2> QED BY <2>2
<1>7. CASE Reap(c) \/ SpawnFails(c)
  <2>1. running' = 0 /\ lifecycle = c
    BY <1>0, <1>7 DEF Reap, SpawnFails, At, CallerFits
  <2> QED BY <2>1
<1>8. CASE StartLocked(c) \/ StopLocked(c)
  <2>1. lifecycle = Nobody /\ running' \in {running, 0}
    BY <1>4, <1>8 DEF StartLocked, StopLocked
  <2> QED BY <1>0, <2>1
<1>9. CASE ConnectLocked(c)
  BY <1>0, <1>9 DEF ConnectLocked
<1>10. CASE Spawn(c)
  <2>1. call'[c].op = call[c].op /\ lifecycle' = lifecycle /\ lifecycle = c
    BY <1>0, <1>3, <1>10 DEF Spawn, At, CallerFits
  <2> QED BY <1>10, <2>1
<1>11. CASE StartAnswered(c)
  <2>1. lifecycle = c /\ running' = running
    BY <1>0, <1>11 DEF StartAnswered, Has, CallerFits, Locked
  <2> QED BY <1>11, <2>1
<1>12. CASE StartFailed(c) \/ StopAllowed(c)
  <2>1. running' = 0 /\ lifecycle' = lifecycle
    BY <1>4, <1>12 DEF StartFailed, StopAllowed
  <2> QED BY <2>1
<1>13. CASE StopRefused(c) \/ StopReturns(c)
  <2>1. call[c].op = "stop" /\ running' = running
    BY <1>0, <1>13 DEF StopRefused, StopReturns, CallerTold
  <2>2. CASE StopRefused(c)
    <3>1. lifecycle = c
      BY <1>0, <2>1, <2>2 DEF StopRefused, Has, CallerFits, Locked
    <3> QED BY <2>1, <3>1
  <2>3. CASE StopReturns(c)
    BY <2>1, <2>3 DEF StopReturns
  <2> QED BY <1>13, <2>2, <2>3
<1>14. CASE ConnectHello(c) \/ ConnectSnapshot(c) \/ ConnectFails(c) \/ Connected(c)
  <2>1. call[c].op = "connect" /\ running' = running
    BY <1>14 DEF ConnectHello, ConnectSnapshot, ConnectFails, Connected, At
  <2>2. lifecycle' = lifecycle \/ lifecycle = c
    BY <1>0, <1>14, <2>1 DEF ConnectHello, ConnectSnapshot, ConnectFails, Connected, Has,
                             CallerFits, Locked
  <2> QED BY <2>1, <2>2
<1>15. CASE ConnectReturns(c) \/ SendReturns(c) \/ RefreshReturns(c)
  BY <1>15 DEF ConnectReturns, SendReturns, RefreshReturns
<1> QED BY <1>5, <1>6, <1>7, <1>8, <1>9, <1>10, <1>11, <1>12, <1>13, <1>14, <1>15 DEF CallStep

LEMMA HoldersStay ==
    ASSUME TypeInv, NEW c \in Callers, call[c].op # "none",
           \/ \E p \in Procs : ProcessStep(p)
           \/ \E b \in Users : CallStart(b) \/ CallStop(b) \/ \E req \in Ops : CallSend(b, req)
           \/ CallConnect \/ CallRefresh
    PROVE  running' = running /\ lifecycle' = lifecycle /\ call'[c].op = call[c].op
<1>0. call[c] \in CallRec
  BY CallTypes
<1>1. ASSUME NEW p \in Procs, ProcessStep(p)
      PROVE  running' = running /\ lifecycle' = lifecycle /\ call'[c].op = call[c].op
  <2>1. \A a : [call[c] EXCEPT !.answer = a].op = call[c].op
    BY <1>0 DEF CallRec
  <2>2. CASE \/ HostCommand(p) \/ HostTick(p) \/ HostExits(p) \/ HostCrashes(p) \/ HostHangs(p)
             \/ WriterStops(p) \/ WatchdogKills(p) \/ Receive(p)
    BY <2>2 DEF HostCommand, HostTick, HostExits, HostCrashes, HostHangs, WriterStops,
                WatchdogKills, Receive
  <2>3. CASE ReaderEnds(p) \/ WriteFails(p) \/ RelayBreaks(p)
    <3>1. /\ running' = running /\ lifecycle' = lifecycle
          /\ call'[c] = call[c] \/ call'[c] = [call[c] EXCEPT !.answer = Answer("drained")]
      BY <2>3 DEF ReaderEnds, WriteFails, RelayBreaks, DrainPending
    <3> QED BY <2>1, <3>1
  <2>4. CASE Reader(p)
    <3> DEFINE line == Head(proc[p].out)
    <3>1. /\ running' = running /\ lifecycle' = lifecycle
          /\ call'[c] = call[c] \/ call'[c] = [call[c] EXCEPT !.answer = line]
      BY <2>4 DEF Reader
    <3> HIDE DEF line
    <3> QED BY <2>1, <3>1
  <2> QED BY <1>1, <2>2, <2>3, <2>4 DEF ProcessStep
<1>2. CASE \/ \E b \in Users : CallStart(b) \/ CallStop(b) \/ \E req \in Ops : CallSend(b, req)
           \/ CallConnect \/ CallRefresh
  <2>1. PICK b, k : Call(b, k)
    BY <1>2 DEF CallStart, CallStop, CallSend, CallConnect, CallRefresh
  <2>2. Idle.op = "none"
    BY DEF Idle
  <2>3. b # c /\ call' = [call EXCEPT ![b] = k] /\ running' = running /\ lifecycle' = lifecycle
    BY <2>1, <2>2 DEF Call
  <2> QED BY <2>3 DEF TypeInv
<1> QED BY <1>1, <1>2

LEMMA SessionsStay ==
    ASSUME IInv, Greets, [Next]_vars, NEW p \in Procs, proc[p].session >= 1
    PROVE  proc'[p].session >= 1
<1>1. CASE HostCommand(p) \/ HostTick(p)
  <2>1. PICK t, r : Adds(p, t, r)
    BY <1>1, TickAdds, CommandAdds
  <2> QED BY <2>1 DEF Adds
<1>2. ASSUME NEW c \in Callers, Keeps(c, p, proc'[p].session) PROVE proc'[p].session >= 1
  BY <1>2 DEF Keeps, Has, Greets, CallerTold
<1> QED BY <1>1, <1>2, PipesFlow DEF PipesGo

LEMMA GreetedStays ==
    ASSUME IInv, Greets, [Next]_vars
    PROVE  Greeted'
<1>0. TypeInv /\ Greeted
  BY DEF IInv, Greets
<1> DEFINE p == running
           c == lifecycle
<1> SUFFICES ASSUME running' # 0
             PROVE  \/ proc'[running'].session >= 1
                    \/ lifecycle' # Nobody /\ call'[lifecycle'].op = "start"
  BY DEF Greeted
<1>1. ASSUME running' = running, proc[p].session >= 1 PROVE proc'[running'].session >= 1
  <2>1. p \in Procs
    BY <1>0, <1>1, ProcBound DEF TypeInv, Procs
  <2> QED BY <1>1, <2>1, SessionsStay
<1>2. ASSUME running' = running, c # Nobody, call[c].op = "start", ~ UNCHANGED vars
      PROVE  \/ proc'[running'].session >= 1
             \/ lifecycle' # Nobody /\ call'[lifecycle'].op = "start"
  <2>1. c \in Callers
    BY <1>0, <1>2 DEF TypeInv
  <2>2. ASSUME NEW o \in Callers, CallStep(o)
        PROVE  \/ proc'[running'].session >= 1
               \/ lifecycle' # Nobody /\ call'[lifecycle'].op = "start"
    <3>1. CASE o # c
      <4>1. lifecycle' = c /\ call'[c] = call[c]
        BY <1>0, <1>2, <2>1, <2>2, <3>1, HolderSteps, OthersHear
      <4> QED BY <1>2, <4>1
    <3>2. CASE o = c
      <4>1. CASE StartAnswered(c)
        <5>1. /\ call[c].answer.session >= 1
              /\ proc' = [proc EXCEPT ![running].session = call[c].answer.session]
          BY <2>1, <4>1 DEF StartAnswered, KeepSession, Has, Greets, CallerTold
        <5>2. p \in Procs
          BY <1>0, <1>2, ProcBound DEF TypeInv, Procs
        <5>3. proc[p] \in ProcRec
          BY <1>0, <5>2 DEF TypeInv
        <5>4. proc'[p].session = call[c].answer.session
          BY <1>0, <5>1, <5>2, <5>3 DEF TypeInv, ProcRec
        <5> QED BY <1>2, <5>1, <5>4
      <4>2. CASE ~StartAnswered(c)
        <5>1. lifecycle' = c /\ call'[c].op = "start"
          BY <1>2, <2>1, <2>2, <3>2, <4>2, HolderSteps
        <5> QED BY <1>2, <5>1
      <4> QED BY <4>1, <4>2
    <3> QED BY <3>1, <3>2
  <2>3. CASE \/ \E q \in Procs : ProcessStep(q)
             \/ \E b \in Users : CallStart(b) \/ CallStop(b) \/ \E req \in Ops : CallSend(b, req)
             \/ CallConnect \/ CallRefresh
    <3>1. lifecycle' = c /\ call'[c].op = "start"
      BY <1>0, <1>2, <2>1, <2>3, HoldersStay
    <3> QED BY <1>2, <3>1
  <2> QED BY <1>2, <2>2, <2>3 DEF Next
<1>3. ASSUME running' # running PROVE lifecycle' # Nobody /\ call'[lifecycle'].op = "start"
  <2>1. \E o \in Callers : CallStep(o)
    <3>1. \/ UNCHANGED vars
          \/ \E o \in Callers : CallStep(o)
          \/ \E q \in Procs : ProcessStep(q)
          \/ \E b \in Users : CallStart(b) \/ CallStop(b) \/ \E req \in Ops : CallSend(b, req)
          \/ CallConnect \/ CallRefresh
      BY DEF Next
    <3>2. \A q \in Procs : ProcessStep(q) => running' = running
      BY DEF ProcessStep, HostCommand, HostTick, HostExits, HostCrashes, HostHangs, WriterStops,
             WatchdogKills, Receive, Reader, ReaderEnds, WriteFails, RelayBreaks
    <3>3. (\/ \E b \in Users : CallStart(b) \/ CallStop(b) \/ \E req \in Ops : CallSend(b, req)
           \/ CallConnect \/ CallRefresh) => running' = running
      BY DEF CallStart, CallStop, CallSend, CallConnect, CallRefresh, Call
    <3> QED BY <1>3, <3>1, <3>2, <3>3 DEF vars
  <2>2. PICK o \in Callers : CallStep(o)
    BY <2>1
  <2>3. Spawn(o) /\ lifecycle = o
    BY <1>3, <2>2, HolderSteps
  <2>4. lifecycle' = o /\ call'[o].op = "start" /\ o # Nobody
    <3>1. lifecycle' = o /\ call[o].op = "start"
      BY <2>3 DEF Spawn, At
    <3>2. call'[o].op = call[o].op
      BY <1>0, <2>3, CallSteps DEF Spawn
    <3> QED BY <3>1, <3>2, CallerNames DEF Callers
  <2> QED BY <2>4
<1> QED BY <1>0, <1>1, <1>2, <1>3 DEF Greeted, vars

LEMMA GreetsStays ==
    ASSUME IInv, IInv', Greets, [Next]_vars
    PROVE  Greets'
<1>1. \A c \in Callers : CallerTold(call'[c])
  BY CallsFlow DEF CallGoes
<1>2. \A p \in Procs : Told(p)'
  BY ToldStays
<1>3. client'.session # NoSession => client'.session.n >= 2
  <2>1. ASSUME NEW c \in Callers, call[c].pc = "connected", client'.session = call[c].session
        PROVE  client'.session.n >= 2
    BY <2>1 DEF Greets, CallerTold, Second
  <2> QED BY <2>1, ClientAdvances DEF ClientGoes, Greets
<1>4. (\A c \in Callers : CallerTold(call[c]))'
  BY <1>1 DEF CallerTold, Second
<1> QED BY <1>2, <1>3, <1>4, GreetedStays DEF Greets


-----------------------------------------------------------------------------
(* What is on its way, and what the webview shows, was once so             *)

Witness(h, p) ==
    /\ Recorded(h, proc[p].engine)
    /\ \A event \in EventRec : InFlight(event) /\ event.epoch = p => TrueEvent(h, proc[p].engine, event)
    /\ \A s : Taken(s) /\ s.epoch = p => TrueView(h, proc[p].engine, s)
    /\ client.view.epoch = p => ViewFits(h, proc[p].engine, client.view)
Truth(p) == proc[p].life \in {"none", "up"} => \E h : Witness(h, p)

Hosts(p) == HostCommand(p) \/ HostTick(p)

LEMMA FlightFlows ==
    ASSUME IInv, Typed, [Next]_vars, NEW event, InFlight(event)'
    PROVE  \/ InFlight(event)
           \/ \E q \in Procs : Hosts(q) /\ \E k \in 1 .. Len(proc'[q].out) : proc'[q].out[k] = event
<1>0. TypeInv /\ ClientGoes
  BY ClientAdvances DEF IInv
<1>1. ASSUME NEW q \in Procs, NEW k \in 1 .. Len(proc'[q].out), proc'[q].out[k] = event,
             ~ Hosts(q)
      PROVE  InFlight(event)
  BY <1>1, PipesFlow DEF PipesGo, Hosts, From, InFlight
<1>2. ASSUME NEW q \in Procs, NEW k \in 1 .. Len(proc'[q].mail), proc'[q].mail[k] = event
      PROVE  InFlight(event)
  <2>1. CASE Hosts(q)
    <3>1. proc'[q].mail = proc[q].mail
      BY <1>0, <2>1, ProcTypes DEF Hosts, HostCommand, HostTick, TypeInv, ProcRec
    <3> QED BY <1>2, <3>1 DEF InFlight
  <2>2. CASE ~ Hosts(q)
    BY <1>2, <2>2, PipesFlow DEF PipesGo, Hosts, InFlight
  <2> QED BY <2>1, <2>2
<1>3. ASSUME NEW k \in 1 .. Len(client'.buffer), client'.buffer[k] = event
      PROVE  InFlight(event)
  <2>1. client.buffer \in Seq(EventRec)
    BY DEF Typed
  <2>2. CASE client'.buffer \in {client.buffer, <<>>}
    BY <1>3, <2>2 DEF InFlight
  <2>3. ASSUME NEW p \in Procs, proc[p].mail # <<>>,
               client'.buffer = Append(client.buffer, Head(proc[p].mail))
        PROVE  InFlight(event)
    <3>1. Head(proc[p].mail) \in EventRec /\ Head(proc[p].mail) = proc[p].mail[1]
          /\ 1 \in 1 .. Len(proc[p].mail)
      BY <1>0, <2>3, ProcTypes, TailIs
    <3>2. event \in {client.buffer[k], Head(proc[p].mail)}
          /\ (event = Head(proc[p].mail) \/ k \in 1 .. Len(client.buffer))
      BY <1>3, <2>1, <2>3, <3>1
    <3> QED BY <1>3, <2>1, <2>3, <3>1, <3>2 DEF InFlight
  <2> QED BY <1>0, <2>2, <2>3 DEF ClientGoes
<1> QED BY <1>1, <1>2, <1>3 DEF InFlight

LEMMA TakenFlows ==
    ASSUME IInv, Greets, [Next]_vars, NEW s, Taken(s)'
    PROVE  \/ Taken(s) \/ s = NoView
           \/ \E q \in Procs : /\ Hosts(q)
                               /\ \E k \in 1 .. Len(proc'[q].out) :
                                    proc'[q].out[k].kind = "result" /\ proc'[q].out[k].snapshot = s
<1>1. ASSUME NEW q \in Procs, NEW k \in 1 .. Len(proc'[q].out), proc'[q].out[k].kind = "result",
             proc'[q].out[k].snapshot = s, ~ Hosts(q)
      PROVE  Taken(s)
  BY <1>1, PipesFlow DEF PipesGo, Hosts, From, Taken
<1>2. ASSUME NEW c \in Callers, InHand(call'[c], s) PROVE Taken(s) \/ s = NoView
  BY <1>2, CallsFlow DEF CallGoes
<1>3. (\E c \in Callers : InHand(call[c], s))' => \E c \in Callers : InHand(call'[c], s)
  BY DEF InHand
<1> QED BY <1>1, <1>2, <1>3 DEF Taken

LEMMA EventsAreOwn ==
    ASSUME NEW e \in Engine, NEW x, Emits(e, x)
    PROVE  /\ x.e \in Engine /\ x.e.epoch = e.epoch
           /\ \A k \in 1 .. Len(x.events) : x.events[k].epoch = e.epoch
<1>1. ASSUME Silent(e, x) PROVE \A k \in 1 .. Len(x.events) : x.events[k].epoch = e.epoch
  BY <1>1 DEF Silent
<1>2. ASSUME NEW event \in EventRec, Says(e, x, event)
      PROVE  \A k \in 1 .. Len(x.events) : x.events[k].epoch = e.epoch
  <2>1. x.events = <<event>> /\ event.epoch = e.epoch
    BY <1>2 DEF Says
  <2> QED BY <2>1
<1> QED BY <1>1, <1>2 DEF Emits

(* Which engine a line that the host adds is about.                        *)
LEMMA HostSends ==
    ASSUME IInv, NEW q \in Procs, NEW t, NEW r, Adds(q, t, r), NEW k \in 1 .. Len(proc'[q].out)
    PROVE  LET line == proc'[q].out[k]
           IN /\ line \in EventRec =>
                   \/ InFlight(line)
                   \/ line.epoch = q /\ \/ \E j \in 1 .. Len(t.events) : line = t.events[j]
                                        \/ \E j \in 1 .. Len(r.events) : line = r.events[j]
              /\ line.kind = "result" =>
                   \/ Taken(line.snapshot) \/ line.snapshot = NoView
                   \/ line.snapshot = Snapshot(r.e) /\ Snapshot(r.e).epoch = q /\ r.e.seq >= 1
<1> DEFINE line == proc'[q].out[k]
<1>1. proc[q].engine \in Engine /\ proc[q].engine.epoch = q
  BY ProcTypes DEF IInv, Order, Engines
<1>2. /\ t.e \in Engine /\ t.e.epoch = q /\ \A j \in 1 .. Len(t.events) : t.events[j].epoch = q
  BY <1>1, EventsAreOwn DEF Adds
<1>3. /\ r.e.epoch = q /\ \A j \in 1 .. Len(r.events) : r.events[j].epoch = q
  BY <1>2, EventsAreOwn DEF Adds
<1>4. Snapshot(r.e).epoch = q
  BY <1>3 DEF Snapshot
<1>5. /\ \A j \in 1 .. Len(t.events) : t.events[j] \in EventRec
      /\ \A j \in 1 .. Len(r.events) : r.events[j] \in EventRec
  BY DEF Adds
<1>6. \/ \E j \in 1 .. Len(proc[q].out) : line = proc[q].out[j]
      \/ \E j \in 1 .. Len(t.events) : line = t.events[j]
      \/ \E j \in 1 .. Len(r.events) : line = r.events[j]
      \/ NewReply(q, line, r.e)
  BY DEF Adds
<1> HIDE DEF line
<1>7. ASSUME NEW j \in 1 .. Len(proc[q].out), line = proc[q].out[j]
      PROVE  InFlight(line) /\ (line.kind = "result" => Taken(line.snapshot))
  BY <1>7 DEF InFlight, Taken
<1>8. line \in EventRec => line.kind # "result" /\ ~NewReply(q, line, r.e)
  BY EventsAreNoReplies DEF NewReply, Replies
<1>9. line \in EventRec =>
        \/ InFlight(line)
        \/ line.epoch = q /\ \/ \E j \in 1 .. Len(t.events) : line = t.events[j]
                             \/ \E j \in 1 .. Len(r.events) : line = r.events[j]
  BY <1>2, <1>3, <1>6, <1>7, <1>8
<1>10. line.kind = "result" =>
         \/ Taken(line.snapshot) \/ line.snapshot = NoView
         \/ line.snapshot = Snapshot(r.e) /\ Snapshot(r.e).epoch = q /\ r.e.seq >= 1
  BY <1>4, <1>5, <1>6, <1>7, <1>8 DEF NewReply
<1> QED BY <1>9, <1>10 DEF line

LEMMA EngineElsewhere ==
    ASSUME IInv, Greets, Typed, [Next]_vars, NEW p \in Procs, ~ Hosts(p), NEW h, Witness(h, p),
           proc'[p].engine = proc[p].engine
    PROVE  Witness(h, p)'
<1> DEFINE e == proc[p].engine
<1>0. e \in Engine /\ e.epoch = p /\ p # 0 /\ Recorded(h, e) /\ TypeInv /\ ClientGoes
  BY ProcTypes, ProcBound, ClientAdvances DEF IInv, Order, Engines, Procs, Witness
<1>1. ASSUME NEW event \in EventRec, InFlight(event)', event.epoch = p PROVE TrueEvent(h, e, event)
  <2>1. ASSUME NEW q \in Procs, Hosts(q), NEW k \in 1 .. Len(proc'[q].out), proc'[q].out[k] = event
        PROVE  InFlight(event)
    <3>1. PICK t, r : Adds(q, t, r)
      BY <2>1, TickAdds, CommandAdds DEF Hosts
    <3>2. InFlight(proc'[q].out[k]) \/ proc'[q].out[k].epoch = q
      BY <2>1, <3>1, HostSends
    <3> QED BY <1>1, <2>1, <3>2
  <2>2. InFlight(event)
    BY <1>1, <2>1, FlightFlows
  <2> QED BY <1>1, <2>2 DEF Witness
<1>2. ASSUME NEW s, Taken(s)', s.epoch = p PROVE TrueView(h, e, s)
  <2>1. ASSUME NEW q \in Procs, Hosts(q), NEW k \in 1 .. Len(proc'[q].out),
               proc'[q].out[k].kind = "result", proc'[q].out[k].snapshot = s
        PROVE  Taken(s) \/ s = NoView
    <3>1. PICK t, r : Adds(q, t, r)
      BY <2>1, TickAdds, CommandAdds DEF Hosts
    <3>2. Taken(s) \/ s = NoView \/ (s = Snapshot(r.e) /\ Snapshot(r.e).epoch = q)
      BY <2>1, <3>1, HostSends
    <3> QED BY <1>2, <2>1, <3>2
  <2>2. NoView.epoch = 0
    BY DEF NoView
  <2>3. Taken(s)
    BY <1>0, <1>2, <2>1, <2>2, TakenFlows
  <2> QED BY <1>2, <2>3 DEF Witness
<1>3. ASSUME client'.view.epoch = p PROVE ViewFits(h, e, client'.view)
  <2>0. client.view \in View /\ client.buffer \in Seq(EventRec)
        /\ (client.view.epoch = p => ViewFits(h, e, client.view))
    BY DEF Typed, Witness
  <2>1. CASE client'.view = client.view
    BY <1>3, <2>0, <2>1
  <2>2. CASE client'.view = NoView
    BY <1>0, <1>3, <2>2 DEF NoView
  <2>3. CASE client'.view = [client.view EXCEPT !.invalidated = TRUE]
    <3>1. client'.view.epoch = client.view.epoch /\ client'.view.seq = client.view.seq
          /\ client'.view.invalidated
      BY <2>0, <2>3 DEF View
    <3> QED BY <1>3, <2>0, <3>1 DEF ViewFits
  <2>4. ASSUME NEW q \in Procs, proc[q].mail # <<>>,
               client'.view = ReduceEvent(client.view, Head(proc[q].mail))
        PROVE  ViewFits(h, e, client'.view)
    <3> DEFINE event == Head(proc[q].mail)
    <3>1. event \in EventRec /\ InFlight(event)
      <4>1. event \in EventRec /\ event = proc[q].mail[1] /\ 1 \in 1 .. Len(proc[q].mail)
        BY <1>0, <2>4, ProcTypes, TailIs
      <4> QED BY <4>1 DEF InFlight
    <3>2. event.epoch = e.epoch => TrueEvent(h, e, event)
      BY <1>0, <3>1 DEF Witness
    <3>3. client'.view = ReduceEvent(client.view, event)
      BY <2>4
    <3> HIDE DEF event
    <3>4. client.view.epoch = e.epoch
      BY <1>0, <1>3, <2>0, <3>1, <3>3, ReduceIs
    <3> HIDE DEF e
    <3> QED BY <1>0, <2>0, <3>1, <3>2, <3>3, <3>4, ReduceFits
  <2>5. ASSUME NEW s \in Snapshots, NEW c \in Callers, InHand(call[c], s),
               client'.view = ApplySnapshotWithEvents(s, client.buffer)
        PROVE  ViewFits(h, e, client'.view)
    <3>1. Taken(s)
      BY <2>5 DEF Taken
    <3>2. s.epoch = e.epoch
      BY <1>0, <1>3, <2>0, <2>5, ReplayedTypes
    <3>3. TrueView(h, e, s)
      BY <1>0, <3>1, <3>2 DEF Witness
    <3>4. ASSUME NEW k \in 1 .. Len(client.buffer), client.buffer[k].epoch = e.epoch
          PROVE  TrueEvent(h, e, client.buffer[k])
      <4>1. client.buffer[k] \in EventRec /\ InFlight(client.buffer[k])
        BY <2>0 DEF InFlight
      <4> QED BY <1>0, <3>4, <4>1 DEF Witness
    <3> HIDE DEF e
    <3> QED BY <1>0, <2>0, <2>5, <3>2, <3>3, <3>4, ReplayedFits
  <2> QED BY <1>0, <2>1, <2>2, <2>3, <2>4, <2>5 DEF ClientGoes
<1>4. (\A event \in EventRec : InFlight(event) /\ event.epoch = p
                                 => TrueEvent(h, proc[p].engine, event))'
  BY <1>1
<1>5. (\A s : Taken(s) /\ s.epoch = p => TrueView(h, proc[p].engine, s))'
  BY <1>2
<1>6. (client.view.epoch = p => ViewFits(h, proc[p].engine, client.view))'
  BY <1>3
<1>7. Recorded(h, proc[p].engine)'
  BY <1>0
<1> QED BY <1>4, <1>5, <1>6, <1>7 DEF Witness


LEMMA EngineHere ==
    ASSUME IInv, Greets, Typed, [Next]_vars, NEW p \in Procs, Hosts(p), NEW h, Witness(h, p)
    PROVE  \E g : Witness(g, p)'
<1> DEFINE e == proc[p].engine
<1>0. e \in Engine /\ e.epoch = p /\ p # 0 /\ Recorded(h, e) /\ TypeInv
  BY ProcTypes, ProcBound DEF IInv, Order, Engines, Procs, Witness
<1>1. PICK t, r : Adds(p, t, r)
  BY TickAdds, CommandAdds DEF Hosts
<1>2. t.e \in Engine /\ r.e \in Engine /\ proc'[p].engine = r.e /\ Emits(e, t) /\ Emits(t.e, r)
  BY <1>1 DEF Adds, Emits
<1>3. PICK m : /\ Recorded(m, t.e) /\ Continues(h, e, m, t.e)
               /\ \A k \in 1 .. Len(t.events) : TrueEvent(m, t.e, t.events[k])
  BY <1>0, <1>2, PastGoesOn
<1>4. PICK g : /\ Recorded(g, r.e) /\ Continues(m, t.e, g, r.e)
               /\ \A k \in 1 .. Len(r.events) : TrueEvent(g, r.e, r.events[k])
  BY <1>2, <1>3, PastGoesOn
<1> DEFINE f == r.e
<1>5. Continues(h, e, g, f)
  <2>1. e.seq \in Nat /\ t.e.seq \in Nat /\ f.seq \in Nat
    BY <1>0, <1>2, EngineNumbers
  <2> QED BY <1>3, <1>4, <2>1 DEF Continues
<1>6. UNCHANGED <<client, call>> /\ proc' = [proc EXCEPT ![p] = proc'[p]]
  BY <1>0, ProcTypes DEF Hosts, HostCommand, HostTick, TypeInv
<1>7. ASSUME NEW q \in Procs, Hosts(q), NEW k \in 1 .. Len(proc'[q].out)
      PROVE  q = p \/ (k \in 1 .. Len(proc[q].out) /\ proc'[q].out[k] = proc[q].out[k])
  BY <1>0, <1>6 DEF TypeInv
<1>8. ASSUME NEW event \in EventRec, InFlight(event)', event.epoch = p PROVE TrueEvent(g, f, event)
  <2>1. CASE InFlight(event)
    BY <1>0, <1>5, <1>8, <2>1 DEF Continues, Witness
  <2>2. ASSUME NEW q \in Procs, Hosts(q), NEW k \in 1 .. Len(proc'[q].out), proc'[q].out[k] = event
        PROVE  TrueEvent(g, f, event)
    <3>1. CASE q # p
      <4>1. InFlight(event)
        BY <1>7, <2>2, <3>1 DEF InFlight
      <4> QED BY <2>1, <4>1
    <3>2. CASE q = p
      <4>1. \/ InFlight(event)
            \/ \E j \in 1 .. Len(t.events) : event = t.events[j]
            \/ \E j \in 1 .. Len(r.events) : event = r.events[j]
        BY <1>1, <2>2, <3>2, HostSends
      <4> QED BY <1>3, <1>4, <2>1, <4>1 DEF Continues
    <3> QED BY <3>1, <3>2
  <2> QED BY <1>8, <2>1, <2>2, FlightFlows
<1>9. ASSUME NEW s, Taken(s)', s.epoch = p PROVE TrueView(g, f, s)
  <2>1. CASE Taken(s)
    BY <1>0, <1>5, <1>9, <2>1 DEF Continues, Witness
  <2>2. ASSUME NEW q \in Procs, Hosts(q), NEW k \in 1 .. Len(proc'[q].out),
               proc'[q].out[k].kind = "result", proc'[q].out[k].snapshot = s
        PROVE  TrueView(g, f, s)
    <3>1. CASE q # p
      <4>1. Taken(s)
        BY <1>7, <2>2, <3>1 DEF Taken
      <4> QED BY <2>1, <4>1
    <3>2. CASE q = p
      <4>1. Taken(s) \/ s = NoView \/ (s = Snapshot(f) /\ f.seq >= 1)
        BY <1>1, <2>2, <3>2, HostSends
      <4>2. NoView.epoch = 0
        BY DEF NoView
      <4> HIDE DEF f
      <4>3. f \in Engine /\ Recorded(g, f)
        BY <1>2, <1>4 DEF f
      <4> QED BY <1>0, <1>9, <2>1, <4>1, <4>2, <4>3, SnapshotIsTrue
    <3> QED BY <3>1, <3>2
  <2>3. NoView.epoch = 0
    BY DEF NoView
  <2> QED BY <1>0, <1>9, <2>1, <2>2, <2>3, TakenFlows
<1>10. ASSUME client'.view.epoch = p PROVE ViewFits(g, f, client'.view)
  <2>1. ViewFits(h, e, client.view) /\ client'.view = client.view
    BY <1>6, <1>10 DEF Witness
  <2>2. e.seq \in Nat /\ f.seq \in Nat /\ e.seq <= f.seq
    BY <1>0, <1>2, <1>5, EngineNumbers DEF Continues
  <2>3. client.view.seq \in 1 .. f.seq
    BY <2>1, <2>2 DEF ViewFits
  <2> QED BY <1>5, <2>1, <2>3 DEF ViewFits, Continues
<1>11. (\A event \in EventRec : InFlight(event) /\ event.epoch = p
                                  => TrueEvent(g, proc[p].engine, event))'
  BY <1>2, <1>8
<1>12. (\A s : Taken(s) /\ s.epoch = p => TrueView(g, proc[p].engine, s))'
  BY <1>2, <1>9
<1>13. (client.view.epoch = p => ViewFits(g, proc[p].engine, client.view))'
  BY <1>2, <1>10
<1>14. Recorded(g, proc[p].engine)'
  BY <1>2, <1>4
<1>15. Witness(g, p)'
  BY <1>11, <1>12, <1>13, <1>14 DEF Witness
<1> QED BY <1>15

LEMMA TruthStays ==
    ASSUME IInv, Greets, Typed, [Next]_vars, NEW p \in Procs, Truth(p)
    PROVE  Truth(p)'
<1>1. CASE Hosts(p)
  <2>1. proc[p].life = "up"
    BY <1>1 DEF Hosts, HostCommand, HostTick
  <2>2. PICK h : Witness(h, p)
    BY <2>1 DEF Truth
  <2>3. \E g : Witness(g, p)'
    BY <1>1, <2>2, EngineHere
  <2> QED BY <2>3 DEF Truth
<1>2. CASE ~ Hosts(p)
  <2> SUFFICES ASSUME proc'[p].life \in {"none", "up"} PROVE \E h : Witness(h, p)'
    BY DEF Truth
  <2>1. proc[p].life \in {"none", "up"} /\ proc'[p].engine = proc[p].engine
    BY <1>2, PipesFlow DEF PipesGo, Hosts
  <2>2. PICK h : Witness(h, p)
    BY <2>1 DEF Truth
  <2>3. Witness(h, p)'
    BY <1>2, <2>1, <2>2, EngineElsewhere
  <2> QED BY <2>3
<1> QED BY <1>1, <1>2

(* Nothing is on its way at first.                                         *)
LEMMA TruthAtFirst ==
    ASSUME Init
    PROVE  Typed /\ Greets /\ \A p \in Procs : Truth(p)
<1>1. /\ Idle.pc = "idle" /\ Idle.op = "none" /\ Idle.req = Hello /\ Idle.snapshot = NoView
      /\ NoView.epoch = 0
  BY DEF Idle, NoView
<1>2. client.view = NoView /\ client.buffer = <<>> /\ client.session = NoSession
  BY DEF Init
<1>3. \A c \in Callers : call[c] = Idle
  BY DEF Init
<1>4. \A p \in Procs : proc[p] = NotStarted(p)
  BY DEF Init
<1>5. Typed
  <2>1. NewDeck \in Deck
    BY DEF NewDeck, Deck, Statuses, Settings
  <2>2. NoView \in View
    BY <2>1 DEF NoView, View, Settings
  <2>3. <<>> \in Seq(EventRec)
    OBVIOUS
  <2> QED BY <1>2, <2>2, <2>3 DEF Typed
<1>6. Greets
  <2>1. CallerTold(Idle)
    BY <1>1, Requested DEF CallerTold, Second
  <2>2. \A p \in Procs : Told(p)
    BY <1>4, NothingYet DEF Told
  <2> QED BY <1>2, <1>3, <2>1, <2>2 DEF Greets, Greeted, Init
<1>7. ASSUME NEW p \in Procs PROVE Truth(p)
  <2> DEFINE e == NewEngine(p)
             first == [decks |-> e.decks, mixer |-> e.mixer, rev |-> 0]
             h == [n \in Nat |-> first]
  <2>0. p # 0
    BY ProcBound DEF Procs
  <2>1. e.seq = 0 /\ e.mixer = 0 /\ e.decks = [d \in Decks |-> NewDeck]
    BY DEF NewEngine
  <2>2. first \in Shown
    <3>1. NewDeck \in Deck
      BY DEF NewDeck, Deck, Statuses, Settings
    <3> QED BY <2>1, <3>1 DEF Shown, Settings
  <2>3. Recorded(h, e)
    <3> HIDE DEF e
    <3>1. first.decks = e.decks /\ first.mixer = e.mixer
      OBVIOUS
    <3> HIDE DEF first
    <3>2. h \in [Nat -> Shown] /\ h[0] = first
      BY <2>2
    <3> QED BY <2>1, <3>1, <3>2 DEF Recorded
  <2>4. \A event : ~ InFlight(event)
    BY <1>2, <1>4, NothingYet DEF InFlight
  <2>5. ASSUME NEW s, Taken(s) PROVE s = NoView
    <3>1. \A q \in Procs : Len(proc[q].out) = 0
      BY <1>4, NothingYet
    <3> QED BY <1>1, <1>3, <2>5, <3>1 DEF Taken, InHand
  <2>6. proc[p].engine = e
    BY <1>4, NothingYet
  <2> HIDE DEF e, h
  <2>7. Witness(h, p)
    BY <1>1, <1>2, <2>0, <2>3, <2>4, <2>5, <2>6 DEF Witness
  <2> QED BY <2>7 DEF Truth
<1> QED BY <1>5, <1>6, <1>7

(* A view that fits and has counted every event shows the engine as it is. *)
LEMMA TruthShows ==
    ASSUME IInv, Typed, NEW p \in Procs, Truth(p), UpToDate(p)
    PROVE  client.view.decks = proc[p].engine.decks /\ client.view.mixer = proc[p].engine.mixer
<1>1. PICK h : Witness(h, p)
  BY DEF Truth, UpToDate
<1> QED BY <1>1 DEF Witness, UpToDate, ViewFits, TrueView, Recorded

(* The webview notices every event it has missed: a view that is of the    *)
(* running engine, is up to its last event and was neither dropped nor     *)
(* invalidated shows the decks and the mixer that the engine has, whatever *)
(* was lost, late or replayed (reduceEngineEvent, fetchSnapshot).          *)
THEOREM GapsAreSeen == Spec => []MissedEventsShow
<1> DEFINE Past == Typed /\ Greets /\ \A p \in Procs : Truth(p)
<1>1. Init => Past
  BY TruthAtFirst
<1>2. IInv /\ IInv' /\ Past /\ [Next]_vars => Past'
  <2> SUFFICES ASSUME IInv, IInv', Typed, Greets, \A p \in Procs : Truth(p), [Next]_vars
               PROVE  Typed' /\ Greets' /\ \A p \in Procs : Truth(p)'
    OBVIOUS
  <2> QED BY ClientTyped, GreetsStays, TruthStays
<1>3. IInv /\ Past => MissedEventsShow
  BY TruthShows DEF MissedEventsShow
<1> HIDE DEF Past
<1> QED BY <1>1, <1>2, <1>3, Invariance, PTL DEF Spec

=============================================================================
