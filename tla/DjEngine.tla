-------------------------------- MODULE DjEngine --------------------------------
(***************************************************************************)
(* The DJ engine as the application runs it: EngineSupervisor of           *)
(* supervisor.rs starts, watches and stops the host process of EngineHost, *)
(* numbers the commands of its callers and hands each its answer; the      *)
(* webview's DjEngineClient (client.ts) keeps the view of EngineView from  *)
(* the events and from snapshots.                                          *)
(*                                                                         *)
(* The callers are threads: `Users` start and stop the engine and send     *)
(* commands, `Webview` is the client's serialized chain of connect() and   *)
(* refreshSnapshot().  The locks are the code's: `lifecycle` is held over  *)
(* a whole start, stop or connect; `state` over each of the steps that     *)
(* look at `running`, and from the liveness check of dispatch() to the     *)
(* insertion of the waiter, which the reader thread does not wait for.     *)
(*                                                                         *)
(* The relay between the reader and the webview is the channel of          *)
(* EventChannel: a queue that keeps its order and may break; of what was   *)
(* on its way when it broke or was closed, any first part still arrives.   *)
(* Pipes and the writer's channel are queues.  Junction is never active    *)
(* (the simulator host answers unknown_op).                                *)
(***************************************************************************)
EXTENDS EngineView, FiniteSets

CONSTANTS
    Users, Webview,     \* the callers
    Nobody,
    Ops,                \* the commands that users send
    MAX_IN_FLIGHT,
    MaxProcs,           \* bound: engines started
    MaxCalls,           \* bound: calls begun
    MaxEvents,          \* bound: events an engine sends
    MaxFaults           \* bound: crashes, hangs, timeouts and broken relays

(* The commands that go to a deck, with a track or without, and the others.*)
Commands ==
    [name : {"load"}, deck : Decks, track : Tracks]
    \cup [name : {"unload", "play", "pause", "mark", "clear", "enable", "seek", "adjust", "sync"},
          deck : Decks]
    \cup [name : {"mixer", "meters", "snapshot", "junction"}]

ASSUME CallerNames == Webview \notin Users /\ Nobody \notin Users \cup {Webview}
ASSUME UserCommands == Ops \subseteq Commands
ASSUME ProcBound == MaxProcs \in Nat

VARIABLES
    running,    \* the process in `state`, 0 for None
    lifecycle,  \* who holds the lifecycle lock
    proc,       \* the processes, with their threads, relay and pending map
    call,       \* the callers
    client,     \* the DjEngineClient
    calls, faults

vars == <<running, lifecycle, proc, call, client, calls, faults>>

Callers == Users \cup {Webview}
Procs == 1 .. MaxProcs

NoSession == [epoch |-> 0, n |-> 0]
Hello == [name |-> "hello"]
GetSnapshot == [name |-> "snapshot"]
Junction == [name |-> "junction"]

Idle == [pc |-> "idle", op |-> "none", req |-> Hello, session |-> NoSession, proc |-> 0,
         id |-> 0, answer |-> [kind |-> "none"], snapshot |-> NoView]

NotStarted(p) ==
    [life |-> "none", alive |-> FALSE, stdin |-> "closed", taken |-> FALSE, inbox |-> <<>>,
     out |-> <<>>, eof |-> FALSE, pending |-> {}, nextId |-> 0, session |-> 0,
     engine |-> NewEngine(p), mail |-> <<>>, broken |-> FALSE]

Init ==
    /\ running = 0 /\ lifecycle = Nobody
    /\ proc = [p \in Procs |-> NotStarted(p)]
    /\ call = [c \in Callers |-> Idle]
    /\ client = [session |-> NoSession, view |-> NoView, buffering |-> FALSE, buffer |-> <<>>]
    /\ calls = 0 /\ faults = 0

-----------------------------------------------------------------------------
(* The state lock, and what a caller does                                  *)

StateFree == \A c \in Callers : call[c].pc # "insert"
At(c, pc, op) == call[c].pc = pc /\ call[c].op = op
GoTo(c, pc) == call' = [call EXCEPT ![c].pc = pc]
Return(c) == call' = [call EXCEPT ![c] = Idle]
Fault == faults < MaxFaults /\ faults' = faults + 1
Answer(kind) == [kind |-> kind]

Call(c, next) ==
    /\ call[c] = Idle
    /\ calls < MaxCalls /\ calls' = calls + 1
    /\ call' = [call EXCEPT ![c] = next]
    /\ UNCHANGED <<running, lifecycle, proc, faults>>

CallStart(c) == Call(c, [Idle EXCEPT !.pc = "lock", !.op = "start"]) /\ UNCHANGED client
CallStop(c) == Call(c, [Idle EXCEPT !.pc = "lock", !.op = "stop"]) /\ UNCHANGED client

(* send() of the client takes the session it knows along.                  *)
CallSend(c, req) ==
    /\ client.session # NoSession
    /\ Call(c, [Idle EXCEPT !.pc = "check", !.op = "send", !.req = req,
                            !.session = client.session])
    /\ UNCHANGED client

Buffering == [client EXCEPT !.buffering = TRUE, !.buffer = <<>>]
NotBuffering == [client EXCEPT !.buffering = FALSE, !.buffer = <<>>]

CallConnect ==
    /\ Call(Webview, [Idle EXCEPT !.pc = "lock", !.op = "connect"])
    /\ client' = Buffering

CallRefresh ==
    /\ client.session # NoSession
    /\ Call(Webview, [Idle EXCEPT !.pc = "check", !.op = "refresh", !.req = GetSnapshot,
                                  !.session = client.session])
    /\ client' = Buffering

-----------------------------------------------------------------------------
(* dispatch(): number the command, remember the waiter, enqueue the line,  *)
(* and wait for the answer without a lock.                                 *)

Answered(c, kind) == call' = [call EXCEPT ![c].pc = "wait", ![c].answer = Answer(kind)]

Dispatch(c) ==
    /\ call[c].pc = "dispatch" /\ StateFree
    /\ IF running = 0 \/ ~proc[running].alive THEN Answered(c, "failed")
       ELSE call' = [call EXCEPT ![c].pc = "insert", ![c].proc = running]
    /\ UNCHANGED <<running, lifecycle, proc, client, calls, faults>>

Command(p, c) ==
    [id |-> proc[p].nextId + 1, op |-> call[c].req, epoch |-> p, session |-> call[c].session.n]

(* The channel of the writer may be full of commands that timed out, and   *)
(* is disconnected when the writer has stopped.                            *)
Insert(c) ==
    /\ call[c].pc = "insert"
    /\ LET p == call[c].proc
           id == proc[p].nextId + 1
           refused == \/ Cardinality(proc[p].pending) >= MAX_IN_FLIGHT
                      \/ Len(proc[p].inbox) >= MAX_IN_FLIGHT
                      \/ proc[p].stdin = "closed"
       IN IF refused
          THEN /\ proc' = [proc EXCEPT ![p].nextId = id]
               /\ Answered(c, "failed")
          ELSE /\ proc' = [proc EXCEPT ![p].nextId = id,
                                       ![p].pending = @ \cup {[id |-> id, caller |-> c]},
                                       ![p].inbox = Append(@, Command(p, c))]
               /\ call' = [call EXCEPT ![c].pc = "wait", ![c].id = id]
    /\ UNCHANGED <<running, lifecycle, client, calls, faults>>

Waiting(c) == call[c].pc = "wait" /\ call[c].answer.kind = "none"
Has(c, kinds) == call[c].pc = "wait" /\ call[c].answer.kind \in kinds

TimeoutLeavesTheWaiter(c) ==
    /\ Waiting(c)
    /\ Fault
    /\ Answered(c, "failed")
    /\ UNCHANGED <<running, lifecycle, proc, client, calls>>

Timeout(c) ==
    /\ Waiting(c)
    /\ Fault
    /\ proc' = [proc EXCEPT ![call[c].proc].pending = {w \in @ : w.id # call[c].id}]
    /\ Answered(c, "failed")
    /\ UNCHANGED <<running, lifecycle, client, calls>>

(* What a waiter gets: hello, result, an error, or no answer at all.       *)
Replies == {"hello", "result", "error", "mismatch", "drained"}

-----------------------------------------------------------------------------
(* stop_internal(): take the process out of `state`, close its relay, drop *)
(* the writer, and wait for its end or force it.                           *)

FirstPart(mail) == {SubSeq(mail, 1, k) : k \in 0 .. Len(mail)}

TakeState(c, op) ==
    /\ StateFree
    /\ running # 0
    /\ running' = 0
    /\ \E mail \in FirstPart(proc[running].mail) :
         proc' = [proc EXCEPT ![running].taken = TRUE, ![running].mail = mail]
    /\ call' = [call EXCEPT ![c] = [Idle EXCEPT !.pc = "reap", !.op = op, !.proc = running]]

Ended(p) == [proc[p] EXCEPT !.life = "exited", !.engine = NewEngine(p)]

Reap(c) ==
    /\ call[c].pc = "reap"
    /\ LET p == call[c].proc
       IN proc' = [proc EXCEPT ![p] = [Ended(p) EXCEPT !.alive = FALSE]]
    /\ \/ call[c].op = "start" /\ GoTo(c, "spawn") /\ UNCHANGED lifecycle
       \/ call[c].op = "abort" /\ Return(c) /\ lifecycle' = Nobody
       \/ call[c].op = "stop" /\ GoTo(c, "stopped") /\ lifecycle' = Nobody
    /\ UNCHANGED <<running, client, calls, faults>>

-----------------------------------------------------------------------------
(* start()                                                                 *)

StartOverADeadOne(c) ==
    /\ At(c, "lock", "start") /\ lifecycle = Nobody /\ StateFree
    /\ IF running # 0 /\ proc[running].alive
       THEN Return(c) /\ UNCHANGED lifecycle
       ELSE GoTo(c, "spawn") /\ lifecycle' = c
    /\ UNCHANGED <<running, proc, client, calls, faults>>

StartLocked(c) ==
    /\ At(c, "lock", "start") /\ lifecycle = Nobody /\ StateFree
    /\ \/ /\ running # 0 /\ proc[running].alive     \* it runs already
          /\ Return(c)
          /\ UNCHANGED <<running, lifecycle, proc>>
       \/ /\ running # 0 /\ ~proc[running].alive
          /\ lifecycle' = c
          /\ TakeState(c, "start")
       \/ /\ running = 0
          /\ lifecycle' = c
          /\ GoTo(c, "spawn")
          /\ UNCHANGED <<running, proc>>
    /\ UNCHANGED <<client, calls, faults>>

Started == {p \in Procs : proc[p].life # "none"}

Spawn(c) ==
    /\ At(c, "spawn", "start") /\ StateFree
    /\ LET p == Cardinality(Started) + 1
       IN /\ p \in Procs
          /\ proc' = [proc EXCEPT ![p] = [NotStarted(p) EXCEPT
                        !.life = "up", !.alive = TRUE, !.stdin = "open"]]
          /\ running' = p
    /\ call' = [call EXCEPT ![c].pc = "dispatch", ![c].req = Hello]
    /\ UNCHANGED <<lifecycle, client, calls, faults>>

SpawnFails(c) ==
    /\ At(c, "spawn", "start")
    /\ Fault
    /\ lifecycle' = Nobody
    /\ Return(c)
    /\ UNCHANGED <<running, proc, client, calls>>

(* handshake(): the session of the answer becomes the supervisor's.        *)
KeepSession(n) ==
    /\ StateFree
    /\ proc' = [proc EXCEPT ![running].session = n]

StartAnswered(c) ==
    /\ Has(c, {"hello"}) /\ call[c].op = "start"
    /\ KeepSession(call[c].answer.session)
    /\ lifecycle' = Nobody
    /\ Return(c)
    /\ UNCHANGED <<running, client, calls, faults>>

(* A failed handshake does not leave the process behind.                   *)
StartFailed(c) ==
    /\ Has(c, {"failed", "drained"}) /\ call[c].op = "start"
    /\ TakeState(c, "abort")
    /\ UNCHANGED <<lifecycle, client, calls, faults>>

-----------------------------------------------------------------------------
(* stop(): refused while Junction is active, and that is asked of the      *)
(* engine first.                                                           *)

StopLocked(c) ==
    /\ At(c, "lock", "stop") /\ lifecycle = Nobody /\ StateFree
    /\ \/ /\ running = 0
          /\ GoTo(c, "stopped")
          /\ UNCHANGED <<running, lifecycle, proc>>
       \/ /\ running # 0 /\ proc[running].session = 0
          /\ lifecycle' = c
          /\ TakeState(c, "stop")
       \/ /\ running # 0 /\ proc[running].session # 0
          /\ lifecycle' = c
          /\ call' = [call EXCEPT ![c].pc = "dispatch", ![c].req = Junction,
                                  ![c].session = [epoch |-> running, n |-> proc[running].session]]
          /\ UNCHANGED <<running, proc>>
    /\ UNCHANGED <<client, calls, faults>>

(* Any answer of the engine but "active" lets stop() go on, ...            *)
StopAllowed(c) ==
    /\ Has(c, Replies) /\ call[c].op = "stop"
    /\ TakeState(c, "stop")
    /\ UNCHANGED <<lifecycle, client, calls, faults>>

(* ... and no answer refuses it.                                           *)
StopRefused(c) ==
    /\ Has(c, {"failed"}) /\ call[c].op = "stop"
    /\ lifecycle' = Nobody
    /\ GoTo(c, "refused")
    /\ UNCHANGED <<running, proc, client, calls, faults>>

(* The webview hears of it: the client forgets session and state.          *)
StopReturns(c) ==
    /\ call[c].pc \in {"stopped", "refused"}
    /\ client' = IF call[c].pc = "refused" THEN client
                 ELSE [client EXCEPT !.session = NoSession, !.view = NoView]
    /\ Return(c)
    /\ UNCHANGED <<running, lifecycle, proc, calls, faults>>

-----------------------------------------------------------------------------
(* connect(): a new session, then a snapshot; the webview then asks for    *)
(* Junction's state before it applies the snapshot.                        *)

ConnectLocked(c) ==
    /\ At(c, "lock", "connect") /\ lifecycle = Nobody /\ StateFree
    /\ IF running = 0 \/ ~proc[running].alive
       THEN Return(c) /\ client' = NotBuffering /\ UNCHANGED lifecycle
       ELSE /\ lifecycle' = c
            /\ call' = [call EXCEPT ![c].pc = "dispatch", ![c].req = Hello]
            /\ UNCHANGED client
    /\ UNCHANGED <<running, proc, calls, faults>>

ConnectHello(c) ==
    /\ Has(c, {"hello"}) /\ At(c, "wait", "connect")
    /\ KeepSession(call[c].answer.session)
    /\ call' = [call EXCEPT ![c] = [Idle EXCEPT
                  !.pc = "dispatch", !.op = "connect", !.req = GetSnapshot,
                  !.session = [epoch |-> running, n |-> call[c].answer.session]]]
    /\ UNCHANGED <<running, lifecycle, client, calls, faults>>

ConnectSnapshot(c) ==
    /\ Has(c, {"result"}) /\ At(c, "wait", "connect")
    /\ lifecycle' = Nobody
    /\ call' = [call EXCEPT ![c] = [Idle EXCEPT
                  !.pc = "connected", !.op = "connect", !.session = call[c].session,
                  !.snapshot = call[c].answer.snapshot]]
    /\ UNCHANGED <<running, proc, client, calls, faults>>

ConnectFails(c) ==
    /\ call[c].op = "connect" /\ lifecycle = c
    /\ \/ Has(c, {"failed", "drained"})
       \/ Has(c, {"mismatch", "error"}) /\ call[c].req = GetSnapshot
    /\ lifecycle' = Nobody
    /\ client' = NotBuffering
    /\ Return(c)
    /\ UNCHANGED <<running, proc, calls, faults>>

(* The webview: sessionId is set at once, the state only at the end.       *)
Connected(c) ==
    /\ At(c, "connected", "connect")
    /\ client' = [client EXCEPT !.session = call[c].session]
    /\ call' = [call EXCEPT ![c].pc = "check", ![c].op = "resolve", ![c].req = Junction]
    /\ UNCHANGED <<running, lifecycle, proc, calls, faults>>

ConnectReturns(c) ==
    /\ call[c].op = "resolve"
    /\ Has(c, Replies \cup {"failed"})
    /\ client' = IF Has(c, {"failed"}) THEN NotBuffering
                 ELSE [NotBuffering EXCEPT
                        !.view = ApplySnapshotWithEvents(call[c].snapshot, client.buffer)]
    /\ Return(c)
    /\ UNCHANGED <<running, lifecycle, proc, calls, faults>>

-----------------------------------------------------------------------------
(* send(): only the session of the last connect gets through.              *)

CheckSession(c) ==
    /\ call[c].pc = "check" /\ StateFree
    /\ IF running = 0 THEN Answered(c, "failed")
       ELSE IF call[c].session # [epoch |-> running, n |-> proc[running].session]
       THEN Answered(c, "mismatch")
       ELSE GoTo(c, "dispatch")
    /\ UNCHANGED <<running, lifecycle, proc, client, calls, faults>>

Invalidated(c) ==
    IF Has(c, {"mismatch"}) /\ call[c].session = client.session
    THEN [client EXCEPT !.view.invalidated = TRUE] ELSE client

SendReturns(c) ==
    /\ Has(c, Replies \cup {"failed"}) /\ call[c].op = "send"
    /\ client' = Invalidated(c)
    /\ Return(c)
    /\ UNCHANGED <<running, lifecycle, proc, calls, faults>>

(* fetchSnapshot(): a snapshot of another session is not applied, and      *)
(* without one the events buffered meanwhile are dropped.                  *)
RefreshReturns(c) ==
    /\ Has(c, Replies \cup {"failed"}) /\ call[c].op = "refresh"
    /\ client' =
         IF Has(c, {"result"}) /\ call[c].session = client.session
         THEN [NotBuffering EXCEPT
                 !.view = ApplySnapshotWithEvents(call[c].answer.snapshot, client.buffer)]
         ELSE [Invalidated(c) EXCEPT !.buffering = FALSE, !.buffer = <<>>]
    /\ Return(c)
    /\ UNCHANGED <<running, lifecycle, proc, calls, faults>>

-----------------------------------------------------------------------------
(* The host process                                                        *)

Reply(e, cmd, r) ==
    [kind |-> IF cmd.op = Hello THEN "hello"
              ELSE IF ~Authorized(e, cmd) THEN "mismatch"
              ELSE IF ~r.ok THEN "error" ELSE "result",
     epoch |-> e.epoch, id |-> cmd.id, session |-> r.e.session,
     snapshot |-> IF cmd.op = GetSnapshot THEN Snapshot(r.e) ELSE NoView]

(* process(): time moves first, but the answer leaves first.               *)
HostCommand(p) ==
    /\ proc[p].life = "up" /\ proc[p].inbox # <<>>
    /\ proc[p].engine.seq < MaxEvents
    /\ LET e == proc[p].engine
           cmd == Head(proc[p].inbox)
       IN \E t \in {Unchanged(e)} \cup Ticks(e) :
            LET r == Process(t.e, cmd)
            IN proc' = [proc EXCEPT ![p].engine = r.e, ![p].inbox = Tail(@),
                                    ![p].out = @ \o <<Reply(t.e, cmd, r)>> \o t.events \o r.events]
    /\ UNCHANGED <<running, lifecycle, call, client, calls, faults>>

HostTick(p) ==
    /\ proc[p].life = "up"
    /\ proc[p].engine.seq < MaxEvents
    /\ \E t \in Ticks(proc[p].engine) :
         proc' = [proc EXCEPT ![p].engine = t.e, ![p].out = @ \o t.events]
    /\ UNCHANGED <<running, lifecycle, call, client, calls, faults>>

(* The end of stdin ends the host.                                         *)
HostExits(p) ==
    /\ proc[p].life = "up" /\ proc[p].stdin = "closed" /\ proc[p].inbox = <<>>
    /\ proc' = [proc EXCEPT ![p] = Ended(p)]
    /\ UNCHANGED <<running, lifecycle, call, client, calls, faults>>

HostCrashes(p) ==
    /\ proc[p].life \in {"up", "hung"}
    /\ Fault
    /\ proc' = [proc EXCEPT ![p] = Ended(p)]
    /\ UNCHANGED <<running, lifecycle, call, client, calls>>

HostHangs(p) ==
    /\ proc[p].life = "up"
    /\ Fault
    /\ proc' = [proc EXCEPT ![p].life = "hung"]
    /\ UNCHANGED <<running, lifecycle, call, client, calls>>

-----------------------------------------------------------------------------
(* The supervisor's threads                                                *)

(* Every waiter gets an error in place of its answer.                      *)
DrainPending(p) ==
    LET waiters == {w.caller : w \in proc[p].pending}
    IN call' = [c \in Callers |-> IF c \in waiters
                                  THEN [call[c] EXCEPT !.answer = Answer("drained")]
                                  ELSE call[c]]

(* The reader: an answer goes to its waiter, all else to the relay.        *)
Reader(p) ==
    /\ proc[p].out # <<>>
    /\ LET line == Head(proc[p].out)
           waiters == {w \in proc[p].pending : w.id = line.id}
           read == [proc[p] EXCEPT !.out = Tail(@)]
       IN IF line.kind \in Replies
          THEN /\ proc' = [proc EXCEPT ![p] = [read EXCEPT !.pending = @ \ waiters]]
               /\ call' = [c \in Callers |->
                             IF \E w \in waiters : w.caller = c
                             THEN [call[c] EXCEPT !.answer = line] ELSE call[c]]
          ELSE /\ proc' = [proc EXCEPT ![p] =
                             IF proc[p].taken \/ proc[p].broken THEN read
                             ELSE [read EXCEPT !.mail = Append(@, line)]]
               /\ UNCHANGED call
    /\ UNCHANGED <<running, lifecycle, client, calls, faults>>

ReaderEnds(p) ==
    /\ proc[p].life = "exited" /\ proc[p].out = <<>> /\ ~proc[p].eof
    /\ proc' = [proc EXCEPT ![p].eof = TRUE, ![p].alive = FALSE, ![p].pending = {}]
    /\ DrainPending(p)
    /\ UNCHANGED <<running, lifecycle, client, calls, faults>>

(* The writer stops, and closes stdin, when the engine is given up or its  *)
(* sender is dropped; lines still in the channel of a given up engine are  *)
(* not written.                                                            *)
WriterStops(p) ==
    /\ proc[p].stdin = "open"
    /\ ~proc[p].alive \/ proc[p].taken
    /\ \E inbox \in IF proc[p].alive THEN {proc[p].inbox} ELSE FirstPart(proc[p].inbox) :
         proc' = [proc EXCEPT ![p].stdin = "closed", ![p].inbox = inbox]
    /\ UNCHANGED <<running, lifecycle, call, client, calls, faults>>

WriteFails(p) ==
    /\ proc[p].stdin = "open" /\ proc[p].alive
    /\ proc[p].life = "exited" /\ proc[p].inbox # <<>>
    /\ proc' = [proc EXCEPT ![p].stdin = "closed", ![p].alive = FALSE, ![p].pending = {},
                            ![p].inbox = <<>>]
    /\ DrainPending(p)
    /\ UNCHANGED <<running, lifecycle, client, calls, faults>>

(* fail_event_delivery(): the relay overflowed or could not deliver; the   *)
(* engine is given up, and a watchdog bounds its shutdown.                 *)
RelayBreaks(p) ==
    /\ proc[p].life \notin {"none"} /\ ~proc[p].taken /\ ~proc[p].broken
    /\ Fault
    /\ \E mail \in FirstPart(proc[p].mail) :
         proc' = [proc EXCEPT ![p].broken = TRUE, ![p].alive = FALSE, ![p].pending = {},
                              ![p].mail = mail]
    /\ DrainPending(p)
    /\ UNCHANGED <<running, lifecycle, client, calls>>

WatchdogKills(p) ==
    /\ proc[p].broken /\ proc[p].life \in {"up", "hung"}
    /\ proc' = [proc EXCEPT ![p] = Ended(p)]
    /\ UNCHANGED <<running, lifecycle, call, client, calls, faults>>

(* The webview's listener: the events of an engine come before those of    *)
(* the next; during a snapshot they are kept for later.                    *)
Receive(p) ==
    /\ proc[p].mail # <<>> /\ \A q \in Procs : q < p => proc[q].mail = <<>>
    /\ LET event == Head(proc[p].mail)
       IN client' = IF client.buffering
                    THEN [client EXCEPT !.buffer = Append(@, event)]
                    ELSE [client EXCEPT !.view = ReduceEvent(@, event)]
    /\ proc' = [proc EXCEPT ![p].mail = Tail(@)]
    /\ UNCHANGED <<running, lifecycle, call, calls, faults>>

-----------------------------------------------------------------------------
CallStep(c) ==
    \/ Dispatch(c) \/ Insert(c) \/ Timeout(c) \/ Reap(c)
    \/ StartLocked(c) \/ Spawn(c) \/ SpawnFails(c) \/ StartAnswered(c) \/ StartFailed(c)
    \/ StopLocked(c) \/ StopAllowed(c) \/ StopRefused(c) \/ StopReturns(c)
    \/ ConnectLocked(c) \/ ConnectHello(c) \/ ConnectSnapshot(c) \/ ConnectFails(c)
    \/ Connected(c) \/ ConnectReturns(c)
    \/ CheckSession(c) \/ SendReturns(c) \/ RefreshReturns(c)

ProcessStep(p) ==
    \/ HostCommand(p) \/ HostTick(p) \/ HostExits(p) \/ HostCrashes(p) \/ HostHangs(p)
    \/ Reader(p) \/ ReaderEnds(p) \/ WriterStops(p) \/ WriteFails(p)
    \/ RelayBreaks(p) \/ WatchdogKills(p) \/ Receive(p)

Next ==
    \/ \E c \in Users : CallStart(c) \/ CallStop(c) \/ \E req \in Ops : CallSend(c, req)
    \/ CallConnect \/ CallRefresh
    \/ \E c \in Callers : CallStep(c)
    \/ \E p \in Procs : ProcessStep(p)

Spec == Init /\ [][Next]_vars

-----------------------------------------------------------------------------
(* A caller that waits for an answer is in the pending map of the process  *)
(* it wrote to, under the number it was given, and nobody else is; an      *)
(* answer is to the caller's own command.  Numbers start again with every  *)
(* process, answers come late, after a timeout or from a process that is   *)
(* being replaced, and four threads fill and empty the map.                *)
AnswersAreOwn ==
    /\ \A c \in Callers :
         Waiting(c) => [id |-> call[c].id, caller |-> c] \in proc[call[c].proc].pending
    /\ \A p \in Procs : \A w \in proc[p].pending :
         Waiting(w.caller) /\ call[w.caller].proc = p /\ call[w.caller].id = w.id
    /\ \A c \in Callers :
         LET answer == call[c].answer
         IN Has(c, {"hello", "result", "error"}) =>
              /\ answer.epoch = call[c].proc /\ answer.id = call[c].id
              /\ answer.kind = "hello" <=> call[c].req = Hello

(* There is one engine: a process that has not ended is the one in         *)
(* `state`, or the holder of the lifecycle lock is ending it.  Two engines *)
(* would play over each other, and one that nobody knows plays on until    *)
(* the application ends (start_serialized, stop_internal).                 *)
Living == {p \in Procs : proc[p].life \in {"up", "hung"}}
OneEngine ==
    \A p \in Living :
        \/ p = running
        \/ lifecycle # Nobody /\ call[lifecycle].pc = "reap" /\ call[lifecycle].proc = p

(* A view that has seen all an engine has sent, and has noticed no gap and *)
(* no loss of its session, shows what the engine's state is: answers       *)
(* overtake events, snapshots overlap them, a failed refresh drops those   *)
(* it had kept, and a relay may break (reduceEngineEvent, fetchSnapshot).  *)
UpToDate(p) ==
    /\ client.view.epoch = p /\ proc[p].life = "up"
    /\ client.view.seq = proc[p].engine.seq
    /\ ~client.view.dropped /\ ~client.view.invalidated
MissedEventsShow ==
    \A p \in Procs :
        UpToDate(p) => /\ client.view.decks = proc[p].engine.decks
                       /\ client.view.mixer = proc[p].engine.mixer

(* Of several loads of a deck the last one wins, whichever is ready first  *)
(* (resolve_pending_loads).                                                *)
Loads(e, d) == {l \in e.loads : l.deck = d}
LastLoadWins ==
    [][\A p \in Procs, d \in Decks :
         LET e == proc[p].engine
         IN proc'[p].engine.decks[d].status = "ready" /\ e.decks[d].status = "loading" =>
              \E l \in Loads(e, d) :
                 /\ proc'[p].engine.decks[d].track = l.track
                 /\ \A m \in Loads(e, d) : m.load <= l.load]_vars

(* What the webview sent before it reconnected loads no deck and changes   *)
(* no mixer once it knows the new session, wherever the command was on its *)
(* way meanwhile (the session checks of send() and authorize()).           *)
OldSessionsStayOut ==
    [][\A p \in Procs :
         LET before == proc[p]
             after == proc'[p]
         IN /\ p = client.session.epoch
            /\ Len(after.inbox) < Len(before.inbox) /\ before.life = "up"
            /\ Head(before.inbox).op # Hello
            /\ Head(before.inbox).session < client.session.n
            => /\ after.engine.nextLoad = before.engine.nextLoad
               /\ after.engine.mixer = before.engine.mixer]_vars

(* stop() ends the engine when Junction is not active: a host that has     *)
(* stopped reading cannot "prevent stop() from killing it"                 *)
(* (start_serialized, on the writer thread).                               *)
StopStops == \A c \in Users : call[c].pc # "refused"

=============================================================================
