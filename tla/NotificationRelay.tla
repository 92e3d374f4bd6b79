---------------------------- MODULE NotificationRelay ----------------------------
(***************************************************************************)
(* NotificationRelay of notification_relay.rs: the bounded mailbox between *)
(* the threads that hear from the DJ engine and the UI thread.             *)
(*                                                                         *)
(* A thread that fills an empty mailbox wakes a worker, the worker         *)
(* schedules one drain on the UI thread, and the drain delivers a batch    *)
(* and wakes the worker again if something is left.  No lock is held while *)
(* a thread wakes, schedules, delivers or reports a failure, so each of    *)
(* these is a step of its own.                                             *)
(*                                                                         *)
(* A notification is its number; Down is the terminal status.  A payload   *)
(* may be of any size, so the byte limit may be what overflows at any      *)
(* time.                                                                   *)
(***************************************************************************)
EXTENDS Integers, Sequences

CONSTANTS
    Producers,          \* the reader, the writer and the caller of start()
    Watchdog,           \* the thread that bounds the shutdown of a broken engine
    MAX_NOTIFICATIONS, DRAIN_BATCH,
    MaxOffers           \* bound: notifications offered in a behaviour

ASSUME RelaySizes ==
    /\ MAX_NOTIFICATIONS \in Nat \ {0}
    /\ DRAIN_BATCH \in Nat \ {0}
    /\ MaxOffers \in Nat
ASSUME NamesDiffer ==
    /\ Watchdog \notin Producers
    /\ (Producers \cup {Watchdog}) \cap {"wake", "task", "ui"} = {}

VARIABLES
    mailbox,    \* the Mailbox: queue, scheduled, closed, failed (error is set)
    wake,       \* a wake-up waits in the worker's channel, of capacity one
    worker,     \* "waiting", "closing" (its schedule() failed) or "gone"
    task,       \* a drain waits on the UI thread
    ui,         \* the UI thread: what is left of its batch and what is in its hand
    thread,     \* what the other threads do: "idle", "fail" or "wake"
    armed,      \* the watchdog is running
    offered,    \* notifications offered so far
    delivered   \* what the webview was handed

vars == <<mailbox, wake, worker, task, ui, thread, armed, offered, delivered>>

Down == 0
Threads == Producers \cup {Watchdog}
UiIdle == [doing |-> "idle", left |-> 0, hand |-> <<>>]

Init ==
    /\ mailbox = [queue |-> <<>>, scheduled |-> FALSE, closed |-> FALSE, failed |-> FALSE]
    /\ wake = FALSE /\ worker = "waiting" /\ task = FALSE
    /\ ui = UiIdle
    /\ thread = [t \in Threads |-> "idle"]
    /\ armed = FALSE
    /\ offered = 0 /\ delivered = <<>>

-----------------------------------------------------------------------------
(* fail(): the queue is given up, the watchdog started, and with `notify`  *)
(* the terminal status takes the queue's place.                            *)
Failing == ~mailbox.closed /\ ~mailbox.failed

FailedButOpen(notify) ==
    IF ~Failing THEN mailbox
    ELSE [mailbox EXCEPT !.queue = IF notify THEN <<Down>> ELSE <<>>, !.scheduled = @ \/ notify]

Failed(notify) ==
    IF ~Failing THEN mailbox
    ELSE [mailbox EXCEPT !.failed = TRUE,
                         !.queue = IF notify THEN <<Down>> ELSE <<>>,
                         !.scheduled = @ \/ notify]

Fail(notify) == mailbox' = Failed(notify) /\ armed' = (armed \/ Failing)

(* wake(): a full channel is woken already; a worker that is gone is a     *)
(* failure nobody can be told of.                                          *)
Wake ==
    IF worker = "gone" THEN Fail(FALSE) /\ UNCHANGED wake
    ELSE wake' = TRUE /\ UNCHANGED <<mailbox, armed>>

-----------------------------------------------------------------------------
(* The threads                                                             *)

(* A full mailbox is told from a failed one under the lock, but the        *)
(* failure is recorded after the lock is let go.                           *)
Overflow == IF Len(mailbox.queue) >= MAX_NOTIFICATIONS THEN {TRUE} ELSE BOOLEAN

EnqueueAndWake(t) ==
    /\ t \in Producers /\ thread[t] = "idle"
    /\ offered < MaxOffers
    /\ ~mailbox.closed /\ ~mailbox.failed
    /\ offered' = offered + 1
    /\ mailbox' = [mailbox EXCEPT !.queue = Append(@, offered'), !.scheduled = TRUE]
    /\ thread' = [thread EXCEPT ![t] = "wake"]
    /\ UNCHANGED <<wake, worker, task, ui, armed, delivered>>

Enqueue(t) ==
    /\ t \in Producers /\ thread[t] = "idle"
    /\ offered < MaxOffers
    /\ ~mailbox.closed /\ ~mailbox.failed
    /\ \E overflow \in Overflow :
         IF overflow
         THEN /\ thread' = [thread EXCEPT ![t] = "fail"]
              /\ UNCHANGED <<mailbox, offered>>
         ELSE /\ offered' = offered + 1
              /\ mailbox' = [mailbox EXCEPT !.queue = Append(@, offered'), !.scheduled = TRUE]
              /\ thread' = [thread EXCEPT ![t] = IF mailbox.scheduled THEN "idle" ELSE "wake"]
    /\ UNCHANGED <<wake, worker, task, ui, armed, delivered>>

FailOverflow(t) ==
    /\ thread[t] = "fail"
    /\ Fail(TRUE)
    /\ thread' = [thread EXCEPT ![t] =
                    IF Failing /\ ~mailbox.scheduled THEN "wake" ELSE "idle"]
    /\ UNCHANGED <<wake, worker, task, ui, offered, delivered>>

WakeWorker(t) ==
    /\ thread[t] = "wake"
    /\ Wake
    /\ thread' = [thread EXCEPT ![t] = "idle"]
    /\ UNCHANGED <<worker, task, ui, offered, delivered>>

(* refresh_failure_status(): the watchdog has killed the engine, and the   *)
(* status is sent once more.                                               *)
RefreshFailureStatus ==
    /\ armed /\ armed' = FALSE
    /\ thread[Watchdog] = "idle"
    /\ IF mailbox.closed \/ ~mailbox.failed THEN UNCHANGED <<mailbox, thread>>
       ELSE /\ mailbox' = [mailbox EXCEPT !.queue = <<Down>>, !.scheduled = TRUE]
            /\ thread' = [thread EXCEPT ![Watchdog] =
                            IF mailbox.scheduled THEN "idle" ELSE "wake"]
    /\ UNCHANGED <<wake, worker, task, ui, offered, delivered>>

(* close(), by stop_internal or by the worker: it also wakes the worker.   *)
Closed == [mailbox EXCEPT !.closed = TRUE, !.queue = <<>>]

Close ==
    /\ ~mailbox.closed
    /\ mailbox' = Closed
    /\ wake' = (worker # "gone")
    /\ UNCHANGED <<worker, task, ui, thread, armed, offered, delivered>>

-----------------------------------------------------------------------------
(* The worker                                                              *)

Schedule ==
    /\ worker = "waiting" /\ wake
    /\ wake' = FALSE
    /\ IF mailbox.closed THEN worker' = "gone" /\ UNCHANGED task
       ELSE task' = TRUE /\ UNCHANGED worker
    /\ UNCHANGED <<mailbox, ui, thread, armed, offered, delivered>>

ScheduleFails ==
    /\ worker = "waiting" /\ wake /\ ~mailbox.closed
    /\ wake' = FALSE
    /\ worker' = "closing"
    /\ Fail(FALSE)
    /\ UNCHANGED <<task, ui, thread, offered, delivered>>

CloseAfterFailure ==
    /\ worker = "closing"
    /\ worker' = "gone"
    /\ mailbox' = Closed
    /\ wake' = FALSE
    /\ UNCHANGED <<task, ui, thread, armed, offered, delivered>>

-----------------------------------------------------------------------------
(* The UI thread: drain()                                                  *)

StartDrain ==
    /\ task /\ ui.doing = "idle"
    /\ task' = FALSE
    /\ ui' = [doing |-> "drain", left |-> DRAIN_BATCH, hand |-> <<>>]
    /\ UNCHANGED <<mailbox, wake, worker, thread, armed, offered, delivered>>

Pop ==
    /\ ui.doing = "drain" /\ ui.hand = <<>> /\ ui.left > 0
    /\ IF mailbox.closed THEN ui' = UiIdle /\ UNCHANGED mailbox
       ELSE IF mailbox.queue = <<>>
       THEN ui' = UiIdle /\ mailbox' = [mailbox EXCEPT !.scheduled = FALSE]
       ELSE /\ ui' = [ui EXCEPT !.left = @ - 1, !.hand = <<Head(mailbox.queue)>>]
            /\ mailbox' = [mailbox EXCEPT !.queue = Tail(@)]
    /\ UNCHANGED <<wake, worker, task, thread, armed, offered, delivered>>

Deliver ==
    /\ ui.hand # <<>>
    /\ delivered' = delivered \o ui.hand
    /\ ui' = [ui EXCEPT !.hand = <<>>]
    /\ UNCHANGED <<mailbox, wake, worker, task, thread, armed, offered>>

(* The drain goes on and delivers the status that replaces the queue; it   *)
(* is `scheduled` itself, so the failure wakes nobody.                     *)
DeliverFails ==
    /\ ui.hand # <<>>
    /\ Fail(TRUE)
    /\ ui' = [ui EXCEPT !.hand = <<>>]
    /\ UNCHANGED <<wake, worker, task, thread, offered, delivered>>

EndBatchAsIfEmpty ==
    /\ ui.doing = "drain" /\ ui.hand = <<>> /\ ui.left = 0
    /\ mailbox' = [mailbox EXCEPT !.scheduled = FALSE]
    /\ ui' = UiIdle
    /\ UNCHANGED <<wake, worker, task, thread, armed, offered, delivered>>

EndBatch ==
    /\ ui.doing = "drain" /\ ui.hand = <<>> /\ ui.left = 0
    /\ LET more == ~mailbox.closed /\ mailbox.queue # <<>>
       IN /\ mailbox' = [mailbox EXCEPT !.scheduled = more]
          /\ ui' = IF more THEN [UiIdle EXCEPT !.doing = "wake"] ELSE UiIdle
    /\ UNCHANGED <<wake, worker, task, thread, armed, offered, delivered>>

WakeForTheRest ==
    /\ ui.doing = "wake"
    /\ Wake
    /\ ui' = UiIdle
    /\ UNCHANGED <<worker, task, thread, offered, delivered>>

-----------------------------------------------------------------------------
ThreadStep(t) == FailOverflow(t) \/ WakeWorker(t)
WorkerStep == Schedule \/ ScheduleFails \/ CloseAfterFailure
UiStep == StartDrain \/ Pop \/ Deliver \/ DeliverFails \/ EndBatch \/ WakeForTheRest

Next ==
    \/ \E t \in Producers : Enqueue(t)
    \/ \E t \in Threads : ThreadStep(t)
    \/ RefreshFailureStatus
    \/ Close
    \/ WorkerStep
    \/ UiStep

Spec == Init /\ [][Next]_vars

(* The threads run: a started call returns, the worker serves its channel, *)
(* and the event loop of the webview runs what is scheduled on it.         *)
FairSpec ==
    /\ Spec
    /\ \A t \in Threads : WF_vars(ThreadStep(t))
    /\ WF_vars(WorkerStep)
    /\ WF_vars(UiStep)

-----------------------------------------------------------------------------
TypeOK ==
    /\ mailbox \in [queue : Seq(0 .. MaxOffers), scheduled : BOOLEAN,
                    closed : BOOLEAN, failed : BOOLEAN]
    /\ wake \in BOOLEAN /\ task \in BOOLEAN /\ armed \in BOOLEAN
    /\ worker \in {"waiting", "closing", "gone"}
    /\ ui \in [doing : {"idle", "drain", "wake"}, left : 0 .. DRAIN_BATCH,
               hand : Seq(0 .. MaxOffers)]
    /\ thread \in [Threads -> {"idle", "fail", "wake"}]
    /\ offered \in 0 .. MaxOffers
    /\ delivered \in Seq(0 .. MaxOffers)

(* While the relay is open, the turn to drain is held exactly when         *)
(* `scheduled` says so, and in one place: by a thread about to wake the    *)
(* worker, in the worker's channel, on the UI thread's queue, or by the    *)
(* drain.  This is the "at most one drain closure is outstanding" of       *)
(* NotificationRelay::new; two of them would interleave two batches, none  *)
(* would strand the queue.                                                 *)
HoldsTurn(x) ==
    CASE x = "wake"   -> wake
      [] x = "task"   -> task
      [] x = "ui"     -> ui.doing # "idle"
      [] OTHER        -> thread[x] = "wake"
Places == {"wake", "task", "ui"} \cup Threads

OneDrain ==
    ~mailbox.closed /\ worker # "closing" =>
        /\ mailbox.scheduled <=> \E x \in Places : HoldsTurn(x)
        /\ \A x, y \in Places : HoldsTurn(x) /\ HoldsTurn(y) => x = y
        /\ mailbox.queue # <<>> => mailbox.scheduled

(* What the webview has been handed is the notifications from the first    *)
(* on, without a gap, a repetition or an exchange, and after them nothing  *)
(* but the announcement that the stream has ended ("an explicit failure,   *)
(* never a silent sequence gap or coalesced event", fail()).               *)
NoSilentGap ==
    \E k \in 0 .. Len(delivered) :
        \A i \in 1 .. Len(delivered) : delivered[i] = IF i <= k THEN i ELSE Down

(* The relay is the bounded channel it stands for, and no notification     *)
(* stays in it for ever.                                                   *)
Channel == INSTANCE EventChannel WITH
    state <- IF mailbox.closed THEN "closed" ELSE IF mailbox.failed THEN "broken" ELSE "open",
    accepted <- offered,
    queue <- ui.hand \o mailbox.queue

ImplementsChannel == Channel!FairSpec

=============================================================================
