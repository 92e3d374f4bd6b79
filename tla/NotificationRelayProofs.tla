------------------------ MODULE NotificationRelayProofs ------------------------
(***************************************************************************)
(* Proofs about NotificationRelay, for any number of producers, any limits *)
(* of the mailbox and of a batch: types, one drain at a time, no silent    *)
(* gap, and the step simulation of EventChannel.                           *)
(***************************************************************************)
EXTENDS NotificationRelay, TLAPS, SequenceTheorems

Notes == 0 .. MaxOffers

-----------------------------------------------------------------------------
(* Sequences                                                               *)

LEMMA SeqFacts ==
  ASSUME NEW S, NEW q \in Seq(S)
  PROVE  /\ q \o <<>> = q
         /\ <<>> \o q = q
         /\ q # <<>> <=> Len(q) > 0
         /\ q # <<>> => /\ Head(q) = q[1] /\ Head(q) \in S
                        /\ Tail(q) \in Seq(S) /\ Len(Tail(q)) = Len(q) - 1
                        /\ \A i \in 1 .. Len(q) - 1 : Tail(q)[i] = q[i + 1]
                        /\ <<Head(q)>> \o Tail(q) = q
<1>1. q \o <<>> = q /\ <<>> \o q = q
  BY ConcatEmptySeq
<1>2. q # <<>> <=> Len(q) > 0
  BY EmptySeq
<1>3. ASSUME q # <<>>
      PROVE  /\ Head(q) = q[1] /\ Head(q) \in S
             /\ Tail(q) \in Seq(S) /\ Len(Tail(q)) = Len(q) - 1
             /\ \A i \in 1 .. Len(q) - 1 : Tail(q)[i] = q[i + 1]
  BY <1>3, HeadTailProperties, ElementOfSeq
<1>4. ASSUME q # <<>> PROVE <<Head(q)>> \o Tail(q) = q
  <2>1. /\ <<Head(q)>> \in Seq(S) /\ Len(<<Head(q)>>) = 1
        /\ <<Head(q)>>[1] = q[1] /\ Tail(q) \in Seq(S) /\ Len(Tail(q)) = Len(q) - 1
    BY <1>3, <1>4
  <2>2. <<Head(q)>> \o Tail(q) \in Seq(S) /\ Len(<<Head(q)>> \o Tail(q)) = Len(q)
    BY <2>1, ConcatProperties, LenProperties
  <2>3. \A i \in 1 .. Len(q) : (<<Head(q)>> \o Tail(q))[i] = q[i]
    BY <2>1, <1>3, <1>4, ConcatProperties, LenProperties
  <2> QED
    BY <2>2, <2>3, SeqEqual
<1> QED
  BY <1>1, <1>2, <1>3, <1>4

LEMMA AppendFacts ==
  ASSUME NEW S, NEW q \in Seq(S), NEW e \in S
  PROVE  /\ Append(q, e) \in Seq(S)
         /\ Len(Append(q, e)) = Len(q) + 1
         /\ \A i \in 1 .. Len(q) : Append(q, e)[i] = q[i]
         /\ Append(q, e)[Len(q) + 1] = e
         /\ Append(q, e) = q \o <<e>>
  BY AppendProperties, AppendIsConcat

LEMMA AppendAfter ==
  ASSUME NEW S, NEW p \in Seq(S), NEW q \in Seq(S), NEW e \in S
  PROVE  p \o Append(q, e) = Append(p \o q, e)
<1>1. <<e>> \in Seq(S) /\ p \o q \in Seq(S)
  BY ConcatProperties
<1>2. (p \o q) \o <<e>> = p \o (q \o <<e>>)
  BY <1>1, ConcatAssociative
<1> QED
  BY <1>1, <1>2, AppendFacts

LEMMA PrefixIsFirst ==
  ASSUME NEW S, NEW p \in Seq(S), NEW q \in Seq(S)
  PROVE  SubSeq(p \o q, 1, Len(p)) = p /\ SubSeq(p \o q, 1, 0) = <<>>
<1>1. Len(p) \in Nat
  BY LenProperties
<1>2. SubSeq(p \o q, 1, 0) = <<>>
  BY SubSeqEmpty
<1>3. CASE Len(p) = 0
  BY <1>2, <1>3, EmptySeq
<1>4. CASE Len(p) > 0
  <2>1. 1 \in 1 .. Len(p) /\ Len(p) \in 1 .. Len(p)
    BY <1>1, <1>4
  <2> QED
    BY <1>2, <2>1, SubSeqOfConcat1, SubSeqFull
<1> QED
  BY <1>1, <1>3, <1>4

-----------------------------------------------------------------------------
(* Types, and what a step of the failure path may do                       *)

Shape ==
  /\ TypeOK
  /\ Len(ui.hand) <= 1
  /\ ui.hand # <<>> => ui.doing = "drain"
  /\ worker = "gone" => mailbox.closed

(* What fail() leaves in the mailbox.                                      *)
LEMMA FailedFacts ==
  ASSUME TypeOK, NEW notify \in BOOLEAN
  PROVE  /\ Failed(notify) \in [queue : Seq(Notes), scheduled : BOOLEAN,
                                closed : BOOLEAN, failed : BOOLEAN]
         /\ Failed(notify).closed = mailbox.closed
         /\ Failing => /\ Failed(notify).failed = TRUE
                       /\ Failed(notify).queue = IF notify THEN <<Down>> ELSE <<>>
                       /\ notify => Failed(notify).scheduled = TRUE
                       /\ ~notify => Failed(notify).scheduled = mailbox.scheduled
         /\ ~Failing => Failed(notify) = mailbox
<1>1. <<Down>> \in Seq(Notes) /\ <<>> \in Seq(Notes)
  BY RelaySizes DEF RelaySizes, Down, Notes
<1>2. mailbox \in [queue : Seq(Notes), scheduled : BOOLEAN,
                   closed : BOOLEAN, failed : BOOLEAN]
  BY DEF TypeOK, Notes
<1>3. CASE notify
  BY <1>1, <1>2, <1>3 DEF Failed
<1>4. CASE ~notify
  BY <1>1, <1>2, <1>4 DEF Failed
<1> QED
  BY <1>3, <1>4

(* The worker is gone only after the relay is closed, so a wake-up that    *)
(* finds nobody changes nothing any more.                                  *)
LEMMA WakeFacts ==
  ASSUME Shape, Wake
  PROVE  /\ mailbox' = mailbox
         /\ armed' = armed
         /\ wake' = TRUE \/ (wake' = wake /\ mailbox.closed)
<1>1. CASE worker = "gone"
  BY <1>1 DEF Shape, Wake, Fail, Failed, Failing, TypeOK
<1>2. CASE worker # "gone"
  BY <1>2 DEF Wake
<1> QED
  BY <1>1, <1>2

(* Every step keeps the types, and the shape of the hand and the worker.   *)
LEMMA ShapeStep ==
  ASSUME Shape, [Next]_vars
  PROVE  Shape'
<1> USE RelaySizes DEF RelaySizes
<1>t. TypeOK
  BY DEF Shape
<1>m. /\ mailbox \in [queue : Seq(Notes), scheduled : BOOLEAN,
                      closed : BOOLEAN, failed : BOOLEAN]
      /\ ui \in [doing : {"idle", "drain", "wake"}, left : 0 .. DRAIN_BATCH,
                 hand : Seq(Notes)]
      /\ thread \in [Threads -> {"idle", "fail", "wake"}]
      /\ offered \in Notes /\ delivered \in Seq(Notes)
      /\ Down \in Notes /\ <<>> \in Seq(Notes) /\ <<Down>> \in Seq(Notes)
  BY <1>t DEF TypeOK, Notes, Down
<1>u. UiIdle \in [doing : {"idle", "drain", "wake"}, left : 0 .. DRAIN_BATCH,
                  hand : Seq(Notes)] /\ UiIdle.hand = <<>>
  BY <1>m DEF UiIdle
<1>1. ASSUME NEW t \in Producers, Enqueue(t) PROVE Shape'
  <2>1. t \in Threads
    BY DEF Threads
  <2>2. CASE UNCHANGED <<mailbox, offered>> /\ thread' = [thread EXCEPT ![t] = "fail"]
    BY <1>1, <2>1, <2>2 DEF Shape, TypeOK, Enqueue
  <2>3. CASE /\ offered' = offered + 1
             /\ mailbox' = [mailbox EXCEPT !.queue = Append(@, offered'), !.scheduled = TRUE]
             /\ thread' = [thread EXCEPT ![t] = IF mailbox.scheduled THEN "idle" ELSE "wake"]
    <3>1. offered' \in Notes
      BY <1>1, <1>m, <2>3 DEF Enqueue, Notes
    <3>2. Append(mailbox.queue, offered') \in Seq(Notes)
      BY <1>m, <3>1, AppendFacts
    <3>3. mailbox' \in [queue : Seq(Notes), scheduled : BOOLEAN,
                        closed : BOOLEAN, failed : BOOLEAN]
          /\ mailbox'.closed = mailbox.closed
      BY <1>m, <2>3, <3>2
    <3> QED
      BY <1>1, <2>1, <2>3, <3>1, <3>3 DEF Shape, TypeOK, Enqueue, Notes
  <2> QED
    BY <1>1, <2>2, <2>3 DEF Enqueue
<1>2. ASSUME NEW t \in Threads, FailOverflow(t) PROVE Shape'
  BY <1>2, <1>t, FailedFacts DEF Shape, TypeOK, FailOverflow, Fail, Notes, Failing
<1>3. ASSUME NEW t \in Threads, WakeWorker(t) PROVE Shape'
  <2>1. /\ mailbox' = mailbox /\ armed' = armed
        /\ wake' = TRUE \/ (wake' = wake /\ mailbox.closed)
    BY <1>3, WakeFacts DEF WakeWorker
  <2> QED
    BY <1>3, <2>1 DEF Shape, TypeOK, WakeWorker
<1>4. ASSUME RefreshFailureStatus PROVE Shape'
  <2>1. Watchdog \in Threads
    BY DEF Threads
  <2>2. /\ mailbox' \in [queue : Seq(Notes), scheduled : BOOLEAN,
                         closed : BOOLEAN, failed : BOOLEAN]
        /\ mailbox'.closed = mailbox.closed
    BY <1>4, <1>m DEF RefreshFailureStatus
  <2>3. thread' \in [Threads -> {"idle", "fail", "wake"}]
    BY <1>4, <2>1, <1>m DEF RefreshFailureStatus
  <2> QED
    BY <1>4, <2>2, <2>3 DEF Shape, TypeOK, RefreshFailureStatus, Notes
<1>5. ASSUME Close PROVE Shape'
  BY <1>5, <1>m DEF Shape, TypeOK, Close, Closed, Notes
<1>6. ASSUME Schedule PROVE Shape'
  BY <1>6 DEF Shape, TypeOK, Schedule
<1>7. ASSUME ScheduleFails PROVE Shape'
  BY <1>7, <1>t, FailedFacts DEF Shape, TypeOK, ScheduleFails, Fail, Notes, Failing
<1>8. ASSUME CloseAfterFailure PROVE Shape'
  BY <1>8, <1>m DEF Shape, TypeOK, CloseAfterFailure, Closed, Notes
<1>9. ASSUME StartDrain PROVE Shape'
  <2>1. /\ ui' \in [doing : {"idle", "drain", "wake"}, left : 0 .. DRAIN_BATCH,
                    hand : Seq(Notes)]
        /\ ui'.hand = <<>> /\ Len(ui'.hand) = 0
    BY <1>9, <1>m DEF StartDrain
  <2> QED
    BY <1>9, <2>1 DEF Shape, TypeOK, StartDrain, Notes
<1>10. ASSUME Pop PROVE Shape'
  <2>1. CASE ui' = UiIdle /\ UNCHANGED mailbox
    BY <1>10, <1>u, <2>1 DEF Shape, TypeOK, Pop, Notes
  <2>2. CASE ui' = UiIdle /\ mailbox' = [mailbox EXCEPT !.scheduled = FALSE]
    BY <1>10, <1>u, <1>m, <2>2 DEF Shape, TypeOK, Pop, Notes
  <2>3. CASE /\ mailbox.queue # <<>>
             /\ ui' = [ui EXCEPT !.left = @ - 1, !.hand = <<Head(mailbox.queue)>>]
             /\ mailbox' = [mailbox EXCEPT !.queue = Tail(@)]
    <3>1. Head(mailbox.queue) \in Notes /\ Tail(mailbox.queue) \in Seq(Notes)
      BY <1>m, <2>3, SeqFacts
    <3>2. <<Head(mailbox.queue)>> \in Seq(Notes) /\ Len(<<Head(mailbox.queue)>>) = 1
      BY <3>1
    <3>3. ui.left - 1 \in 0 .. DRAIN_BATCH
      BY <1>10, <1>m DEF Pop
    <3>4. /\ ui' \in [doing : {"idle", "drain", "wake"}, left : 0 .. DRAIN_BATCH,
                      hand : Seq(Notes)]
          /\ ui'.doing = "drain" /\ Len(ui'.hand) = 1
      BY <1>10, <1>m, <2>3, <3>2, <3>3 DEF Pop
    <3>5. /\ mailbox' \in [queue : Seq(Notes), scheduled : BOOLEAN,
                           closed : BOOLEAN, failed : BOOLEAN]
          /\ mailbox'.closed = mailbox.closed
      BY <1>m, <2>3, <3>1
    <3> QED
      BY <1>10, <3>4, <3>5 DEF Shape, TypeOK, Pop, Notes
  <2> QED
    BY <1>10, <2>1, <2>2, <2>3 DEF Pop
<1>11. ASSUME Deliver PROVE Shape'
  <2>1. delivered' \in Seq(Notes)
    BY <1>11, <1>m, ConcatProperties DEF Deliver
  <2>2. /\ ui' \in [doing : {"idle", "drain", "wake"}, left : 0 .. DRAIN_BATCH,
                    hand : Seq(Notes)]
        /\ ui'.hand = <<>>
    BY <1>11, <1>m DEF Deliver
  <2> QED
    BY <1>11, <1>m, <2>1, <2>2 DEF Shape, TypeOK, Deliver, Notes
<1>12. ASSUME DeliverFails PROVE Shape'
  <2>1. /\ ui' \in [doing : {"idle", "drain", "wake"}, left : 0 .. DRAIN_BATCH,
                    hand : Seq(Notes)]
        /\ ui'.hand = <<>>
    BY <1>12, <1>m DEF DeliverFails
  <2>2. /\ mailbox' \in [queue : Seq(Notes), scheduled : BOOLEAN,
                         closed : BOOLEAN, failed : BOOLEAN]
        /\ mailbox'.closed = mailbox.closed
    BY <1>12, <1>t, FailedFacts DEF DeliverFails, Fail
  <2>3. armed' \in BOOLEAN
    BY <1>12 DEF DeliverFails, Fail
  <2> QED
    BY <1>12, <2>1, <2>2, <2>3 DEF Shape, TypeOK, DeliverFails, Notes
<1>13. ASSUME EndBatch PROVE Shape'
  <2>1. /\ ui' \in [doing : {"idle", "drain", "wake"}, left : 0 .. DRAIN_BATCH,
                    hand : Seq(Notes)]
        /\ ui'.hand = <<>>
    BY <1>13, <1>u DEF EndBatch, UiIdle
  <2>2. /\ mailbox' \in [queue : Seq(Notes), scheduled : BOOLEAN,
                         closed : BOOLEAN, failed : BOOLEAN]
        /\ mailbox'.closed = mailbox.closed
    BY <1>13, <1>m DEF EndBatch
  <2> QED
    BY <1>13, <2>1, <2>2 DEF Shape, TypeOK, EndBatch, Notes
<1>14. ASSUME WakeForTheRest PROVE Shape'
  <2>1. /\ mailbox' = mailbox /\ armed' = armed
        /\ wake' = TRUE \/ (wake' = wake /\ mailbox.closed)
    BY <1>14, WakeFacts DEF WakeForTheRest
  <2> QED
    BY <1>14, <1>u, <2>1 DEF Shape, TypeOK, WakeForTheRest, Notes
<1>15. CASE UNCHANGED vars
  BY <1>15 DEF Shape, TypeOK, vars
<1> QED
  BY <1>1, <1>2, <1>3, <1>4, <1>5, <1>6, <1>7, <1>8, <1>9, <1>10, <1>11, <1>12,
     <1>13, <1>14, <1>15 DEF Next, ThreadStep, WorkerStep, UiStep

LEMMA ShapeInit == Init => Shape
<1> SUFFICES ASSUME Init PROVE Shape
  OBVIOUS
<1>1. <<>> \in Seq(0 .. MaxOffers) /\ Len(<<>>) = 0
  OBVIOUS
<1>2. /\ ui \in [doing : {"idle", "drain", "wake"}, left : 0 .. DRAIN_BATCH,
                  hand : Seq(0 .. MaxOffers)]
      /\ ui.hand = <<>>
  BY RelaySizes, <1>1 DEF RelaySizes, Init, UiIdle
<1>3. /\ mailbox \in [queue : Seq(0 .. MaxOffers), scheduled : BOOLEAN,
                       closed : BOOLEAN, failed : BOOLEAN]
  BY <1>1 DEF Init
<1>4. thread \in [Threads -> {"idle", "fail", "wake"}]
  BY DEF Init
<1>5. 0 \in 0 .. MaxOffers
  BY RelaySizes DEF RelaySizes
<1>6. TypeOK
  BY <1>1, <1>2, <1>3, <1>4, <1>5 DEF Init, TypeOK
<1> QED
  BY <1>1, <1>2, <1>6 DEF Init, Shape

(* The variables of the relay have their types.                            *)
THEOREM TypeCorrect == Spec => []TypeOK
<1>1. Init => Shape
  BY ShapeInit
<1>2. Shape /\ [Next]_vars => Shape'
  BY ShapeStep
<1>3. Shape => TypeOK
  BY DEF Shape
<1> QED
  BY <1>1, <1>2, <1>3, PTL DEF Spec

-----------------------------------------------------------------------------
(* One drain at a time                                                     *)

Working == ~mailbox.closed /\ worker # "closing"
Waking == {t \in Threads : thread[t] = "wake"}

(* OneDrain, place by place: who holds the turn excludes the others.       *)
Turn ==
  Working =>
    /\ mailbox.scheduled <=> (wake \/ task \/ ui.doing # "idle" \/ Waking # {})
    /\ wake => ~task
    /\ wake \/ task => ui.doing = "idle"
    /\ wake \/ task \/ ui.doing # "idle" => Waking = {}
    /\ \A t, u \in Waking : t = u
    /\ mailbox.queue # <<>> => mailbox.scheduled

LEMMA TurnIsOneDrain == Shape => (Turn <=> OneDrain)
<1> SUFFICES ASSUME Shape PROVE Turn <=> OneDrain
  OBVIOUS
<1>1. /\ HoldsTurn("wake") <=> wake
      /\ HoldsTurn("task") <=> task
      /\ HoldsTurn("ui") <=> ui.doing # "idle"
  BY DEF HoldsTurn
<1>2. ASSUME NEW t \in Threads
      PROVE  /\ HoldsTurn(t) <=> t \in Waking
             /\ t # "wake" /\ t # "task" /\ t # "ui"
  <2>1. t # "wake" /\ t # "task" /\ t # "ui"
    BY NamesDiffer DEF NamesDiffer, Threads
  <2> QED
    BY <2>1 DEF HoldsTurn, Waking
<1>3. (\E x \in Places : HoldsTurn(x))
        <=> (wake \/ task \/ ui.doing # "idle" \/ Waking # {})
  BY <1>1, <1>2 DEF Places, Waking
<1>4. ASSUME \A x, y \in Places : HoldsTurn(x) /\ HoldsTurn(y) => x = y
      PROVE  /\ wake => ~task
             /\ wake \/ task => ui.doing = "idle"
             /\ wake \/ task \/ ui.doing # "idle" => Waking = {}
             /\ \A t, u \in Waking : t = u
  <2>1. /\ {"wake", "task", "ui"} \subseteq Places /\ Threads \subseteq Places
        /\ Waking \subseteq Threads
        /\ "wake" # "task" /\ "wake" # "ui" /\ "task" # "ui"
    BY DEF Places, Waking
  <2>2. wake => ~task
    BY <1>1, <1>4, <2>1
  <2>3. wake \/ task => ui.doing = "idle"
    BY <1>1, <1>4, <2>1
  <2>4. wake \/ task \/ ui.doing # "idle" => Waking = {}
    BY <1>1, <1>2, <1>4, <2>1
  <2>5. \A t, u \in Waking : t = u
    BY <1>2, <1>4, <2>1
  <2> QED
    BY <2>2, <2>3, <2>4, <2>5
<1>5. ASSUME /\ wake => ~task
             /\ wake \/ task => ui.doing = "idle"
             /\ wake \/ task \/ ui.doing # "idle" => Waking = {}
             /\ \A t, u \in Waking : t = u,
             NEW x \in Places, NEW y \in Places, HoldsTurn(x), HoldsTurn(y)
      PROVE  x = y
  BY <1>1, <1>2, <1>5 DEF Places
<1> QED
  BY <1>3, <1>4, <1>5 DEF Turn, OneDrain, Working

LEMMA TurnStep ==
  ASSUME Shape, Turn, [Next]_vars
  PROVE  Turn'
<1>t. TypeOK
  BY DEF Shape
<1>m. /\ mailbox \in [queue : Seq(Notes), scheduled : BOOLEAN,
                      closed : BOOLEAN, failed : BOOLEAN]
      /\ ui \in [doing : {"idle", "drain", "wake"}, left : 0 .. DRAIN_BATCH,
                 hand : Seq(Notes)]
      /\ thread \in [Threads -> {"idle", "fail", "wake"}]
      /\ wake \in BOOLEAN /\ task \in BOOLEAN
  BY <1>t DEF TypeOK, Notes
<1>1. ASSUME NEW t \in Producers, Enqueue(t) PROVE Turn'
  <2>1. t \in Threads
    BY DEF Threads
  <2>2. CASE UNCHANGED <<mailbox, offered>> /\ thread' = [thread EXCEPT ![t] = "fail"]
    <3>1. Waking' = Waking
      BY <1>1, <1>m, <2>1, <2>2 DEF Enqueue, Waking
    <3> QED
      BY <1>1, <2>2, <3>1 DEF Turn, Working, Enqueue
  <2>3. CASE /\ mailbox' = [mailbox EXCEPT !.queue = Append(@, offered'), !.scheduled = TRUE]
             /\ thread' = [thread EXCEPT ![t] = IF mailbox.scheduled THEN "idle" ELSE "wake"]
    <3>1. mailbox'.scheduled /\ mailbox'.closed = mailbox.closed
      BY <1>m, <2>3
    <3>2. IF mailbox.scheduled THEN Waking' = Waking ELSE Waking' = Waking \cup {t}
      BY <1>1, <1>m, <2>1, <2>3 DEF Enqueue, Waking
    <3> QED
      BY <1>1, <3>1, <3>2 DEF Turn, Working, Enqueue
  <2> QED
    BY <1>1, <2>2, <2>3 DEF Enqueue
<1>2. ASSUME NEW t \in Threads, FailOverflow(t) PROVE Turn'
  <2>1. mailbox' = Failed(TRUE) /\ mailbox'.closed = mailbox.closed
        /\ UNCHANGED <<wake, worker, task, ui>>
    BY <1>2, <1>t, FailedFacts DEF FailOverflow, Fail
  <2>2. CASE Failing
    <3>1. mailbox'.scheduled
      BY <1>t, <2>1, <2>2, FailedFacts
    <3>2. IF mailbox.scheduled THEN Waking' = Waking ELSE Waking' = Waking \cup {t}
      BY <1>2, <1>m, <2>2 DEF FailOverflow, Waking
    <3> QED
      BY <2>1, <3>1, <3>2 DEF Turn, Working
  <2>3. CASE ~Failing
    <3>1. mailbox' = mailbox
      BY <1>t, <2>1, <2>3, FailedFacts
    <3>2. Waking' = Waking
      BY <1>2, <1>m, <2>3 DEF FailOverflow, Waking
    <3> QED
      BY <2>1, <3>1, <3>2 DEF Turn, Working
  <2> QED
    BY <2>2, <2>3
<1>3. ASSUME NEW t \in Threads, WakeWorker(t) PROVE Turn'
  <2>1. /\ mailbox' = mailbox
        /\ wake' = TRUE \/ (wake' = wake /\ mailbox.closed)
    BY <1>3, WakeFacts DEF WakeWorker
  <2>2. Waking' = Waking \ {t} /\ t \in Waking
    BY <1>3, <1>m DEF WakeWorker, Waking
  <2> QED
    BY <1>3, <2>1, <2>2 DEF Turn, Working, WakeWorker
<1>4. ASSUME RefreshFailureStatus PROVE Turn'
  <2>1. Watchdog \in Threads
    BY DEF Threads
  <2>2. CASE UNCHANGED <<mailbox, thread>>
    <3>1. Waking' = Waking
      BY <2>2 DEF Waking
    <3> QED
      BY <1>4, <2>2, <3>1 DEF Turn, Working, RefreshFailureStatus
  <2>3. CASE /\ mailbox' = [mailbox EXCEPT !.queue = <<Down>>, !.scheduled = TRUE]
             /\ thread' = [thread EXCEPT ![Watchdog] =
                             IF mailbox.scheduled THEN "idle" ELSE "wake"]
    <3>1. mailbox'.scheduled /\ mailbox'.closed = mailbox.closed
      BY <1>m, <2>3
    <3>2. IF mailbox.scheduled THEN Waking' = Waking ELSE Waking' = Waking \cup {Watchdog}
      BY <1>4, <1>m, <2>1, <2>3 DEF RefreshFailureStatus, Waking
    <3> QED
      BY <1>4, <3>1, <3>2 DEF Turn, Working, RefreshFailureStatus
  <2> QED
    BY <1>4, <2>2, <2>3 DEF RefreshFailureStatus
<1>5. ASSUME Close \/ CloseAfterFailure PROVE Turn'
  <2>1. mailbox'.closed
    BY <1>5, <1>m DEF Close, CloseAfterFailure, Closed
  <2> QED
    BY <2>1 DEF Turn, Working
<1>6. ASSUME Schedule PROVE Turn'
  <2>1. Waking' = Waking
    BY <1>6 DEF Schedule, Waking
  <2> QED
    BY <1>6, <1>m, <2>1 DEF Turn, Working, Schedule
<1>7. ASSUME ScheduleFails PROVE Turn'
  BY <1>7 DEF Turn, Working, ScheduleFails
<1>8. ASSUME StartDrain PROVE Turn'
  <2>1. Waking' = Waking
    BY <1>8 DEF StartDrain, Waking
  <2> QED
    BY <1>8, <1>m, <2>1 DEF Turn, Working, StartDrain
<1>9. ASSUME Pop PROVE Turn'
  <2>1. Waking' = Waking
    BY <1>9 DEF Pop, Waking
  <2>2. CASE mailbox.closed
    BY <1>9, <1>m, <2>2 DEF Turn, Working, Pop
  <2>3. CASE ~mailbox.closed /\ mailbox.queue = <<>>
    <3>1. ~mailbox'.scheduled /\ mailbox'.queue = <<>> /\ ui'.doing = "idle"
      BY <1>9, <1>m, <2>3 DEF Pop, UiIdle
    <3> QED
      BY <1>9, <2>1, <2>3, <3>1 DEF Turn, Working, Pop
  <2>4. CASE ~mailbox.closed /\ mailbox.queue # <<>>
    <3>1. /\ mailbox'.scheduled = mailbox.scheduled
          /\ mailbox'.closed = mailbox.closed /\ ui'.doing = ui.doing
      BY <1>9, <1>m, <2>4 DEF Pop
    <3> QED
      BY <1>9, <2>1, <2>4, <3>1 DEF Turn, Working, Pop
  <2> QED
    BY <2>2, <2>3, <2>4
<1>10. ASSUME Deliver PROVE Turn'
  <2>1. Waking' = Waking /\ ui'.doing = ui.doing
    BY <1>10, <1>m DEF Deliver, Waking
  <2> QED
    BY <1>10, <2>1 DEF Turn, Working, Deliver
<1>11. ASSUME DeliverFails PROVE Turn'
  <2>1. Waking' = Waking /\ ui'.doing = ui.doing /\ ui.doing = "drain"
    BY <1>11, <1>m DEF DeliverFails, Waking, Shape
  <2>2. mailbox'.closed = mailbox.closed
    BY <1>11, <1>t, FailedFacts DEF DeliverFails, Fail
  <2>3. Working => mailbox'.scheduled
    BY <1>11, <1>t, <2>1, FailedFacts DEF DeliverFails, Fail, Turn
  <2> QED
    BY <1>11, <2>1, <2>2, <2>3 DEF Turn, Working, DeliverFails
<1>12. ASSUME EndBatch PROVE Turn'
  <2>1. Waking' = Waking
    BY <1>12 DEF EndBatch, Waking
  <2>2. mailbox'.closed = mailbox.closed /\ mailbox'.queue = mailbox.queue
    BY <1>12, <1>m DEF EndBatch
  <2>3. CASE ~mailbox.closed /\ mailbox.queue # <<>>
    <3>1. mailbox'.scheduled /\ ui'.doing = "wake"
      BY <1>12, <1>m, <2>3 DEF EndBatch, UiIdle
    <3> QED
      BY <1>12, <2>1, <2>2, <3>1 DEF Turn, Working, EndBatch
  <2>4. CASE ~(~mailbox.closed /\ mailbox.queue # <<>>)
    <3>1. ~mailbox'.scheduled /\ ui'.doing = "idle"
      BY <1>12, <1>m, <2>4 DEF EndBatch, UiIdle
    <3> QED
      BY <1>12, <2>1, <2>2, <2>4, <3>1 DEF Turn, Working, EndBatch
  <2> QED
    BY <2>3, <2>4
<1>13. ASSUME WakeForTheRest PROVE Turn'
  <2>1. /\ mailbox' = mailbox
        /\ wake' = TRUE \/ (wake' = wake /\ mailbox.closed)
    BY <1>13, WakeFacts DEF WakeForTheRest
  <2>2. Waking' = Waking /\ ui'.doing = "idle"
    BY <1>13 DEF WakeForTheRest, Waking, UiIdle
  <2> QED
    BY <1>13, <2>1, <2>2 DEF Turn, Working, WakeForTheRest
<1>14. CASE UNCHANGED vars
  BY <1>14 DEF Turn, Working, Waking, vars
<1> QED
  BY <1>1, <1>2, <1>3, <1>4, <1>5, <1>6, <1>7, <1>8, <1>9, <1>10, <1>11, <1>12,
     <1>13, <1>14 DEF Next, ThreadStep, WorkerStep, UiStep

(* At most one drain is outstanding, and a mailbox with something in it    *)
(* has one (NotificationRelay::new, enqueue, drain).                       *)
THEOREM DrainsOneAtATime == Spec => []OneDrain
<1>1. Init => Shape
  BY ShapeInit
<1>2. Init => Turn
  BY DEF Init, Turn, Working, Waking, UiIdle
<1>3. Shape /\ Turn /\ [Next]_vars => Shape' /\ Turn'
  BY ShapeStep, TurnStep
<1>4. Shape /\ Turn => OneDrain
  BY TurnIsOneDrain
<1> QED
  BY <1>1, <1>2, <1>3, <1>4, PTL DEF Spec

-----------------------------------------------------------------------------
(* No silent gap                                                           *)

Open == ~mailbox.closed /\ ~mailbox.failed

(* While the relay is open, what is delivered, in the hand and queued is   *)
(* one unbroken count; afterwards the queue announces the end, and the     *)
(* hand holds that or the next number.                                     *)
Plain == \A i \in 1 .. Len(delivered) : delivered[i] = i
HandIsNext == ui.hand # <<>> => Plain /\ ui.hand[1] = Len(delivered) + 1
HandIsDown == ui.hand # <<>> => ui.hand[1] = Down

Stream ==
  /\ Open =>
       /\ Plain
       /\ HandIsNext
       /\ \A i \in 1 .. Len(mailbox.queue) :
            mailbox.queue[i] = Len(delivered) + Len(ui.hand) + i
       /\ offered = Len(delivered) + Len(ui.hand) + Len(mailbox.queue)
  /\ ~Open =>
       /\ NoSilentGap
       /\ HandIsNext \/ HandIsDown
       /\ \A i \in 1 .. Len(mailbox.queue) : mailbox.queue[i] = Down

LEMMA StreamHasNoGap ==
  ASSUME Shape, Stream
  PROVE  /\ NoSilentGap
         /\ HandIsNext \/ HandIsDown
<1>1. Len(delivered) \in Nat
  BY LenProperties DEF Shape, TypeOK
<1>2. ASSUME Plain PROVE NoSilentGap
  <2>1. Len(delivered) \in 0 .. Len(delivered)
    BY <1>1
  <2>2. \A i \in 1 .. Len(delivered) :
          delivered[i] = IF i <= Len(delivered) THEN i ELSE Down
    BY <1>1, <1>2 DEF Plain
  <2> QED
    BY <2>1, <2>2 DEF NoSilentGap
<1> QED
  BY <1>2 DEF Stream

(* Once the relay is no longer open, a mailbox emptied or filled with the  *)
(* announcement keeps the invariant, with the hand as it was or empty.     *)
LEMMA EndedStream ==
  ASSUME Shape, Stream, Open' = FALSE, delivered' = delivered,
         mailbox'.queue = <<>> \/ mailbox'.queue = <<Down>>
           \/ (~Open /\ mailbox'.queue = mailbox.queue),
         ui'.hand = ui.hand \/ ui'.hand = <<>>
  PROVE  Stream'
<1>1. NoSilentGap' /\ (Plain' <=> Plain)
  BY StreamHasNoGap DEF NoSilentGap, Plain
<1>2. HandIsNext' \/ HandIsDown'
  BY StreamHasNoGap, <1>1 DEF HandIsNext, HandIsDown
<1>3. \A i \in 1 .. Len(mailbox'.queue) : mailbox'.queue[i] = Down
  BY DEF Stream
<1> QED
  BY <1>1, <1>2, <1>3 DEF Stream

LEMMA StreamStep ==
  ASSUME Shape, Stream, [Next]_vars
  PROVE  Stream'
<1>t. TypeOK
  BY DEF Shape
<1>m. /\ mailbox \in [queue : Seq(Notes), scheduled : BOOLEAN,
                      closed : BOOLEAN, failed : BOOLEAN]
      /\ ui \in [doing : {"idle", "drain", "wake"}, left : 0 .. DRAIN_BATCH,
                 hand : Seq(Notes)]
      /\ offered \in Nat /\ delivered \in Seq(Notes)
      /\ Len(delivered) \in Nat /\ Len(ui.hand) \in Nat /\ Len(mailbox.queue) \in Nat
  BY <1>t, LenProperties DEF TypeOK, Notes
<1>s. ASSUME UNCHANGED <<offered, delivered>>, ui'.hand = ui.hand,
             mailbox'.queue = mailbox.queue, mailbox'.closed = mailbox.closed,
             mailbox'.failed = mailbox.failed
      PROVE  Stream'
  <2>1. (Open' <=> Open) /\ (Plain' <=> Plain) /\ (NoSilentGap' <=> NoSilentGap)
    BY <1>s DEF Open, Plain, NoSilentGap
  <2>2. (HandIsNext' <=> HandIsNext) /\ (HandIsDown' <=> HandIsDown)
    BY <1>s, <2>1 DEF HandIsNext, HandIsDown
  <2> QED
    BY <1>s, <2>1, <2>2 DEF Stream
<1>1. ASSUME NEW t \in Producers, Enqueue(t) PROVE Stream'
  <2>1. CASE UNCHANGED <<mailbox, offered>>
    BY <1>1, <2>1, <1>s DEF Enqueue
  <2>2. CASE /\ offered' = offered + 1
             /\ mailbox' = [mailbox EXCEPT !.queue = Append(@, offered'), !.scheduled = TRUE]
    <3>1. Open /\ Open' /\ offered' \in Notes /\ UNCHANGED <<ui, delivered>>
      <4>1. Open /\ offered < MaxOffers /\ UNCHANGED <<ui, delivered>>
        BY <1>1 DEF Enqueue, Open
      <4>2. Open'
        BY <1>m, <2>2, <4>1 DEF Open
      <4>3. offered' \in Notes
        BY <1>m, <2>2, <4>1, RelaySizes DEF Notes, RelaySizes
      <4> QED
        BY <4>1, <4>2, <4>3
    <3>2. mailbox'.queue = Append(mailbox.queue, offered')
      BY <1>m, <2>2
    <3>3. /\ Len(mailbox'.queue) = Len(mailbox.queue) + 1
          /\ \A i \in 1 .. Len(mailbox.queue) : mailbox'.queue[i] = mailbox.queue[i]
          /\ mailbox'.queue[Len(mailbox.queue) + 1] = offered'
      BY <1>m, <3>1, <3>2, AppendFacts
    <3>4. (Plain' <=> Plain) /\ ui'.hand = ui.hand /\ (HandIsNext' <=> HandIsNext)
      BY <3>1 DEF Plain, HandIsNext
    <3>5. offered' = Len(delivered) + Len(ui.hand) + Len(mailbox'.queue)
      BY <1>m, <2>2, <3>1, <3>3 DEF Stream
    <3>6. ASSUME NEW i \in 1 .. Len(mailbox'.queue)
          PROVE  mailbox'.queue[i] = Len(delivered) + Len(ui.hand) + i
      <4>1. CASE i \in 1 .. Len(mailbox.queue)
        BY <3>1, <3>3, <4>1 DEF Stream
      <4>2. CASE i = Len(mailbox.queue) + 1
        BY <1>m, <3>3, <3>5, <4>2
      <4> QED
        BY <1>m, <3>3, <4>1, <4>2
    <3> QED
      BY <3>1, <3>4, <3>5, <3>6 DEF Stream
  <2> QED
    BY <1>1, <2>1, <2>2 DEF Enqueue
<1>2. ASSUME NEW notify \in BOOLEAN, Fail(notify), delivered' = delivered,
             offered' = offered, ui'.hand = ui.hand \/ (notify /\ ui'.hand = <<>>)
      PROVE  Stream'
  <2>1. CASE Failing
    <3>1. Open' = FALSE /\ (mailbox'.queue = <<>> \/ mailbox'.queue = <<Down>>)
      BY <1>2, <1>t, <2>1, FailedFacts DEF Fail, Open
    <3> QED
      BY <1>2, <3>1, EndedStream
  <2>2. CASE ~Failing
    <3>1. mailbox' = mailbox /\ ~Open /\ Open' = FALSE
      BY <1>2, <1>t, <2>2, FailedFacts DEF Fail, Failing, Open
    <3> QED
      BY <1>2, <3>1, EndedStream
  <2> QED
    BY <2>1, <2>2
<1>3. ASSUME NEW t \in Threads, FailOverflow(t) PROVE Stream'
  BY <1>2, <1>3 DEF FailOverflow
<1>4. ASSUME ScheduleFails \/ DeliverFails PROVE Stream'
  <2>1. CASE ScheduleFails
    BY <1>2, <2>1 DEF ScheduleFails
  <2>2. CASE DeliverFails
    <3>1. ui'.hand = <<>>
      BY <1>m, <2>2 DEF DeliverFails
    <3> QED
      BY <1>2, <2>2, <3>1 DEF DeliverFails
  <2> QED
    BY <1>4, <2>1, <2>2
<1>5. ASSUME NEW t \in Threads, WakeWorker(t) \/ WakeForTheRest PROVE Stream'
  <2>1. mailbox' = mailbox
    BY <1>5, WakeFacts DEF WakeWorker, WakeForTheRest
  <2>2. ui'.hand = ui.hand \/ (ui.doing = "wake" /\ ui'.hand = <<>>)
    BY <1>5 DEF WakeWorker, WakeForTheRest, UiIdle
  <2>3. ui.doing = "wake" => ui.hand = <<>>
    BY DEF Shape
  <2> QED
    BY <1>5, <1>s, <2>1, <2>2, <2>3 DEF WakeWorker, WakeForTheRest
<1>6. ASSUME RefreshFailureStatus PROVE Stream'
  <2>1. CASE mailbox.closed \/ ~mailbox.failed
    BY <1>6, <1>s, <2>1 DEF RefreshFailureStatus
  <2>2. CASE ~(mailbox.closed \/ ~mailbox.failed)
    <3>1. mailbox'.queue = <<Down>> /\ Open' = FALSE
      BY <1>6, <1>m, <2>2 DEF RefreshFailureStatus, Open
    <3> QED
      BY <1>6, <3>1, EndedStream DEF RefreshFailureStatus
  <2> QED
    BY <2>1, <2>2
<1>7. ASSUME Close \/ CloseAfterFailure PROVE Stream'
  <2>1. mailbox'.queue = <<>> /\ Open' = FALSE
    BY <1>7, <1>m DEF Close, CloseAfterFailure, Closed, Open
  <2> QED
    BY <1>7, <2>1, EndedStream DEF Close, CloseAfterFailure
<1>8. ASSUME Schedule PROVE Stream'
  BY <1>8, <1>s DEF Schedule
<1>9. ASSUME StartDrain PROVE Stream'
  <2>1. ui.hand = <<>> /\ ui'.hand = <<>>
    BY <1>9 DEF Shape, StartDrain
  <2> QED
    BY <1>9, <1>s, <2>1 DEF StartDrain
<1>10. ASSUME Pop PROVE Stream'
  <2>1. CASE UNCHANGED mailbox /\ ui' = UiIdle
    BY <1>10, <1>s, <2>1 DEF Pop, UiIdle
  <2>2. CASE ui' = UiIdle /\ mailbox' = [mailbox EXCEPT !.scheduled = FALSE]
    <3>1. mailbox'.queue = mailbox.queue /\ mailbox'.closed = mailbox.closed
          /\ mailbox'.failed = mailbox.failed /\ ui'.hand = ui.hand
      BY <1>10, <1>m, <2>2 DEF Pop, UiIdle
    <3> QED
      BY <1>10, <1>s, <3>1 DEF Pop
  <2>3. CASE /\ mailbox.queue # <<>>
             /\ ui' = [ui EXCEPT !.left = @ - 1, !.hand = <<Head(mailbox.queue)>>]
             /\ mailbox' = [mailbox EXCEPT !.queue = Tail(@)]
    <3>1. /\ ui.hand = <<>> /\ Len(ui.hand) = 0 /\ Len(mailbox.queue) > 0
          /\ UNCHANGED <<offered, delivered>>
      BY <1>10, <1>m, <2>3, SeqFacts DEF Pop
    <3>2. ui'.hand = <<mailbox.queue[1]>> /\ ui'.hand[1] = mailbox.queue[1]
          /\ Len(ui'.hand) = 1
      BY <1>m, <2>3, SeqFacts
    <3>3. /\ Len(mailbox'.queue) = Len(mailbox.queue) - 1
          /\ \A i \in 1 .. Len(mailbox.queue) - 1 : mailbox'.queue[i] = mailbox.queue[i + 1]
          /\ (Open' <=> Open)
      BY <1>m, <2>3, SeqFacts DEF Open
    <3>4. (Plain' <=> Plain) /\ (NoSilentGap' <=> NoSilentGap)
      BY <3>1 DEF Plain, NoSilentGap
    <3>5. CASE Open
      <4>1. HandIsNext'
        BY <1>m, <3>1, <3>2, <3>4, <3>5 DEF Stream, HandIsNext
      <4>2. offered' = Len(delivered') + Len(ui'.hand) + Len(mailbox'.queue)
        BY <1>m, <3>1, <3>2, <3>3, <3>5 DEF Stream
      <4>3. ASSUME NEW i \in 1 .. Len(mailbox'.queue)
            PROVE  mailbox'.queue[i] = Len(delivered') + Len(ui'.hand) + i
        BY <1>m, <3>1, <3>2, <3>3, <3>5 DEF Stream
      <4> QED
        BY <3>3, <3>4, <3>5, <4>1, <4>2, <4>3 DEF Stream
    <3>6. CASE ~Open
      <4>1. mailbox.queue[1] = Down
        BY <1>m, <3>1, <3>6 DEF Stream
      <4>2. ASSUME NEW i \in 1 .. Len(mailbox'.queue) PROVE mailbox'.queue[i] = Down
        <5>1. i \in 1 .. Len(mailbox.queue) - 1 /\ i + 1 \in 1 .. Len(mailbox.queue)
          BY <1>m, <3>1, <3>3
        <5> QED
          BY <3>3, <3>6, <5>1 DEF Stream
      <4>3. HandIsDown'
        BY <3>2, <4>1 DEF HandIsDown
      <4> QED
        BY <3>3, <3>4, <3>6, <4>2, <4>3 DEF Stream
    <3> QED
      BY <3>5, <3>6
  <2> QED
    BY <1>10, <2>1, <2>2, <2>3 DEF Pop
<1>11. ASSUME Deliver PROVE Stream'
  <2>1. /\ ui.hand # <<>> /\ Len(ui.hand) = 1
        /\ UNCHANGED <<offered, mailbox>> /\ delivered' = delivered \o ui.hand
    <3>1. ui.hand # <<>> /\ Len(ui.hand) <= 1
      BY <1>11 DEF Deliver, Shape
    <3>2. Len(ui.hand) > 0
      BY <1>m, <3>1, SeqFacts
    <3>3. Len(ui.hand) \in Nat
      BY <1>m
    <3>4. Len(ui.hand) = 1
      <4> HIDE DEF Shape
      <4>1. \A n \in Nat : n <= 1 /\ n > 0 => n = 1
        OBVIOUS
      <4> QED
        BY <3>1, <3>2, <3>3, <4>1
    <3> QED
      BY <1>11, <3>1, <3>4 DEF Deliver
  <2>2. /\ Len(delivered') = Len(delivered) + 1
        /\ \A i \in 1 .. Len(delivered) : delivered'[i] = delivered[i]
        /\ delivered'[Len(delivered) + 1] = ui.hand[1]
    BY <1>m, <2>1, ConcatProperties
  <2>3. ui'.hand = <<>> /\ Len(ui'.hand) = 0
    BY <1>11, <1>m DEF Deliver
  <2>4. HandIsNext => Plain'
    BY <1>m, <2>1, <2>2 DEF HandIsNext, Plain
  <2>5. NoSilentGap'
    <3>1. CASE HandIsNext
      <4>1. Len(delivered') \in 0 .. Len(delivered')
        BY <1>m, <2>2
      <4>2. \A i \in 1 .. Len(delivered') :
              delivered'[i] = IF i <= Len(delivered') THEN i ELSE Down
        BY <1>m, <2>2, <2>4, <3>1 DEF Plain
      <4> QED
        BY <4>1, <4>2 DEF NoSilentGap
    <3>2. CASE HandIsDown
      <4>1. PICK k \in 0 .. Len(delivered) :
              \A i \in 1 .. Len(delivered) : delivered[i] = IF i <= k THEN i ELSE Down
        BY StreamHasNoGap DEF NoSilentGap
      <4>2. /\ k \in 0 .. Len(delivered')
            /\ \A i \in 1 .. Len(delivered') : delivered'[i] = IF i <= k THEN i ELSE Down
        BY <1>m, <2>1, <2>2, <3>2, <4>1 DEF HandIsDown
      <4> QED
        BY <4>2 DEF NoSilentGap
    <3> QED
      BY <3>1, <3>2, StreamHasNoGap
  <2>6. Open' <=> Open
    BY <2>1 DEF Open
  <2>n. HandIsNext' /\ HandIsDown'
    BY <2>3 DEF HandIsNext, HandIsDown
  <2>7. CASE Open
    BY <1>m, <2>1, <2>2, <2>3, <2>4, <2>6, <2>7, <2>n DEF Stream
  <2>8. CASE ~Open
    BY <2>1, <2>5, <2>6, <2>8, <2>n DEF Stream
  <2> QED
    BY <2>7, <2>8
<1>12. ASSUME EndBatch PROVE Stream'
  <2>1. /\ ui.hand = <<>> /\ ui'.hand = <<>> /\ mailbox'.queue = mailbox.queue
        /\ mailbox'.closed = mailbox.closed /\ mailbox'.failed = mailbox.failed
    BY <1>12, <1>m DEF EndBatch, UiIdle
  <2> QED
    BY <1>12, <1>s, <2>1 DEF EndBatch
<1>13. CASE UNCHANGED vars
  BY <1>13, <1>s DEF vars
<1>14. Watchdog \in Threads
  BY DEF Threads
<1> QED
  BY <1>1, <1>3, <1>4, <1>5, <1>6, <1>7, <1>8, <1>9, <1>10, <1>11, <1>12,
     <1>13, <1>14 DEF Next, ThreadStep, WorkerStep, UiStep

LEMMA StreamInit == Init => Stream
  BY DEF Init, UiIdle, Stream, Open, Plain, HandIsNext

(* The webview is handed the notifications in order and without a gap, and *)
(* then nothing but the announcement of the end (fail(), drain()).         *)
THEOREM NothingIsSkipped == Spec => []NoSilentGap
<1>1. Init => Shape /\ Stream
  BY ShapeInit, StreamInit
<1>2. Shape /\ Stream /\ [Next]_vars => Shape' /\ Stream'
  BY ShapeStep, StreamStep
<1>3. Shape /\ Stream => NoSilentGap
  BY StreamHasNoGap
<1> QED
  BY <1>1, <1>2, <1>3, PTL DEF Spec

-----------------------------------------------------------------------------
(* The relay implements the channel                                        *)

(* What the channel's operations ask for, told of the relay's variables.   *)
LEMMA Cuts ==
  ASSUME Shape, NEW after \in {<<>>, <<Down>>},
         \/ ui'.hand = ui.hand
         \/ ui'.hand = <<>>,
         mailbox'.queue = after
  PROVE  Channel!Cut(after)
<1>m. /\ ui.hand \in Seq(Notes) /\ mailbox.queue \in Seq(Notes)
      /\ <<>> \in Seq(Notes) /\ <<Down>> \in Seq(Notes)
  BY RelaySizes DEF Shape, TypeOK, Notes, Down, RelaySizes
<1>l. /\ Len(ui.hand) \in Nat /\ Len(mailbox.queue) \in Nat
      /\ Len(ui.hand \o mailbox.queue) = Len(ui.hand) + Len(mailbox.queue)
  BY <1>m, LenProperties, ConcatProperties
<1>n. \A a, b \in Nat : \A c : c = a + b =>
        /\ a <= 1 => a \in 0 .. 1
        /\ a <= c /\ 0 \in 0 .. 1 /\ 0 <= c
  OBVIOUS
<1>1. SUFFICES \E k \in 0 .. 1 :
        /\ k <= Len(ui.hand \o mailbox.queue)
        /\ ui'.hand \o after = SubSeq(ui.hand \o mailbox.queue, 1, k) \o after
  BY DEF Channel!Cut
<1>2. CASE ui'.hand = ui.hand
  <2>1. Len(ui.hand) <= 1
    BY DEF Shape
  <2>2. Len(ui.hand) \in 0 .. 1 /\ Len(ui.hand) <= Len(ui.hand \o mailbox.queue)
    BY <1>l, <1>n, <2>1, Zenon
  <2>3. SubSeq(ui.hand \o mailbox.queue, 1, Len(ui.hand)) = ui.hand
    BY <1>m, PrefixIsFirst
  <2> QED
    BY <1>2, <2>2, <2>3
<1>3. CASE ui'.hand = <<>>
  <2>1. SubSeq(ui.hand \o mailbox.queue, 1, 0) = <<>>
    BY <1>m, PrefixIsFirst
  <2>2. 0 \in 0 .. 1 /\ 0 <= Len(ui.hand \o mailbox.queue)
    BY <1>l, <1>n, Zenon
  <2> QED
    BY <1>3, <2>1, <2>2
<1> QED
  BY <1>2, <1>3

(* What is in the hand comes before what is queued.                        *)
LEMMA OnTop ==
  ASSUME NEW S, NEW e \in S, NEW q \in Seq(S)
  PROVE  <<e>> \o q # <<>> /\ Head(<<e>> \o q) = e /\ Tail(<<e>> \o q) = q
<1> DEFINE both == <<e>> \o q
<1>1. <<e>> \in Seq(S) /\ Len(<<e>>) = 1 /\ <<e>>[1] = e
  OBVIOUS
<1>2. Len(q) \in Nat
  BY LenProperties
<1>3. both \in Seq(S) /\ Len(both) = 1 + Len(q)
  BY <1>1, ConcatProperties
<1>4. both[1] = e
  BY <1>1, <1>2, ConcatProperties
<1>5. \A i \in 1 .. Len(q) : both[i + 1] = q[i]
  BY <1>1, <1>2, ConcatProperties
<1> HIDE DEF both
<1>6. both # <<>>
  BY <1>2, <1>3, SeqFacts
<1>7. Tail(both) = q
  <2>1. /\ Tail(both) \in Seq(S) /\ Len(Tail(both)) = Len(q)
        /\ \A i \in 1 .. Len(q) : Tail(both)[i] = both[i + 1]
    BY <1>2, <1>3, <1>6, SeqFacts
  <2> QED
    BY <1>5, <2>1, SeqEqual
<1>8. Head(both) = e
  BY <1>3, <1>4, <1>6, SeqFacts
<1> QED
  BY <1>6, <1>7, <1>8 DEF both

LEMMA HandOnTop ==
  ASSUME Shape, ui.hand # <<>>
  PROVE  /\ ui.hand \o mailbox.queue # <<>>
         /\ Tail(ui.hand \o mailbox.queue) = mailbox.queue
         /\ Append(delivered, Head(ui.hand \o mailbox.queue)) = delivered \o ui.hand
<1>m. /\ ui.hand \in Seq(Notes) /\ mailbox.queue \in Seq(Notes)
      /\ delivered \in Seq(Notes)
  BY DEF Shape, TypeOK, Notes
<1> DEFINE x == ui.hand[1]
<1>1. Len(ui.hand) = 1
  <2>1. Len(ui.hand) \in Nat /\ Len(ui.hand) > 0 /\ Len(ui.hand) <= 1
    BY <1>m, SeqFacts, LenProperties DEF Shape
  <2> HIDE DEF Shape
  <2>2. \A n \in Nat : n > 0 /\ n <= 1 => n = 1
    OBVIOUS
  <2> QED
    BY <2>1, <2>2
<1>2. x \in Notes
  BY <1>m, <1>1, ElementOfSeq
<1>3. ui.hand = <<x>>
  <2>1. <<x>> \in Seq(Notes) /\ Len(<<x>>) = 1 /\ <<x>>[1] = x
    BY <1>2
  <2> QED
    BY <1>m, <1>1, <2>1, SeqEqual
<1>4. Append(delivered, x) = delivered \o <<x>>
  BY <1>m, <1>2, AppendFacts
<1> HIDE DEF x
<1> QED
  BY <1>m, <1>2, <1>3, <1>4, OnTop

(* A step of the relay is a step of the channel, or changes nothing there. *)
LEMMA ChannelStep ==
  ASSUME Shape, [Next]_vars
  PROVE  [Channel!Next]_(Channel!vars)
<1> USE DEF Channel!vars
<1>t. TypeOK
  BY DEF Shape
<1>m. /\ mailbox \in [queue : Seq(Notes), scheduled : BOOLEAN,
                      closed : BOOLEAN, failed : BOOLEAN]
      /\ ui \in [doing : {"idle", "drain", "wake"}, left : 0 .. DRAIN_BATCH,
                 hand : Seq(Notes)]
      /\ offered \in Notes /\ delivered \in Seq(Notes)
  BY <1>t DEF TypeOK, Notes
<1>s. ASSUME UNCHANGED <<offered, delivered>>, ui'.hand = ui.hand,
             mailbox'.queue = mailbox.queue, mailbox'.closed = mailbox.closed,
             mailbox'.failed = mailbox.failed
      PROVE  UNCHANGED Channel!vars
  BY <1>s
<1>1. ASSUME NEW t \in Producers, Enqueue(t)
      PROVE  Channel!Accept \/ UNCHANGED Channel!vars
  <2>1. CASE UNCHANGED <<mailbox, offered>>
    BY <1>1, <2>1, <1>s DEF Enqueue
  <2>2. CASE /\ offered' = offered + 1
             /\ mailbox' = [mailbox EXCEPT !.queue = Append(@, offered'), !.scheduled = TRUE]
    <3>1. /\ ~mailbox.closed /\ ~mailbox.failed /\ offered < MaxOffers
          /\ UNCHANGED <<ui, delivered>>
      BY <1>1 DEF Enqueue
    <3>2. offered' \in Notes
      BY <1>m, <2>2, <3>1, RelaySizes DEF Notes, RelaySizes
    <3>3. /\ mailbox'.queue = Append(mailbox.queue, offered')
          /\ mailbox'.closed = mailbox.closed /\ mailbox'.failed = mailbox.failed
      BY <1>m, <2>2
    <3>4. ui'.hand \o mailbox'.queue = Append(ui.hand \o mailbox.queue, offered')
      BY <1>m, <3>1, <3>2, <3>3, AppendAfter
    <3> QED
      BY <2>2, <3>1, <3>3, <3>4 DEF Channel!Accept
  <2> QED
    BY <1>1, <2>1, <2>2 DEF Enqueue
<1>2. ASSUME NEW notify \in BOOLEAN, Fail(notify), UNCHANGED <<offered, delivered>>,
             Failing, ui'.hand = ui.hand \/ ui'.hand = <<>>
      PROVE  Channel!Break
  <2>1. /\ mailbox'.closed = mailbox.closed /\ mailbox'.failed
        /\ mailbox'.queue = IF notify THEN <<Down>> ELSE <<>>
    BY <1>2, <1>t, FailedFacts DEF Fail
  <2>2. Channel!Cut(<<>>) \/ Channel!Cut(<<Down>>)
    BY <1>2, <2>1, Cuts
  <2> QED
    BY <1>2, <2>1, <2>2 DEF Channel!Break, Failing, Down, Channel!Down
<1>3. ASSUME NEW notify \in BOOLEAN, Fail(notify), ~Failing PROVE mailbox' = mailbox
  BY <1>3, <1>t, FailedFacts DEF Fail
<1>4. ASSUME NEW t \in Threads, FailOverflow(t)
      PROVE  Channel!Break \/ UNCHANGED Channel!vars
  BY <1>2, <1>3, <1>4 DEF FailOverflow
<1>5. ASSUME ScheduleFails
      PROVE  Channel!Break \/ UNCHANGED Channel!vars
  BY <1>2, <1>3, <1>5 DEF ScheduleFails
<1>6. ASSUME DeliverFails
      PROVE  Channel!Break \/ Channel!Lose
  <2>1. ui'.hand = <<>> /\ Fail(TRUE) /\ UNCHANGED <<offered, delivered>>
    BY <1>6, <1>m DEF DeliverFails
  <2>2. CASE Failing
    BY <1>2, <2>1, <2>2
  <2>3. CASE ~Failing
    <3>1. mailbox' = mailbox
      BY <1>3, <2>1, <2>3
    <3>2. /\ ui.hand # <<>> /\ ui.hand \o mailbox.queue # <<>>
          /\ Tail(ui.hand \o mailbox.queue) = mailbox.queue
      BY <1>6, <1>m, HandOnTop DEF DeliverFails
    <3>3. ui'.hand \o mailbox'.queue = mailbox.queue
      BY <1>m, <2>1, <3>1, ConcatEmptySeq
    <3> QED
      BY <2>1, <2>3, <3>1, <3>2, <3>3 DEF Channel!Lose, Failing
  <2> QED
    BY <2>2, <2>3
<1>7. ASSUME NEW t \in Threads, WakeWorker(t) \/ WakeForTheRest
      PROVE  UNCHANGED Channel!vars
  <2>1. mailbox' = mailbox
    BY <1>7, WakeFacts DEF WakeWorker, WakeForTheRest
  <2>2. ui'.hand = ui.hand
    <3>1. CASE WakeWorker(t)
      BY <3>1 DEF WakeWorker
    <3>2. CASE WakeForTheRest
      <4>1. ui.doing = "wake" /\ ui'.hand = <<>>
        BY <3>2 DEF WakeForTheRest, UiIdle
      <4> QED
        BY <4>1 DEF Shape
    <3> QED
      BY <1>7, <3>1, <3>2
  <2> QED
    BY <1>7, <1>s, <2>1, <2>2 DEF WakeWorker, WakeForTheRest
<1>8. ASSUME RefreshFailureStatus
      PROVE  Channel!Remind \/ UNCHANGED Channel!vars
  <2>1. CASE mailbox.closed \/ ~mailbox.failed
    BY <1>8, <1>s, <2>1 DEF RefreshFailureStatus
  <2>2. CASE ~(mailbox.closed \/ ~mailbox.failed)
    <3>1. /\ mailbox'.queue = <<Down>> /\ ui'.hand = ui.hand
          /\ mailbox'.closed = mailbox.closed /\ mailbox'.failed = mailbox.failed
          /\ UNCHANGED <<offered, delivered>>
      BY <1>8, <1>m, <2>2 DEF RefreshFailureStatus
    <3>2. Channel!Cut(<<Down>>)
      BY <3>1, Cuts
    <3> QED
      BY <2>2, <3>1, <3>2 DEF Channel!Remind, Down, Channel!Down
  <2> QED
    BY <2>1, <2>2
<1>9. ASSUME Close \/ CloseAfterFailure PROVE Channel!Close
  <2>1. /\ mailbox'.queue = <<>> /\ mailbox'.closed /\ ui'.hand = ui.hand
        /\ UNCHANGED <<offered, delivered>>
    BY <1>9, <1>m DEF Close, CloseAfterFailure, Closed
  <2>2. Channel!Cut(<<>>)
    BY <2>1, Cuts
  <2> QED
    BY <2>1, <2>2 DEF Channel!Close
<1>10. ASSUME Schedule \/ StartDrain PROVE UNCHANGED Channel!vars
  <2>1. CASE Schedule
    BY <1>s, <2>1 DEF Schedule
  <2>2. CASE StartDrain
    <3>1. ui.hand = <<>> /\ ui'.hand = <<>>
      BY <2>2 DEF Shape, StartDrain
    <3> QED
      BY <1>s, <2>2, <3>1 DEF StartDrain
  <2> QED
    BY <1>10, <2>1, <2>2
<1>11. ASSUME Pop PROVE UNCHANGED Channel!vars
  <2>1. CASE ui' = UiIdle /\ UNCHANGED mailbox
    BY <1>11, <1>s, <2>1 DEF Pop, UiIdle
  <2>2. CASE ui' = UiIdle /\ mailbox' = [mailbox EXCEPT !.scheduled = FALSE]
    <3>1. mailbox'.queue = mailbox.queue /\ mailbox'.closed = mailbox.closed
          /\ mailbox'.failed = mailbox.failed /\ ui'.hand = ui.hand
      BY <1>11, <1>m, <2>2 DEF Pop, UiIdle
    <3> QED
      BY <1>11, <1>s, <3>1 DEF Pop
  <2>3. CASE /\ mailbox.queue # <<>>
             /\ ui' = [ui EXCEPT !.left = @ - 1, !.hand = <<Head(mailbox.queue)>>]
             /\ mailbox' = [mailbox EXCEPT !.queue = Tail(@)]
    <3>1. /\ ui.hand = <<>> /\ ui'.hand = <<Head(mailbox.queue)>>
          /\ mailbox'.queue = Tail(mailbox.queue)
          /\ mailbox'.closed = mailbox.closed /\ mailbox'.failed = mailbox.failed
          /\ UNCHANGED <<offered, delivered>>
      BY <1>11, <1>m, <2>3 DEF Pop
    <3>2. ui'.hand \o mailbox'.queue = mailbox.queue
          /\ ui.hand \o mailbox.queue = mailbox.queue
      BY <1>m, <2>3, <3>1, SeqFacts
    <3> QED
      BY <3>1, <3>2
  <2> QED
    BY <1>11, <2>1, <2>2, <2>3 DEF Pop
<1>12. ASSUME Deliver PROVE Channel!Deliver
  <2>1. /\ ui.hand # <<>> /\ ui'.hand = <<>> /\ UNCHANGED <<offered, mailbox>>
        /\ delivered' = delivered \o ui.hand
    BY <1>12, <1>m DEF Deliver
  <2>2. /\ ui.hand \o mailbox.queue # <<>>
        /\ Tail(ui.hand \o mailbox.queue) = mailbox.queue
        /\ Append(delivered, Head(ui.hand \o mailbox.queue)) = delivered \o ui.hand
    BY <1>m, <2>1, HandOnTop
  <2>3. ui'.hand \o mailbox'.queue = mailbox.queue
    BY <1>m, <2>1, ConcatEmptySeq
  <2> QED
    BY <2>1, <2>2, <2>3 DEF Channel!Deliver
<1>13. ASSUME EndBatch PROVE UNCHANGED Channel!vars
  <2>1. /\ ui.hand = <<>> /\ ui'.hand = <<>> /\ mailbox'.queue = mailbox.queue
        /\ mailbox'.closed = mailbox.closed /\ mailbox'.failed = mailbox.failed
    BY <1>13, <1>m DEF EndBatch, UiIdle
  <2> QED
    BY <1>13, <1>s, <2>1 DEF EndBatch
<1>14. CASE UNCHANGED vars
  BY <1>14, <1>s DEF vars
<1>15. Watchdog \in Threads
  BY DEF Threads
<1> QED
  BY <1>1, <1>4, <1>5, <1>6, <1>7, <1>8, <1>9, <1>10, <1>11, <1>12, <1>13,
     <1>14, <1>15 DEF Next, ThreadStep, WorkerStep, UiStep, Channel!Next

(* Every behaviour of the relay is one of the bounded channel; that        *)
(* nothing stays in it for ever is left to TLC.                            *)
THEOREM RelayIsAChannel == Spec => Channel!Spec
<1>1. Init => Shape
  BY ShapeInit
<1>2. Init => Channel!Init
  <2> SUFFICES ASSUME Init PROVE Channel!Init
    OBVIOUS
  <2>1. ui.hand = <<>> /\ mailbox.queue = <<>> /\ ~mailbox.closed /\ ~mailbox.failed
    BY DEF Init, UiIdle
  <2>2. <<>> \o <<>> = <<>>
    BY ConcatEmptySeq
  <2> QED
    BY <2>1, <2>2 DEF Init, Channel!Init
<1>3. Shape /\ [Next]_vars => Shape' /\ [Channel!Next]_(Channel!vars)
  BY ShapeStep, ChannelStep
<1> QED
  BY <1>1, <1>2, <1>3, PTL DEF Spec, Channel!Spec
=============================================================================
