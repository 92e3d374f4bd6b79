------------------------- MODULE LinkSessionProofs -------------------------
(***************************************************************************)
(* What every reachable state of LinkSession satisfies, for any number of  *)
(* guests and any bounds: the turns stay consistent, one state carries a   *)
(* revision, a guest that has read its mail shows the host's state, and    *)
(* nobody hears themselves unless the previous DJ is the next one.         *)
(***************************************************************************)
EXTENDS LinkSession, SequenceTheorems, WellFoundedInduction, FiniteSetTheorems, TLAPS

(***************************************************************************)
(* What the operations of Turns preserve: each takes a consistent turn     *)
(* state to a consistent one, of a higher revision unless it is the same.  *)
(***************************************************************************)
(* The least of a set of positions.                                        *)
LEMMA LeastExists ==
  ASSUME NEW S \in SUBSET Nat, S # {}
  PROVE  \E n \in S : \A m \in S : n <= m
<1> DEFINE Less == OpToRel(<, Nat)
<1>1. \E n \in S : \A m \in S : <<m, n>> \notin Less
  <2>1. IsWellFoundedOn(Less, Nat)
    BY NatLessThanWellFounded
  <2> HIDE DEF Less
  <2> QED
    BY <2>1, WFMin
<1>2. \A m, n \in Nat : <<m, n>> \in Less <=> m < n
  BY DEF OpToRel
<1> HIDE DEF Less
<1>3. \A m, n \in Nat : ~(m < n) => n <= m
  OBVIOUS
<1>4. PICK n \in S : \A m \in S : <<m, n>> \notin Less
  BY <1>1
<1>5. \A m \in S : n <= m
  BY <1>2, <1>3, <1>4
<1> QED
  BY <1>5

-----------------------------------------------------------------------------
(* Orders stay free of repetitions.                                        *)
LEMMA OrderFacts ==
  ASSUME NEW seq \in Orders
  PROVE  /\ seq \in Seq(Participants)
         /\ DOMAIN seq = 1 .. Len(seq) /\ Len(seq) \in Nat
         /\ Members(seq) \in SUBSET Participants
         /\ \A j, k \in 1 .. Len(seq) : seq[j] = seq[k] => j = k
BY DEF Orders, Members

LEMMA AppendedOrder ==
  ASSUME NEW seq \in Orders, NEW p \in Participants, p \notin Members(seq)
  PROVE  /\ Append(seq, p) \in Orders
         /\ Members(Append(seq, p)) = Members(seq) \cup {p}
<1>1. /\ Append(seq, p) \in Seq(Participants)
      /\ Len(Append(seq, p)) = Len(seq) + 1
      /\ \A k \in 1 .. Len(seq) : Append(seq, p)[k] = seq[k]
      /\ Append(seq, p)[Len(seq) + 1] = p
  BY OrderFacts, AppendProperties
<1>2. DOMAIN Append(seq, p) = 1 .. Len(seq) + 1
  BY <1>1
<1> HIDE DEF Orders
<1>3. \A k \in 1 .. Len(seq) : seq[k] # p
  BY OrderFacts DEF Members
<1>4. \A j, k \in 1 .. Len(seq) + 1 :
        Append(seq, p)[j] = Append(seq, p)[k] => j = k
  BY <1>1, <1>3, OrderFacts
<1>5. Members(Append(seq, p)) = Members(seq) \cup {p}
  BY <1>1, <1>2, OrderFacts DEF Members
<1> QED
  BY <1>1, <1>2, <1>4, <1>5 DEF Orders

LEMMA PrependedOrder ==
  ASSUME NEW seq \in Orders, NEW p \in Participants, p \notin Members(seq)
  PROVE  /\ <<p>> \o seq \in Orders
         /\ Members(<<p>> \o seq) = Members(seq) \cup {p}
<1> DEFINE new == <<p>> \o seq
<1>1. /\ new \in Seq(Participants) /\ Len(new) = Len(seq) + 1
      /\ new[1] = p
      /\ \A k \in 1 .. Len(seq) : new[k + 1] = seq[k]
  BY OrderFacts
<1>2. DOMAIN new = 1 .. Len(seq) + 1
  BY <1>1
<1> HIDE DEF new
<1>3. \A k \in 2 .. Len(seq) + 1 : new[k] = seq[k - 1] /\ k - 1 \in 1 .. Len(seq)
  <2> TAKE k \in 2 .. Len(seq) + 1
  <2>1. k - 1 \in 1 .. Len(seq) /\ (k - 1) + 1 = k
    BY OrderFacts
  <2> QED
    BY <1>1, <2>1
<1>4. \A k \in 1 .. Len(seq) : seq[k] # p
  BY OrderFacts DEF Members
<1>5. \A j, k \in 1 .. Len(seq) + 1 : new[j] = new[k] => j = k
  <2> TAKE j, k \in 1 .. Len(seq) + 1
  <2> HAVE new[j] = new[k]
  <2>1. CASE j = 1 /\ k = 1
    BY <2>1
  <2>2. CASE j = 1 /\ k # 1
    BY <2>2, <1>1, <1>3, <1>4, OrderFacts
  <2>3. CASE j # 1 /\ k = 1
    BY <2>3, <1>1, <1>3, <1>4, OrderFacts
  <2>4. CASE j # 1 /\ k # 1
    <3>1. seq[j - 1] = seq[k - 1] /\ j - 1 \in 1 .. Len(seq) /\ k - 1 \in 1 .. Len(seq)
      BY <2>4, <1>3, OrderFacts
    <3>2. j - 1 = k - 1
      BY <3>1, OrderFacts
    <3> QED
      BY <3>2
  <2> QED
    BY <2>1, <2>2, <2>3, <2>4
<1>6. Members(new) = Members(seq) \cup {p}
  <2>1. \A k \in 1 .. Len(seq) + 1 : new[k] \in Members(seq) \cup {p}
    <3> TAKE k \in 1 .. Len(seq) + 1
    <3>1. CASE k = 1
      BY <3>1, <1>1
    <3>2. CASE k # 1
      <4>1. k \in 2 .. Len(seq) + 1
        BY <3>2, OrderFacts
      <4>2. new[k] = seq[k - 1] /\ k - 1 \in DOMAIN seq
        BY <4>1, <1>3, OrderFacts
      <4> QED
        BY <4>2 DEF Members
    <3> QED
      BY <3>1, <3>2
  <2>2. \A k \in 1 .. Len(seq) : seq[k] \in Members(new)
    BY <1>1, <1>2, OrderFacts DEF Members
  <2>3. p \in Members(new)
    BY <1>1, <1>2, OrderFacts DEF Members
  <2>4. Members(seq) \cup {p} \subseteq Members(new)
    BY <2>2, <2>3, OrderFacts DEF Members
  <2>5. Members(new) \subseteq Members(seq) \cup {p}
    <3>1. Members(new) = {new[k] : k \in 1 .. Len(seq) + 1}
      BY <1>2 DEF Members
    <3> QED
      BY <3>1, <2>1
  <2> QED
    BY <2>4, <2>5
<1> QED
  BY <1>1, <1>2, <1>5, <1>6 DEF Orders, new

LEMMA PositionFacts ==
  ASSUME NEW seq \in Orders, NEW p
  PROVE  /\ Position(seq, p) \in 0 .. Len(seq)
         /\ p \in Members(seq) => /\ Position(seq, p) \in 1 .. Len(seq)
                                  /\ seq[Position(seq, p)] = p
<1>1. CASE p \in Members(seq)
  <2>1. \E k \in DOMAIN seq : seq[k] = p
    BY <1>1 DEF Members
  <2>2. Position(seq, p) \in DOMAIN seq /\ seq[Position(seq, p)] = p
    BY <1>1, <2>1 DEF Position
  <2> QED
    BY <2>2, OrderFacts
<1>2. CASE p \notin Members(seq)
  BY <1>2, OrderFacts DEF Position
<1> QED
  BY <1>1, <1>2

LEMMA ShortenedOrder ==
  ASSUME NEW seq \in Orders, NEW p
  PROVE  /\ Without(seq, p) \in Orders
         /\ Members(Without(seq, p)) = Members(seq) \ {p}
<1>1. CASE p \notin Members(seq)
  BY <1>1 DEF Without
<1>2. CASE p \in Members(seq)
  <2> DEFINE at == Position(seq, p)
             new == [k \in 1 .. Len(seq) - 1 |-> IF k < at THEN seq[k] ELSE seq[k + 1]]
  <2>1. Without(seq, p) = new
    BY <1>2 DEF Without
  <2>2. at \in 1 .. Len(seq) /\ seq[at] = p
    BY <1>2, PositionFacts
  <2> HIDE DEF at
  <2>3. /\ Len(seq) - 1 \in Nat /\ DOMAIN new = 1 .. Len(seq) - 1
        /\ \A k \in 1 .. Len(seq) - 1 :
             new[k] = IF k < at THEN seq[k] ELSE seq[k + 1]
    BY <2>2, OrderFacts
  <2>4. \A k \in 1 .. Len(seq) : seq[k] \in Participants
    BY OrderFacts, ElementOfSeq
  <2>5. new \in Seq(Participants)
    <3>1. new \in [1 .. Len(seq) - 1 -> Participants]
      BY <2>2, <2>4, OrderFacts
    <3> QED
      BY <3>1, <2>3, SeqDef
  <2> HIDE DEF new
  <2>6. \A j, k \in 1 .. Len(seq) - 1 : new[j] = new[k] => j = k
    BY <2>2, <2>3, OrderFacts
  <2>7. Members(new) = Members(seq) \ {p}
    <3>1. \A k \in 1 .. Len(seq) - 1 : new[k] \in Members(seq) \ {p}
      BY <2>2, <2>3, OrderFacts DEF Members
    <3>2. \A k \in 1 .. Len(seq) : seq[k] # p => seq[k] \in Members(new)
      <4> TAKE k \in 1 .. Len(seq)
      <4> HAVE seq[k] # p
      <4>1. CASE k < at
        <5>1. k \in 1 .. Len(seq) - 1 /\ new[k] = seq[k]
          BY <4>1, <2>2, <2>3, OrderFacts
        <5> QED
          BY <5>1, <2>3 DEF Members
      <4>2. CASE k > at
        <5>1. k - 1 \in 1 .. Len(seq) - 1 /\ ~(k - 1 < at) /\ (k - 1) + 1 = k
          BY <4>2, <2>2, OrderFacts
        <5>2. new[k - 1] = seq[k]
          BY <5>1, <2>3
        <5> QED
          BY <5>1, <5>2, <2>3 DEF Members
      <4> QED
        BY <4>1, <4>2, <2>2, OrderFacts
    <3> QED
      BY <3>1, <3>2, <2>3, OrderFacts DEF Members
  <2> QED
    BY <2>1, <2>3, <2>5, <2>6, <2>7 DEF Orders
<1> QED
  BY <1>1, <1>2

-----------------------------------------------------------------------------
(* The next DJ is another one than the DJ on air.                          *)
LEMMA FollowingFacts ==
  ASSUME NEW s \in SessionState, Following(s) # NoOne
  PROVE  Following(s) \in Members(s.order) /\ Following(s) # s.onAir
<1> DEFINE After(step) ==
             s.order[((Position(s.order, s.onAir) + step) % Len(s.order)) + 1]
           Steps == {step \in 0 .. Len(s.order) - 1 :
                       After(step) # s.onAir /\ Playable(s, After(step))}
           least == CHOOSE step \in Steps : \A other \in Steps : step <= other
<1>1. Following(s) = IF Steps = {} THEN NoOne ELSE After(least)
  BY DEF Following
<1>2. Steps # {} /\ Following(s) = After(least)
  BY <1>1
<1>3. Steps \in SUBSET Nat
  <2>1. s.order \in Orders
    BY DEF SessionState
  <2> QED
    BY <2>1, OrderFacts
<1> HIDE DEF Steps
<1>4. \E step \in Steps : \A other \in Steps : step <= other
  BY <1>2, <1>3, LeastExists
<1>5. least \in Steps
  BY <1>4
<1>6. After(least) # s.onAir /\ Playable(s, After(least))
  BY <1>5 DEF Steps
<1> QED
  BY <1>2, <1>6 DEF Playable

LEMMA NextPerformerFacts ==
  ASSUME NEW s \in SessionState, NextPerformer(s) # NoOne
  PROVE  /\ NextPerformer(s) \in Members(s.order) \cap Participants
         /\ NextPerformer(s) # s.onAir
<1>1. s.order \in Orders
  BY DEF SessionState
<1>2. Members(s.order) \in SUBSET Participants
  BY <1>1, OrderFacts
<1> QED
  BY <1>2, FollowingFacts DEF NextPerformer, Playable

-----------------------------------------------------------------------------
(* A change of the turn state.                                             *)
Evolves(s, t) ==
    /\ t \in SessionState /\ Consistent(t)
    /\ t = s \/ t.revision = s.revision + 1

LEMMA EmptySessionFacts ==
  ASSUME NEW plays \in BOOLEAN
  PROVE  /\ EmptySession(plays) \in SessionState /\ Consistent(EmptySession(plays))
         /\ EmptySession(plays).revision = 1
<1>1. << >> \in Orders /\ <<Host>> \in Orders
  BY HostAssumption DEF Orders
<1> QED
  BY <1>1, HostAssumption DEF EmptySession, SessionState, Consistent, Someone

LEMMA BumpEvolves ==
  ASSUME NEW s \in SessionState, NEW t \in SessionState, Consistent(t),
         t.revision = s.revision
  PROVE  Evolves(s, Bump(t)) /\ Bump(t).revision = s.revision + 1
<1>1. Bump(t) \in SessionState /\ Bump(t).revision = s.revision + 1
  BY DEF Bump, SessionState
<1>2. Consistent(Bump(t))
  BY DEF Bump, SessionState, Consistent
<1> QED
  BY <1>1, <1>2 DEF Evolves

LEMMA JoinedEvolves ==
  ASSUME NEW s \in SessionState, Consistent(s), NEW p \in Participants,
         NEW connected \in BOOLEAN, NEW joinOrder \in BOOLEAN
  PROVE  /\ Evolves(s, Joined(s, p, connected, joinOrder))
         /\ Joined(s, p, connected, joinOrder).revision = s.revision + 1
<1> DEFINE order == IF joinOrder /\ p \notin Members(s.order)
                    THEN Append(s.order, p) ELSE s.order
           present == IF connected THEN s.connected \cup {p} ELSE s.connected \ {p}
           t == [s EXCEPT !.known = @ \cup {p}, !.connected = present, !.order = order]
<1>1. s.order \in Orders
  BY DEF SessionState
<1>2. order \in Orders /\ Members(s.order) \subseteq Members(order)
  BY <1>1, AppendedOrder
<1>3. Joined(s, p, connected, joinOrder) = Bump(t)
  BY DEF Joined
<1>4. present \in SUBSET Participants /\ s.known \cup {p} \in SUBSET Participants
  BY DEF SessionState
<1> HIDE DEF order, present
<1>5. t \in SessionState
  BY <1>2, <1>4 DEF SessionState
<1>6. Consistent(t) /\ t.revision = s.revision
  BY <1>2 DEF SessionState, Consistent
<1> QED
  BY <1>3, <1>5, <1>6, BumpEvolves

LEMMA ConnectedEvolves ==
  ASSUME NEW s \in SessionState, Consistent(s), NEW p \in Participants,
         NEW on \in BOOLEAN
  PROVE  Evolves(s, Connected(s, p, on))
<1>1. ConnectedUnrevised(s, p, on) \in SessionState
  BY DEF ConnectedUnrevised, SessionState
<1>2. /\ Consistent(ConnectedUnrevised(s, p, on))
      /\ ConnectedUnrevised(s, p, on).revision = s.revision
  BY DEF ConnectedUnrevised, SessionState, Consistent
<1> QED
  BY <1>1, <1>2, BumpEvolves DEF Connected, Evolves

LEMMA RemovedEvolves ==
  ASSUME NEW s \in SessionState, Consistent(s), NEW p \in Participants
  PROVE  Evolves(s, Removed(s, p))
<1> DEFINE order == Without(s.order, p)
           before == IF s.previous = p THEN NoOne ELSE s.previous
           pick == IF s.nextPick = p THEN NoOne ELSE s.nextPick
           t == [s EXCEPT !.connected = @ \ {p}, !.order = order,
                          !.previous = before, !.nextPick = pick]
<1>1. order \in Orders /\ Members(order) = Members(s.order) \ {p}
  BY ShortenedOrder DEF SessionState
<1>2. /\ before \in Someone /\ pick \in Someone
      /\ before # NoOne => before = s.previous
      /\ pick # NoOne => pick = s.nextPick /\ pick # p
  BY DEF SessionState, Someone
<1>3. p \in s.known => Removed(s, p) = Bump(t)
  BY DEF Removed
<1> HIDE DEF order, before, pick
<1>4. t \in SessionState
  BY <1>1, <1>2 DEF SessionState
<1>5. Consistent(t) /\ t.revision = s.revision
  BY <1>1, <1>2 DEF SessionState, Consistent
<1>6. CASE p \in s.known
  BY <1>3, <1>4, <1>5, <1>6, BumpEvolves
<1>7. CASE p \notin s.known
  BY <1>7 DEF Removed, Evolves
<1> QED
  BY <1>6, <1>7

LEMMA ReorderedEvolves ==
  ASSUME NEW s \in SessionState, Consistent(s), NEW order \in Orders
  PROVE  Evolves(s, Reordered(s, order))
<1> DEFINE pick == IF s.nextPick \in Members(order) THEN s.nextPick ELSE NoOne
           t == [s EXCEPT !.order = order, !.nextPick = pick]
<1>1. pick \in Someone /\ (pick # NoOne => pick = s.nextPick /\ pick \in Members(order))
  BY DEF SessionState, Someone
<1>2. Reordered(s, order) = Bump(t)
  BY DEF Reordered
<1> HIDE DEF pick
<1>3. t \in SessionState
  BY <1>1 DEF SessionState
<1>4. Consistent(t) /\ t.revision = s.revision
  BY <1>1 DEF SessionState, Consistent
<1> QED
  BY <1>2, <1>3, <1>4, BumpEvolves

LEMMA PickedEvolves ==
  ASSUME NEW s \in SessionState, Consistent(s), NEW p \in Someone, Pickable(s, p)
  PROVE  Evolves(s, Picked(s, p))
<1> DEFINE t == [s EXCEPT !.nextPick = p]
<1>1. t \in SessionState
  BY DEF SessionState
<1>2. Consistent(t) /\ t.revision = s.revision
  BY DEF Pickable, SessionState, Consistent
<1> QED
  BY <1>1, <1>2, BumpEvolves DEF Picked

LEMMA AdvancedEvolves ==
  ASSUME NEW s \in SessionState, Consistent(s), NextPerformer(s) # NoOne
  PROVE  Evolves(s, Advanced(s))
<1> DEFINE to == NextPerformer(s)
           count == s.handoffs + 1
           t == [s EXCEPT !.previous = s.onAir, !.onAir = to,
                          !.nextPick = NoOne, !.handoffs = count]
<1>1. /\ to \in Someone /\ to # s.onAir /\ to # NoOne
      /\ NoOne \in Someone /\ count \in Nat
  BY NextPerformerFacts DEF Someone, SessionState
<1>2. Advanced(s) = Bump(t)
  BY DEF Advanced
<1> HIDE DEF to, count
<1>3. t \in SessionState
  BY <1>1 DEF SessionState
<1>4. Consistent(t) /\ t.revision = s.revision
  BY <1>1 DEF SessionState, Consistent
<1> QED
  BY <1>2, <1>3, <1>4, BumpEvolves

LEMMA ReleasedEvolves ==
  ASSUME NEW s \in SessionState, Consistent(s)
  PROVE  Evolves(s, Released(s))
<1> DEFINE t == [s EXCEPT !.previous = NoOne]
<1>1. t \in SessionState
  BY DEF SessionState, Someone
<1>2. Consistent(t) /\ t.revision = s.revision
  BY DEF SessionState, Consistent
<1> QED
  BY <1>1, <1>2, BumpEvolves DEF Released, Evolves

LEMMA StoppedEvolves ==
  ASSUME NEW s \in SessionState, Consistent(s)
  PROVE  Evolves(s, Stopped(s))
<1> DEFINE t == [s EXCEPT !.onAir = NoOne, !.previous = NoOne, !.nextPick = NoOne]
<1>1. t \in SessionState
  BY DEF SessionState, Someone
<1>2. Consistent(t) /\ t.revision = s.revision
  BY DEF SessionState, Consistent
<1> QED
  BY <1>1, <1>2, BumpEvolves DEF Stopped

(***************************************************************************)
(* The session.                                                            *)
(***************************************************************************)
LinkStates == {"none", "invited", "linked", "up", "lost", "gone"}

(* What a guest will show once it has read its mail.                       *)
Latest(g) == IF down[g] = << >> THEN view[g] ELSE down[g][Len(down[g])].state

(* A guest that was answered once is kept up to date until it is removed,  *)
(* and only such a guest is told its identifier.                           *)
Currency ==
    /\ \A g \in named : link[g] \in {"up", "lost", "gone"}
    /\ welcomed \subseteq named
    /\ \A g \in Guests : \A k \in DOMAIN down[g] : down[g][k].welcome => g \in named
    /\ \A g \in named \cap Open(link) : Latest(g) = state

IndInv ==
    /\ TypeOK
    /\ TurnsAreConsistent /\ state.revision >= 1
    /\ OneStatePerRevision
    /\ Currency

USE HostAssumption, LinkAssumption

-----------------------------------------------------------------------------
(* What the host computes from a turn state.                               *)
LEMMA FeedFacts ==
  ASSUME NEW s \in SessionState, NEW p \in Participants
  PROVE  FeedFor(s, p) \in Someone /\ UplinkFor(s, p) \in {"local", "full"}
BY DEF FeedFor, TailFor, UplinkFor, SessionState, Someone

Programs == [source : Someone, splice : Someone, fading : BOOLEAN]
LEMMA ProgramFacts ==
  ASSUME NEW pg \in Programs, NEW old \in Someone, NEW new \in Someone
  PROVE  Directed(pg, old, new) \in Programs /\ Spliced(pg) \in Programs
<1>1. NoOne \in Someone
  BY DEF Someone
<1>2. Silent \in Programs /\ Playing(new) \in Programs
  BY <1>1 DEF Silent, Playing, Programs
<1>3. Spliced(pg) \in Programs
  BY <1>1 DEF Spliced, Programs
<1>4. HandedOver(pg, new) \in Programs
  BY <1>2, <1>3 DEF HandedOver, Programs
<1>5. FadedOut(pg) \in Programs
  BY <1>1 DEF FadedOut, Programs
<1> QED
  BY <1>3, <1>4, <1>5 DEF Directed

LEMMA SwappedOrder ==
  ASSUME NEW seq \in Orders, NEW k \in 1 .. Len(seq) - 1
  PROVE  Swapped(seq, k) \in Orders
<1> DEFINE new == Swapped(seq, k)
<1>1. /\ seq \in Seq(Participants) /\ DOMAIN seq = 1 .. Len(seq) /\ Len(seq) \in Nat
      /\ k \in DOMAIN seq /\ k + 1 \in DOMAIN seq /\ k # k + 1
      /\ \A i, j \in DOMAIN seq : seq[i] = seq[j] => i = j
      /\ \A i \in DOMAIN seq : seq[i] \in Participants
  BY OrderFacts, ElementOfSeq
<1>2. /\ DOMAIN new = DOMAIN seq
      /\ new[k] = seq[k + 1] /\ new[k + 1] = seq[k]
      /\ \A i \in DOMAIN seq \ {k, k + 1} : new[i] = seq[i]
  BY <1>1 DEF Swapped
<1>3. new \in Seq(Participants)
  <2>1. new \in [1 .. Len(seq) -> Participants]
    BY <1>1 DEF Swapped
  <2> QED
    BY <2>1, <1>1, SeqDef
<1> HIDE DEF new
<1>4. \A i, j \in DOMAIN new : new[i] = new[j] => i = j
  BY <1>1, <1>2
<1> QED
  BY <1>3, <1>4 DEF Orders, new

-----------------------------------------------------------------------------
(* The mail after a change: what was under way, then state s, and nothing  *)
(* after it.                                                               *)
Delivers(queues, s, links, names) ==
    /\ queues \in [Guests -> Seq(Message)]
    /\ \A g \in Guests : \A k \in DOMAIN queues[g] :
         /\ queues[g][k].state = s \/ queues[g][k].state.revision < s.revision
         /\ queues[g][k].welcome => g \in names
    /\ \A g \in Guests :
         g \in Open(links) => /\ queues[g] # << >>
                             /\ queues[g][Len(queues[g])].state = s

LEMMA AppendedMail ==
  ASSUME NEW queue \in Seq(Message), NEW m \in Message
  PROVE  /\ Append(queue, m) \in Seq(Message) /\ Append(queue, m) # << >>
         /\ Len(Append(queue, m)) \in DOMAIN Append(queue, m)
         /\ Append(queue, m)[Len(Append(queue, m))] = m
         /\ \A k \in DOMAIN Append(queue, m) :
              Append(queue, m)[k] = m
              \/ (k \in DOMAIN queue /\ Append(queue, m)[k] = queue[k])
<1>1. /\ Append(queue, m) \in Seq(Message) /\ Len(queue) \in Nat
      /\ Len(Append(queue, m)) = Len(queue) + 1
      /\ \A k \in 1 .. Len(queue) : Append(queue, m)[k] = queue[k]
      /\ Append(queue, m)[Len(queue) + 1] = m
      /\ DOMAIN queue = 1 .. Len(queue)
      /\ DOMAIN Append(queue, m) = 1 .. Len(queue) + 1
  BY AppendProperties
<1> QED
  BY <1>1

LEMMA MailFacts ==
  ASSUME IndInv
  PROVE  \A g \in Guests : \A k \in DOMAIN down[g] :
           down[g][k] \in Message /\ Revised(down[g][k].state)
<1> TAKE g \in Guests
<1> TAKE k \in DOMAIN down[g]
<1>1. down[g] \in Seq(Message)
  BY DEF IndInv, TypeOK
<1>2. down[g][k] \in Message
  BY <1>1, ElementOfSeq
<1> QED
  BY <1>2 DEF IndInv, OneStatePerRevision

LEMMA BroadcastDelivers ==
  ASSUME IndInv, NEW s, Evolves(state, s), NEW links
  PROVE  Delivers(Broadcast(s, links), s, links, named)
<1> DEFINE m == [welcome |-> FALSE, state |-> s]
           queues == Broadcast(s, links)
<1>1. m \in Message /\ m.welcome = FALSE /\ m.state = s
  BY DEF Message, Evolves
<1>2. \A g \in Guests :
        queues[g] = IF g \in Open(links) THEN Append(down[g], m) ELSE down[g]
  BY DEF Broadcast
<1>3. \A g \in Guests : down[g] \in Seq(Message)
  BY DEF IndInv, TypeOK
<1>4. state.revision \in Nat /\ s.revision \in Nat
  BY DEF IndInv, TypeOK, SessionState, Evolves
<1>5. \A g \in Guests : \A k \in DOMAIN down[g] :
        /\ down[g][k].state = s \/ down[g][k].state.revision < s.revision
        /\ down[g][k].welcome => g \in named
  <2> TAKE g \in Guests
  <2> TAKE k \in DOMAIN down[g]
  <2>1. down[g][k].state.revision \in Nat
    BY MailFacts DEF Message, SessionState
  <2> QED
    BY <2>1, <1>4, MailFacts DEF IndInv, Currency, Evolves, Revised
<1> HIDE DEF m
<1>6. queues \in [Guests -> Seq(Message)]
  <2>1. \A g \in Guests : Append(down[g], m) \in Seq(Message)
    BY <1>1, <1>3, AppendedMail
  <2> QED
    BY <2>1, <1>3 DEF Broadcast, m
<1> HIDE DEF queues
<1>7. ASSUME NEW g \in Guests, NEW k \in DOMAIN queues[g]
      PROVE  /\ queues[g][k].state = s \/ queues[g][k].state.revision < s.revision
             /\ queues[g][k].welcome => g \in named
  <2>1. CASE g \in Open(links)
    <3>1. queues[g] = Append(down[g], m)
      BY <2>1, <1>2
    <3>2. queues[g][k] = m
          \/ (k \in DOMAIN down[g] /\ queues[g][k] = down[g][k])
      BY <3>1, <1>1, <1>3, AppendedMail
    <3> QED
      BY <3>2, <1>1, <1>5
  <2>2. CASE g \notin Open(links)
    BY <2>2, <1>2, <1>5
  <2> QED
    BY <2>1, <2>2
<1>8. ASSUME NEW g \in Guests, g \in Open(links)
      PROVE  queues[g] # << >> /\ queues[g][Len(queues[g])].state = s
  <2>1. queues[g] = Append(down[g], m)
    BY <1>2, <1>8
  <2> QED
    BY <2>1, <1>1, <1>3, AppendedMail
<1> QED
  BY <1>6, <1>7, <1>8 DEF Delivers, queues

-----------------------------------------------------------------------------
(* A change of the turn state keeps the invariant.                         *)
LEMMA BecomeSafe ==
  ASSUME IndInv, NEW s, Evolves(state, s), NEW links \in [Guests -> LinkStates], NEW names \in SUBSET Guests,
         NEW queues, Delivers(queues, s, links, names),
         \A g \in names : links[g] \in {"up", "lost", "gone"},
         named \subseteq names,
         Become(s, links, names, queues),
         UNCHANGED <<view, welcomed>>,
         up' \in [Guests -> Seq(Upward)], \A g \in Guests : Len(up'[g]) <= MaxUp
  PROVE  IndInv'
<1>1. /\ s \in SessionState /\ Consistent(s)
      /\ state \in SessionState /\ state.onAir \in Someone /\ s.onAir \in Someone
      /\ state.revision \in Nat /\ s.revision \in Nat
  BY DEF Evolves, IndInv, TypeOK, SessionState
<1>2. TypeOK'
  <2>1. state' \in SessionState /\ link' \in [Guests -> LinkStates]
        /\ named' \subseteq Guests /\ welcomed' \subseteq Guests
    BY <1>1 DEF Become, IndInv, TypeOK
  <2>2. feed' \in [Participants -> Someone]
    BY <1>1, FeedFacts DEF Become, Routed, Someone
  <2>3. uplink' \in [Participants -> {"local", "full"}]
    BY <1>1, FeedFacts DEF Become, IndInv, TypeOK
  <2>4. /\ view' \in [Guests -> SessionState] /\ down' \in [Guests -> Seq(Message)]
        /\ \A g \in Guests : Len(down'[g]) <= MaxDown
    BY DEF Become, Within, Delivers, IndInv, TypeOK
  <2>5. watch' \in [heard : BOOLEAN, silent : BOOLEAN]
    BY DEF Become, Watching, Unheard, IndInv, TypeOK
  <2>6. program' \in Programs
    BY <1>1, ProgramFacts DEF Become, IndInv, TypeOK, Programs
  <2> QED
    BY <2>1, <2>2, <2>3, <2>4, <2>5, <2>6 DEF TypeOK, LinkStates, Programs
<1>3. TurnsAreConsistent' /\ state'.revision >= 1
  <2>1. state' = s /\ s.revision >= 1
    BY <1>1 DEF Become, IndInv, Evolves
  <2> QED
    BY <1>1, <2>1 DEF TurnsAreConsistent
<1>4. OneStatePerRevision'
  <2>1. ASSUME NEW g \in Guests
        PROVE  Revised(view[g])'
    <3>1. view[g].revision \in Nat /\ Revised(view[g])
      BY DEF IndInv, TypeOK, OneStatePerRevision, SessionState
    <3> QED
      BY <3>1, <1>1 DEF Become, Revised, Evolves
  <2>2. ASSUME NEW g \in Guests, NEW k \in DOMAIN queues[g]
        PROVE  Revised(queues[g][k].state)'
    <3>1. queues[g][k] \in Message
      BY ElementOfSeq DEF Delivers
    <3>2. queues[g][k].state.revision \in Nat
      BY <3>1 DEF Message, SessionState
    <3>3. queues[g][k].state = s \/ queues[g][k].state.revision < s.revision
      BY DEF Delivers
    <3> QED
      BY <3>2, <3>3, <1>1 DEF Become, Revised
  <2> QED
    BY <2>1, <2>2 DEF OneStatePerRevision, Become
<1>5. Currency'
  <2>1. welcomed' \subseteq named' /\ (\A g \in named' : link'[g] \in {"up", "lost", "gone"})
    BY DEF Become, IndInv, Currency
  <2>2. \A g \in Guests : \A k \in DOMAIN down'[g] : down'[g][k].welcome => g \in named'
    BY DEF Become, Delivers
  <2>3. \A g \in Guests \cap Open(link)' : Latest(g)' = state'
    <3>1. Open(link)' = Open(links)
      BY DEF Become, Open
    <3> QED
      BY <3>1 DEF Become, Delivers, Latest
  <2> QED
    BY <2>1, <2>2, <2>3, <1>2 DEF Currency, TypeOK
<1> QED
  BY <1>2, <1>3, <1>4, <1>5 DEF IndInv

LEMMA ChangeSafe ==
  ASSUME IndInv, NEW s, Evolves(state, s),
         NEW links \in [Guests -> LinkStates],
         \A g \in named : links[g] \in {"up", "lost", "gone"},
         \A g \in named : links[g] \in {"up", "lost"} => g \in Open(link),
         Change(s, links),
         UNCHANGED <<view, welcomed>>,
         up' \in [Guests -> Seq(Upward)], \A g \in Guests : Len(up'[g]) <= MaxUp
  PROVE  IndInv'
<1>1. CASE s = state
  <2>1. link' = links
        /\ UNCHANGED <<state, named, feed, uplink, program, down, watch, view, welcomed>>
    BY <1>1 DEF Change
  <2>2. TypeOK'
    BY <2>1 DEF IndInv, TypeOK, LinkStates
  <2>3. TurnsAreConsistent' /\ state'.revision >= 1 /\ OneStatePerRevision'
    BY <2>1 DEF IndInv, TurnsAreConsistent, OneStatePerRevision, Revised
  <2>4. \A g \in Guests : Latest(g)' = Latest(g)
    BY <2>1 DEF Latest
  <2>5. named' \cap Open(link)' \subseteq named \cap Open(link)
    BY <2>1 DEF Open
  <2>6. Currency'
    BY <2>1, <2>4, <2>5 DEF IndInv, Currency, TypeOK
  <2> QED
    BY <2>2, <2>3, <2>6 DEF IndInv
<1>2. CASE s # state
  <2>2. Become(s, links, named, Broadcast(s, links))
    BY <1>2 DEF Change
  <2>3. Delivers(Broadcast(s, links), s, links, named)
    BY BroadcastDelivers
  <2>4. named \in SUBSET Guests
    BY DEF IndInv, TypeOK
  <2> QED
    BY <2>2, <2>3, <2>4, BecomeSafe
<1> QED
  BY <1>1, <1>2

-----------------------------------------------------------------------------
(* What the other steps may change: guests' requests, and what the host    *)
(* plays and measures.                                                     *)
Quiet ==
    /\ UNCHANGED <<state, link, named, view, welcomed, down>>
    /\ up' \in [Guests -> Seq(Upward)] /\ \A g \in Guests : Len(up'[g]) <= MaxUp
    /\ feed' \in [Participants -> Someone]
    /\ uplink' \in [Participants -> {"local", "full"}]
    /\ watch' \in [heard : BOOLEAN, silent : BOOLEAN]
    /\ program' \in Programs

LEMMA QuietSafe ==
  ASSUME IndInv, Quiet
  PROVE  IndInv'
<1>1. TypeOK'
  BY DEF IndInv, TypeOK, Quiet, Programs
<1>2. TurnsAreConsistent' /\ state'.revision >= 1 /\ OneStatePerRevision'
  BY DEF IndInv, Quiet, TurnsAreConsistent, OneStatePerRevision, Revised
<1>3. \A g \in Guests : Latest(g)' = Latest(g)
  BY DEF Quiet, Latest
<1>4. Open(link)' = Open(link)
  BY DEF Quiet, Open
<1>5. Currency'
  BY <1>3, <1>4 DEF IndInv, Currency, Quiet, TypeOK
<1> QED
  BY <1>1, <1>2, <1>5 DEF IndInv

LEMMA Vocabulary ==
  ASSUME IndInv
  PROVE  /\ state \in SessionState /\ Consistent(state)
         /\ link \in [Guests -> LinkStates] /\ named \in SUBSET Guests
         /\ \A g \in named : link[g] \in {"up", "lost", "gone"}
         /\ up \in [Guests -> Seq(Upward)] /\ \A g \in Guests : Len(up[g]) <= MaxUp
         /\ feed \in [Participants -> Someone]
         /\ uplink \in [Participants -> {"local", "full"}]
         /\ watch \in [heard : BOOLEAN, silent : BOOLEAN]
         /\ program \in Programs
BY DEF IndInv, TypeOK, TurnsAreConsistent, Currency, LinkStates, Programs

LEMMA PairFacts == \A w, x : w = <<x, FALSE>> => w[1] = x
OBVIOUS

LEMMA ObservationFacts ==
  ASSUME IndInv, NEW audible \in BOOLEAN, NEW w \in Observations(audible)
  PROVE  w[1] \in [heard : BOOLEAN, silent : BOOLEAN]
<1> DEFINE Watches == [heard : BOOLEAN, silent : BOOLEAN]
<1>1. watch \in Watches
  BY Vocabulary
<1>2. [heard |-> TRUE, silent |-> FALSE] \in Watches
      /\ [watch EXCEPT !.silent = TRUE] \in Watches
  BY <1>1
<1> HIDE DEF Watches
<1>3. \/ w = <<watch, FALSE>>
      \/ w = <<[heard |-> TRUE, silent |-> FALSE], FALSE>>
      \/ w = <<[watch EXCEPT !.silent = TRUE], FALSE>>
      \/ w \in {watch} \X BOOLEAN
  BY Zenon DEF Observations
<1>4. CASE w = <<watch, FALSE>>
  <2>1. w[1] = watch
    BY <1>4, PairFacts, Zenon
  <2> QED
    BY <1>1, <2>1 DEF Watches
<1>5. CASE w \in {watch} \X BOOLEAN
  <2>1. w[1] = watch
    BY <1>5
  <2> QED
    BY <1>1, <2>1 DEF Watches
<1>6. CASE w = <<[heard |-> TRUE, silent |-> FALSE], FALSE>>
  <2>1. w[1] = [heard |-> TRUE, silent |-> FALSE]
    BY <1>6, PairFacts, Zenon
  <2> QED
    BY <1>2, <2>1 DEF Watches
<1>7. CASE w = <<[watch EXCEPT !.silent = TRUE], FALSE>>
  <2>1. w[1] = [watch EXCEPT !.silent = TRUE]
    BY <1>7, PairFacts, Zenon
  <2> QED
    BY <1>2, <2>1 DEF Watches
<1> QED
  BY <1>3, <1>4, <1>5, <1>6, <1>7, Zenon

(* A report may release the tail, and else changes the watch alone.        *)
LEMMA ObserveSafe ==
  ASSUME IndInv, NEW audible \in BOOLEAN, NEW w \in Observations(audible), Observe(w),
         UNCHANGED <<view, welcomed>>,
         up' \in [Guests -> Seq(Upward)], \A g \in Guests : Len(up'[g]) <= MaxUp
  PROVE  IndInv'
<1>1. CASE w[2]
  <2>1. Evolves(state, Released(state)) /\ Change(Released(state), link)
    BY <1>1, Vocabulary, ReleasedEvolves DEF Observe
  <2>2. \A g \in named : link[g] \in {"up", "lost"} => g \in Open(link)
    BY Vocabulary DEF Open
  <2> QED
    BY <2>1, <2>2, Vocabulary, ChangeSafe
<1>2. CASE ~w[2]
  BY <1>2, Vocabulary, ObservationFacts, QuietSafe DEF Observe, Quiet
<1> QED
  BY <1>1, <1>2

LEMMA HostChangeSafe ==
  ASSUME IndInv, NEW s, Evolves(state, s), HostChange(s)
  PROVE  IndInv'
<1>1. \A g \in named : link[g] \in {"up", "lost"} => g \in Open(link)
  BY Vocabulary DEF Open
<1>2. Change(s, link) /\ UNCHANGED <<view, welcomed, up>>
  BY DEF HostChange
<1> QED
  BY <1>1, <1>2, Vocabulary, ChangeSafe

LEMMA HostStepSafe ==
  ASSUME IndInv, HostStep
  PROVE  IndInv'
<1>1. state \in SessionState /\ Consistent(state) /\ state.order \in Orders
  BY Vocabulary DEF SessionState
<1>2. CASE HostNext
  BY <1>1, <1>2, AdvancedEvolves, HostChangeSafe DEF HostNext, CanAdvance
<1>3. CASE HostRelease
  BY <1>1, <1>3, ReleasedEvolves, HostChangeSafe DEF HostRelease
<1>4. CASE HostStop
  BY <1>1, <1>4, StoppedEvolves, HostChangeSafe DEF HostStop
<1>5. CASE HostMoves
  <2>1. PICK k \in 1 .. Len(state.order) - 1 :
          HostChange(Reordered(state, Swapped(state.order, k)))
    BY <1>5 DEF HostMoves
  <2> QED
    BY <1>1, <2>1, SwappedOrder, ReorderedEvolves, HostChangeSafe
<1>6. CASE HostListens
  <2>0. PICK audible \in BOOLEAN : \E w \in Observations(audible) : Observe(w)
    BY <1>6 DEF HostListens
  <2>1. PICK w \in Observations(audible) : Observe(w)
    BY <2>0
  <2>2. UNCHANGED <<view, welcomed, up>>
    BY <1>6 DEF HostListens
  <2> QED
    BY <2>1, <2>2, Vocabulary, ObserveSafe
<1>7. CASE \E p \in Participants : HostPick(p)
  <2>1. PICK p \in Participants : HostPick(p)
    BY <1>7
  <2>2. p \in Someone /\ Pickable(state, p)
    BY <2>1 DEF HostPick, Pickable, RoleOf, Someone
  <2> QED
    BY <1>1, <2>1, <2>2, PickedEvolves, HostChangeSafe DEF HostPick
<1>8. CASE \E plays \in BOOLEAN : HostPlays(plays)
  <2>1. PICK plays \in BOOLEAN : HostPlays(plays)
    BY <1>8
  <2> DEFINE order == IF plays THEN <<Host>> \o state.order
                      ELSE Without(state.order, Host)
  <2>2. order \in Orders
    BY <1>1, <2>1, PrependedOrder, ShortenedOrder DEF HostPlays
  <2>3. HostChange(Reordered(state, order))
    BY <2>1 DEF HostPlays
  <2> QED
    BY <1>1, <2>2, <2>3, ReorderedEvolves, HostChangeSafe
<1> QED
  BY <1>2, <1>3, <1>4, <1>5, <1>6, <1>7, <1>8 DEF HostStep

LEMMA OpenChannelSafe ==
  ASSUME IndInv, NEW g \in Guests, OpenChannel(g)
  PROVE  IndInv'
<1>1. /\ link[g] = "linked" /\ link' = [link EXCEPT ![g] = "up"]
      /\ up' = [up EXCEPT ![g] = <<[ask |-> "hello"]>>]
      /\ UNCHANGED <<state, named, feed, uplink, view, welcomed, down, watch, program>>
  BY DEF OpenChannel
<1>2. <<[ask |-> "hello"]>> \in Seq(Upward) /\ Len(<<[ask |-> "hello"]>>) <= MaxUp
  BY DEF Upward
<1>3. TypeOK'
  <2>1. link' \in [Guests -> LinkStates]
    BY <1>1, Vocabulary DEF LinkStates
  <2>2. up' \in [Guests -> Seq(Upward)] /\ \A h \in Guests : Len(up'[h]) <= MaxUp
    BY <1>1, <1>2, Vocabulary
  <2> QED
    BY <1>1, <2>1, <2>2 DEF IndInv, TypeOK, LinkStates
<1>4. TurnsAreConsistent' /\ state'.revision >= 1 /\ OneStatePerRevision'
  BY <1>1 DEF IndInv, TurnsAreConsistent, OneStatePerRevision, Revised
<1>5. \A h \in Guests : Latest(h)' = Latest(h)
  BY <1>1 DEF Latest
<1>6. \A h \in named : link'[h] = link[h] /\ h \in Guests
  BY <1>1, Vocabulary
<1>7. \A h \in named : h \in Open(link)' => h \in Open(link)
  BY <1>6 DEF Open
<1>8. Currency'
  BY <1>1, <1>5, <1>6, <1>7 DEF IndInv, Currency
<1> QED
  BY <1>3, <1>4, <1>8 DEF IndInv

LEMMA RemoveSafe ==
  ASSUME IndInv, NEW g \in Guests, Remove(g)
  PROVE  IndInv'
<1> DEFINE links == [link EXCEPT ![g] = "gone"]
           s == Removed(state, g)
           queues == [Broadcast(s, links) EXCEPT ![g] = << >>]
<1>1. /\ Become(s, links, named, queues)
      /\ up' = [up EXCEPT ![g] = << >>] /\ UNCHANGED <<view, welcomed>>
  BY DEF Remove
<1>2. Evolves(state, s)
  BY Vocabulary, RemovedEvolves DEF Guests
<1> HIDE DEF s
<1>3. links \in [Guests -> LinkStates] /\ g \notin Open(links)
      /\ \A h \in named : links[h] \in {"up", "lost", "gone"}
  BY Vocabulary DEF LinkStates, Open
<1> HIDE DEF links
<1>4. Delivers(queues, s, links, named)
  <2>1. Delivers(Broadcast(s, links), s, links, named)
    BY <1>2, BroadcastDelivers
  <2>2. queues \in [Guests -> Seq(Message)] /\ queues[g] = << >>
        /\ \A h \in Guests \ {g} : queues[h] = Broadcast(s, links)[h]
    BY <2>1 DEF Delivers
  <2> DEFINE all == Broadcast(s, links)
  <2> HIDE DEF queues
  <2>3. ASSUME NEW h \in Guests, NEW k \in DOMAIN queues[h]
        PROVE  /\ queues[h][k].state = s \/ queues[h][k].state.revision < s.revision
               /\ queues[h][k].welcome => h \in named
    <3>1. CASE h = g
      BY <3>1, <2>2
    <3>2. CASE h # g
      <4>1. queues[h] = all[h] /\ k \in DOMAIN all[h]
        BY <3>2, <2>2
      <4> QED
        BY <4>1, <2>1 DEF Delivers
    <3> QED
      BY <3>1, <3>2
  <2>4. ASSUME NEW h \in Guests, h \in Open(links)
        PROVE  queues[h] # << >> /\ queues[h][Len(queues[h])].state = s
    <3>1. queues[h] = all[h]
      BY <2>2, <2>4, <1>3
    <3> QED
      BY <3>1, <2>1, <2>4 DEF Delivers
  <2> QED
    BY <2>2, <2>3, <2>4 DEF Delivers
<1>5. up' \in [Guests -> Seq(Upward)] /\ \A h \in Guests : Len(up'[h]) <= MaxUp
  <2>1. << >> \in Seq(Upward) /\ Len(<< >>) <= MaxUp
    OBVIOUS
  <2> QED
    BY <1>1, <2>1, Vocabulary
<1> HIDE DEF queues
<1> QED
  BY <1>1, <1>2, <1>3, <1>4, <1>5, Vocabulary, BecomeSafe

LEMMA LinkStepSafe ==
  ASSUME IndInv, NEW g \in Guests, LinkStep(g)
  PROVE  IndInv'
<1>1. /\ state \in SessionState /\ Consistent(state) /\ g \in Participants
      /\ link \in [Guests -> LinkStates]
  BY Vocabulary DEF Guests
<1>2. \A h \in named : link[h] \in {"up", "lost"} => h \in Open(link)
  BY Vocabulary DEF Open
<1>3. CASE Invite(g)
  <2> DEFINE links == [link EXCEPT ![g] = "invited"]
  <2>1. Evolves(state, Joined(state, g, FALSE, FALSE))
    BY <1>1, JoinedEvolves
  <2>2. g \notin named /\ links \in [Guests -> LinkStates]
    BY <1>3, Vocabulary DEF Invite, LinkStates
  <2>3. \A h \in named : links[h] = link[h]
    BY <2>2, Vocabulary
  <2>4. Change(Joined(state, g, FALSE, FALSE), links) /\ UNCHANGED <<view, welcomed, up>>
    BY <1>3 DEF Invite
  <2> HIDE DEF links
  <2> QED
    BY <1>2, <2>1, <2>2, <2>3, <2>4, Vocabulary, ChangeSafe
<1>4. CASE Connect(g)
  <2> DEFINE links == [link EXCEPT ![g] = IF @ = "invited" THEN "linked" ELSE "up"]
  <2>1. Evolves(state, Connected(state, g, TRUE))
    BY <1>1, ConnectedEvolves
  <2>2. links \in [Guests -> LinkStates]
    BY <1>1 DEF LinkStates
  <2>3. \A h \in named : /\ links[h] \in {"up", "lost", "gone"}
                         /\ links[h] \in {"up", "lost"} => h \in Open(link)
    BY <1>1, <1>2, <1>4, Vocabulary DEF Connect
  <2>4. Change(Connected(state, g, TRUE), links) /\ UNCHANGED <<view, welcomed, up>>
    BY <1>4 DEF Connect
  <2> HIDE DEF links
  <2> QED
    BY <2>1, <2>2, <2>3, <2>4, Vocabulary, ChangeSafe
<1>5. CASE OpenChannel(g)
  BY <1>5, OpenChannelSafe
<1>6. CASE Disconnect(g)
  <2> DEFINE links == [link EXCEPT ![g] = "lost"]
  <2>1. Evolves(state, Connected(state, g, FALSE))
    BY <1>1, ConnectedEvolves
  <2>2. links \in [Guests -> LinkStates]
    BY <1>1 DEF LinkStates
  <2>3. \A h \in named : /\ links[h] \in {"up", "lost", "gone"}
                         /\ links[h] \in {"up", "lost"} => h \in Open(link)
    BY <1>1, <1>2, <1>6, Vocabulary DEF Disconnect, Open
  <2>4. Change(Connected(state, g, FALSE), links) /\ UNCHANGED <<view, welcomed, up>>
    BY <1>6 DEF Disconnect
  <2> HIDE DEF links
  <2> QED
    BY <2>1, <2>2, <2>3, <2>4, Vocabulary, ChangeSafe
<1>7. CASE Remove(g)
  BY <1>7, RemoveSafe
<1> QED
  BY <1>3, <1>4, <1>5, <1>6, <1>7 DEF LinkStep

-----------------------------------------------------------------------------
(* Guests ask and read.                                                    *)
LEMMA AskSafe ==
  ASSUME IndInv, NEW g \in Guests, NEW message \in Upward, Ask(g, message)
  PROVE  IndInv'
<1>1. /\ up[g] \in Seq(Upward) /\ Len(up[g]) \in Nat /\ Len(up[g]) < MaxUp
      /\ up' = [up EXCEPT ![g] = Append(@, message)]
  BY Vocabulary DEF Ask
<1>2. Append(up[g], message) \in Seq(Upward) /\ Len(Append(up[g], message)) <= MaxUp
  BY <1>1, AppendProperties
<1>3. up' \in [Guests -> Seq(Upward)] /\ \A h \in Guests : Len(up'[h]) <= MaxUp
  BY <1>1, <1>2, Vocabulary
<1>4. UNCHANGED <<state, link, named, feed, uplink, view, welcomed, down, watch, program>>
  BY DEF Ask
<1> QED
  BY <1>3, <1>4, Vocabulary, QuietSafe DEF Quiet

LEMMA ReceiveSafe ==
  ASSUME IndInv, NEW g \in Guests, Receive(g)
  PROVE  IndInv'
<1> DEFINE message == Head(down[g])
           rest == Tail(down[g])
           next == Accepted(view[g], message.state)
<1>1. /\ down[g] \in Seq(Message) /\ down[g] # << >>
      /\ down' = [down EXCEPT ![g] = rest]
      /\ view' = [view EXCEPT ![g] = next]
      /\ welcomed' = welcomed \cup IF message.welcome THEN {g} ELSE {}
      /\ uplink' = uplink \/ uplink' = [uplink EXCEPT ![g] = UplinkFor(next, g)]
      /\ UNCHANGED <<state, link, named, feed, up, watch, program>>
  BY DEF Receive, IndInv, TypeOK
<1>2. /\ 1 \in DOMAIN down[g] /\ message = down[g][1] /\ message \in Message
      /\ rest \in Seq(Message) /\ Len(rest) = Len(down[g]) - 1 /\ Len(rest) \in Nat
      /\ \A k \in DOMAIN rest : k + 1 \in DOMAIN down[g] /\ rest[k] = down[g][k + 1]
      /\ DOMAIN rest = 1 .. Len(down[g]) - 1
  BY <1>1, HeadTailProperties, ElementOfSeq
<1>3. Revised(message.state) /\ message.state \in SessionState
  BY <1>2, MailFacts DEF Message
<1>4. view[g] \in SessionState /\ Revised(view[g])
  BY DEF IndInv, TypeOK, OneStatePerRevision
<1>5. next \in SessionState /\ Revised(next)
  BY <1>3, <1>4 DEF Accepted
<1>6. message.state = state => next = state
  BY <1>3, <1>4 DEF Accepted, Revised, SessionState
<1> HIDE DEF next, rest
<1>7. TypeOK'
  <2>1. view' \in [Guests -> SessionState] /\ down' \in [Guests -> Seq(Message)]
    BY <1>1, <1>2, <1>5 DEF IndInv, TypeOK
  <2>2. \A h \in Guests : Len(down'[h]) <= MaxDown
    <3>1. Len(down[g]) \in Nat /\ Len(down[g]) <= MaxDown
      BY <1>1 DEF IndInv, TypeOK
    <3> QED
      BY <1>1, <1>2, <3>1 DEF IndInv, TypeOK
  <2>3. uplink' \in [Participants -> {"local", "full"}]
    <3>1. UplinkFor(next, g) \in {"local", "full"}
      BY <1>5, FeedFacts DEF Guests
    <3> QED
      BY <1>1, <3>1, Vocabulary
  <2>4. welcomed' \subseteq Guests
    BY <1>1 DEF IndInv, TypeOK
  <2> QED
    BY <1>1, <2>1, <2>2, <2>3, <2>4 DEF IndInv, TypeOK
<1>8. TurnsAreConsistent' /\ state'.revision >= 1
  BY <1>1 DEF IndInv, TurnsAreConsistent
<1>9. OneStatePerRevision'
  <2>1. ASSUME NEW h \in Guests
        PROVE  Revised(view[h])'
    <3>1. view'[h] = IF h = g THEN next ELSE view[h]
      BY <1>1 DEF IndInv, TypeOK
    <3>2. Revised(view[h])
      BY DEF IndInv, OneStatePerRevision
    <3> QED
      BY <1>1, <1>5, <3>1, <3>2 DEF Revised
  <2>2. ASSUME NEW h \in Guests, NEW k \in DOMAIN down'[h]
        PROVE  Revised(down[h][k].state)'
    <3>1. down'[h] = IF h = g THEN rest ELSE down[h]
      BY <1>1 DEF IndInv, TypeOK
    <3>2. \E j \in DOMAIN down[h] : down'[h][k] = down[h][j]
      BY <1>2, <3>1
    <3>3. Revised(down'[h][k].state)
      BY <3>2, MailFacts
    <3> QED
      BY <1>1, <3>3 DEF Revised
  <2> QED
    BY <2>1, <2>2 DEF OneStatePerRevision
<1>10. Currency'
  <2>1. \A h \in named' : link'[h] \in {"up", "lost", "gone"}
    BY <1>1 DEF IndInv, Currency
  <2>2. welcomed' \subseteq named'
    BY <1>1, <1>2 DEF IndInv, Currency
  <2>3. ASSUME NEW h \in Guests, NEW k \in DOMAIN down'[h]
        PROVE  down'[h][k].welcome => h \in named'
    <3>1. down'[h] = IF h = g THEN rest ELSE down[h]
      BY <1>1 DEF IndInv, TypeOK
    <3>2. \E j \in DOMAIN down[h] : down'[h][k] = down[h][j]
      BY <1>2, <3>1
    <3> QED
      BY <1>1, <3>2 DEF IndInv, Currency
  <2>4. ASSUME NEW h \in Guests
        PROVE  Latest(h) = state => Latest(h)' = state
    <3>1. CASE h # g
      BY <1>1, <3>1 DEF Latest, IndInv, TypeOK
    <3>2. CASE h = g /\ Len(down[g]) = 1
      <4>1. Latest(g) = message.state /\ rest = << >>
        BY <1>1, <1>2, <3>2 DEF Latest
      <4>2. Latest(g)' = next
        BY <1>1, <4>1 DEF Latest, IndInv, TypeOK
      <4> QED
        BY <1>6, <3>2, <4>1, <4>2
    <3>3. CASE h = g /\ Len(down[g]) # 1
      <4>1. rest # << >> /\ Len(rest) \in DOMAIN rest
            /\ rest[Len(rest)] = down[g][Len(down[g])]
        <5>1. Len(down[g]) \in Nat /\ Len(down[g]) > 1
          <6>1. Len(down[g]) \in Nat
            BY <1>1
          <6>2. Len(down[g]) - 1 \in Nat
            BY <1>2
          <6>3. \A n \in Nat : n - 1 \in Nat /\ n # 1 => n > 1
            OBVIOUS
          <6> QED
            BY <3>3, <6>1, <6>2, <6>3, Zenon
        <5>2. Len(rest) \in DOMAIN rest /\ Len(rest) + 1 = Len(down[g])
          BY <1>2, <5>1
        <5> QED
          BY <1>2, <5>1, <5>2
      <4>2. Latest(g)' = rest[Len(rest)].state
        BY <1>1, <4>1 DEF Latest, IndInv, TypeOK
      <4> QED
        BY <1>1, <3>3, <4>1, <4>2 DEF Latest
    <3> QED
      BY <3>1, <3>2, <3>3
  <2>5. Open(link)' = Open(link)
    BY <1>1 DEF Open
  <2> QED
    BY <1>1, <2>1, <2>2, <2>3, <2>4, <2>5 DEF IndInv, Currency, TypeOK
<1> QED
  BY <1>7, <1>8, <1>9, <1>10 DEF IndInv

LEMMA GuestStepSafe ==
  ASSUME IndInv, NEW g \in Guests, GuestStep(g)
  PROVE  IndInv'
<1>1. CASE PressNext(g)
  <2>1. [ask |-> "next"] \in Upward
    BY DEF Upward
  <2> QED
    BY <1>1, <2>1, AskSafe DEF PressNext
<1>2. CASE PressRelease(g)
  <2>1. [ask |-> "releasePrevious"] \in Upward
    BY DEF Upward
  <2> QED
    BY <1>2, <2>1, AskSafe DEF PressRelease
<1>3. CASE Receive(g)
  BY <1>3, ReceiveSafe
<1>4. ASSUME NEW p \in Participants, PressPick(g, p)
      PROVE  IndInv'
  <2>1. [ask |-> "setNext", target |-> p] \in Upward
    BY DEF Upward
  <2> QED
    BY <1>4, <2>1, AskSafe DEF PressPick
<1>5. ASSUME NEW audible \in BOOLEAN, Report(g, audible)
      PROVE  IndInv'
  <2>1. [ask |-> "report", audible |-> audible] \in Upward
    BY DEF Upward
  <2> QED
    BY <1>5, <2>1, AskSafe DEF Report
<1> QED
  BY <1>1, <1>2, <1>3, <1>4, <1>5 DEF GuestStep

-----------------------------------------------------------------------------
(* The host answers.                                                       *)
LEMMA RequestFacts ==
  ASSUME IndInv, NEW g \in Guests, up[g] # << >>
  PROVE  /\ Head(up[g]) \in Upward
         /\ [up EXCEPT ![g] = Tail(@)] \in [Guests -> Seq(Upward)]
         /\ \A h \in Guests : Len([up EXCEPT ![g] = Tail(@)][h]) <= MaxUp
<1>1. up[g] \in Seq(Upward) /\ Len(up[g]) <= MaxUp
  BY Vocabulary
<1>2. /\ Head(up[g]) \in Upward /\ Tail(up[g]) \in Seq(Upward)
      /\ Len(Tail(up[g])) <= MaxUp
  BY <1>1, HeadTailProperties
<1> QED
  BY <1>2, Vocabulary

LEMMA HelloSafe ==
  ASSUME IndInv, NEW g \in Guests, Hello(g)
  PROVE  IndInv'
<1> DEFINE s == Joined(state, g, TRUE, g \notin named)
           welcome == [welcome |-> TRUE, state |-> s]
           names == named \cup {g}
           queues == [Broadcast(s, link) EXCEPT ![g] = Append(@, welcome)]
<1>1. /\ link[g] = "up" /\ up[g] # << >> /\ up' = [up EXCEPT ![g] = Tail(@)]
      /\ Become(s, link, names, queues) /\ UNCHANGED <<view, welcomed>>
  BY DEF Hello, Asked, Taken
<1>2. Evolves(state, s)
  BY Vocabulary, JoinedEvolves DEF Guests
<1> HIDE DEF s
<1>3. welcome \in Message /\ welcome.state = s
  BY <1>2 DEF Message, Evolves
<1> HIDE DEF welcome
<1>4. Delivers(queues, s, link, names)
  <2> DEFINE all == Broadcast(s, link)
  <2>1. Delivers(all, s, link, named)
    BY <1>2, BroadcastDelivers
  <2>2. all \in [Guests -> Seq(Message)] /\ all[g] \in Seq(Message)
    BY <2>1 DEF Delivers
  <2>3. /\ queues \in [Guests -> Seq(Message)] /\ queues[g] = Append(all[g], welcome)
        /\ \A h \in Guests \ {g} : queues[h] = all[h]
    BY <2>2, <1>3, AppendedMail
  <2> HIDE DEF all, queues
  <2>4. ASSUME NEW h \in Guests, NEW k \in DOMAIN queues[h]
        PROVE  /\ queues[h][k].state = s \/ queues[h][k].state.revision < s.revision
               /\ queues[h][k].welcome => h \in names
    <3>1. CASE h = g
      <4>1. queues[g][k] = welcome \/ (k \in DOMAIN all[g] /\ queues[g][k] = all[g][k])
        BY <3>1, <2>2, <2>3, <1>3, AppendedMail
      <4> QED
        BY <3>1, <4>1, <2>1, <1>3 DEF Delivers
    <3>2. CASE h # g
      <4>1. queues[h] = all[h] /\ k \in DOMAIN all[h]
        BY <3>2, <2>3
      <4> QED
        BY <4>1, <2>1 DEF Delivers
    <3> QED
      BY <3>1, <3>2
  <2>5. ASSUME NEW h \in Guests, h \in Open(link)
        PROVE  queues[h] # << >> /\ queues[h][Len(queues[h])].state = s
    <3>1. CASE h = g
      BY <3>1, <2>2, <2>3, <1>3, AppendedMail
    <3>2. CASE h # g
      <4>1. queues[h] = all[h]
        BY <3>2, <2>3
      <4> QED
        BY <4>1, <2>1, <2>5 DEF Delivers
    <3> QED
      BY <3>1, <3>2
  <2> QED
    BY <2>3, <2>4, <2>5 DEF Delivers
<1>5. /\ names \in SUBSET Guests /\ named \subseteq names
      /\ \A h \in names : link[h] \in {"up", "lost", "gone"}
  BY <1>1, Vocabulary
<1>6. up' \in [Guests -> Seq(Upward)] /\ \A h \in Guests : Len(up'[h]) <= MaxUp
  BY <1>1, RequestFacts
<1> HIDE DEF queues, names
<1> QED
  BY <1>1, <1>2, <1>4, <1>5, <1>6, Vocabulary, BecomeSafe

LEMMA GrantedEvolves ==
  ASSUME IndInv, NEW g \in Guests, up[g] # << >>
  PROVE  Evolves(state, Granted(g))
<1> DEFINE m == Head(up[g])
<1>1. m \in Upward /\ state \in SessionState /\ Consistent(state)
  BY RequestFacts, Vocabulary
<1> HIDE DEF m
<1>2. Evolves(state, state)
  BY <1>1 DEF Evolves
<1>3. CASE m.ask = "next" /\ CanAdvance(state, g)
  BY <1>1, <1>3, AdvancedEvolves DEF Granted, CanAdvance, m
<1>4. CASE m.ask = "releasePrevious" /\ CanRelease(state, g)
  BY <1>1, <1>4, ReleasedEvolves DEF Granted, m
<1>5. CASE m.ask = "setNext" /\ g = state.onAir /\ Pickable(state, m.target)
  <2>1. m.target \in Someone
    BY <1>1, <1>5 DEF Upward, Someone
  <2>2. Granted(g) = Picked(state, m.target)
    BY <1>5 DEF Granted, m
  <2> QED
    BY <1>1, <1>5, <2>1, <2>2, PickedEvolves
<1>6. CASE /\ ~(m.ask = "next" /\ CanAdvance(state, g))
           /\ ~(m.ask = "releasePrevious" /\ CanRelease(state, g))
           /\ ~(m.ask = "setNext" /\ g = state.onAir /\ Pickable(state, m.target))
  <2>1. Granted(g) = state
    BY <1>6 DEF Granted, m
  <2> QED
    BY <1>2, <2>1
<1> QED
  BY <1>3, <1>4, <1>5, <1>6

LEMMA HandleSafe ==
  ASSUME IndInv, NEW g \in Guests, Handle(g)
  PROVE  IndInv'
<1>1. \A h \in named : link[h] \in {"up", "lost"} => h \in Open(link)
  BY Vocabulary DEF Open
<1>2. CASE Hello(g)
  BY <1>2, HelloSafe
<1>3. CASE Request(g)
  <2>1. /\ up[g] # << >> /\ up' = [up EXCEPT ![g] = Tail(@)]
        /\ Change(Granted(g), link) /\ UNCHANGED <<view, welcomed>>
    BY <1>3 DEF Request, Asked, Taken
  <2>2. up' \in [Guests -> Seq(Upward)] /\ \A h \in Guests : Len(up'[h]) <= MaxUp
    BY <2>1, RequestFacts
  <2> QED
    BY <1>1, <2>1, <2>2, GrantedEvolves, Vocabulary, ChangeSafe
<1>4. CASE Listen(g)
  <2>1. /\ up[g] # << >> /\ Head(up[g]).ask = "report"
        /\ up' = [up EXCEPT ![g] = Tail(@)] /\ UNCHANGED <<view, welcomed>>
    BY <1>4 DEF Listen, Asked, Taken
  <2>2. up' \in [Guests -> Seq(Upward)] /\ \A h \in Guests : Len(up'[h]) <= MaxUp
    BY <2>1, RequestFacts
  <2>3. Head(up[g]).audible \in BOOLEAN
    BY <2>1, RequestFacts DEF Upward
  <2>4. CASE g = state.onAir
    <3>1. PICK w \in Observations(Head(up[g]).audible) : Observe(w)
      BY <1>4, <2>4 DEF Listen
    <3> QED
      BY <2>1, <2>2, <2>3, <3>1, ObserveSafe
  <2>5. CASE g # state.onAir
    <3>1. Change(state, link) /\ Evolves(state, state)
      BY <1>4, <2>5, Vocabulary DEF Listen, Evolves
    <3> QED
      BY <1>1, <2>1, <2>2, <3>1, Vocabulary, ChangeSafe
  <2> QED
    BY <2>4, <2>5
<1> QED
  BY <1>2, <1>3, <1>4 DEF Handle

LEMMA RenderSafe ==
  ASSUME IndInv, Render
  PROVE  IndInv'
<1>1. program' \in Programs
  <2>1. Spliced(program) \in Programs
    BY Vocabulary, ProgramFacts DEF Someone
  <2>2. Silent \in Programs
    BY DEF Silent, Programs, Someone
  <2> QED
    BY <2>1, <2>2 DEF Render
<1>2. UNCHANGED <<state, link, named, feed, uplink, view, welcomed, down, up, watch>>
  BY DEF Render
<1> QED
  BY <1>1, <1>2, Vocabulary, QuietSafe DEF Quiet

-----------------------------------------------------------------------------
LEMMA InitSafe ==
  ASSUME Init
  PROVE  IndInv
<1>1. /\ state \in SessionState /\ Consistent(state) /\ state.revision = 1
      /\ EmptySession(FALSE) \in SessionState
  BY EmptySessionFacts DEF Init
<1>2. NoView \in SessionState /\ NoView.revision = 0
  BY <1>1 DEF NoView, SessionState
<1>3. /\ named = {} /\ welcomed = {} /\ link = [g \in Guests |-> "none"]
      /\ down = [g \in Guests |-> << >>] /\ up = [g \in Guests |-> << >>]
      /\ view = [g \in Guests |-> NoView]
  BY DEF Init
<1>4. TypeOK
  <2>1. feed \in [Participants -> Someone] /\ program \in Programs
    BY DEF Init, Silent, Programs, Someone
  <2>2. uplink \in [Participants -> {"local", "full"}]
    BY <1>1, FeedFacts DEF Init
  <2>3. watch \in [heard : BOOLEAN, silent : BOOLEAN]
    BY DEF Init, Unheard
  <2>4. /\ down \in [Guests -> Seq(Message)] /\ up \in [Guests -> Seq(Upward)]
        /\ \A g \in Guests : Len(down[g]) <= MaxDown /\ Len(up[g]) <= MaxUp
    BY <1>3
  <2> QED
    BY <1>1, <1>2, <1>3, <2>1, <2>2, <2>3, <2>4 DEF TypeOK, Programs
<1>5. OneStatePerRevision
  BY <1>1, <1>2, <1>3 DEF OneStatePerRevision, Revised
<1>6. Currency
  BY <1>3 DEF Currency
<1> QED
  BY <1>1, <1>4, <1>5, <1>6 DEF IndInv, TurnsAreConsistent

LEMMA StepSafe ==
  ASSUME IndInv, [Next]_vars
  PROVE  IndInv'
<1>1. CASE HostStep
  BY <1>1, HostStepSafe
<1>2. CASE Render
  BY <1>2, RenderSafe
<1>3. ASSUME NEW g \in Guests, LinkStep(g)
      PROVE  IndInv'
  BY <1>3, LinkStepSafe
<1>4. ASSUME NEW g \in Guests, GuestStep(g)
      PROVE  IndInv'
  BY <1>4, GuestStepSafe
<1>5. ASSUME NEW g \in Guests, Handle(g)
      PROVE  IndInv'
  BY <1>5, HandleSafe
<1>6. CASE UNCHANGED vars
  BY <1>6, Vocabulary, QuietSafe DEF Quiet, vars
<1> QED
  BY <1>1, <1>2, <1>3, <1>4, <1>5, <1>6 DEF Next

(* Every state a session reaches satisfies the invariant.                  *)
THEOREM LinkInvariance == Spec => []IndInv
<1>1. Init => IndInv
  BY InitSafe
<1>2. IndInv /\ [Next]_vars => IndInv'
  BY StepSafe
<1> QED
  BY <1>1, <1>2, PTL DEF Spec

(* However often DJs join, leave, are reordered and hand over, every       *)
(* variable keeps its type; above all the order names nobody twice.        *)
THEOREM LinkTypeCorrect == Spec => []TypeOK
<1>1. IndInv => TypeOK
  BY DEF IndInv
<1> QED
  BY <1>1, LinkInvariance, PTL

(* turns.ts keeps a pick and a tail only while they can be played: no      *)
(* sequence of joins, leaves, reorders, picks, handoffs, releases and      *)
(* stops leaves a pick on air or outside the order, or a tail of nobody's. *)
THEOREM Consistency == Spec => []TurnsAreConsistent
<1>1. IndInv => TurnsAreConsistent
  BY DEF IndInv
<1> QED
  BY <1>1, LinkInvariance, PTL

(* A revision names one state: what a guest shows, or is about to be told, *)
(* is what the host decided under that number, and never ahead of it.      *)
THEOREM Agreement == Spec => []OneStatePerRevision
<1>1. IndInv => OneStatePerRevision
  BY DEF IndInv
<1> QED
  BY <1>1, LinkInvariance, PTL

(* The host broadcasts every change to every open channel and a guest      *)
(* accepts by revision alone, so one that has read all its mail, also      *)
(* after a lost connection, shows the host's state.                        *)
THEOREM Convergence == Spec => []ViewsAreCurrent
<1>1. IndInv => ViewsAreCurrent
  BY DEF IndInv, Currency, ViewsAreCurrent, Latest
<1> QED
  BY <1>1, LinkInvariance, PTL

-----------------------------------------------------------------------------
(* The host relays into a J deck what the turns say or nothing at all: a   *)
(* guest that joined or left since the last change has no feed.            *)
FeedsFollow == \A p \in Participants : feed[p] \in {NoOne, FeedFor(state, p)}

LEMMA BecomeRelays ==
  ASSUME NEW s, NEW links, NEW names, NEW queues, Become(s, links, names, queues)
  PROVE  FeedsFollow'
BY DEF Become, Routed, FeedsFollow

LEMMA ChangeRelays ==
  ASSUME FeedsFollow, NEW s, NEW links, Change(s, links)
  PROVE  FeedsFollow'
<1>1. CASE s = state
  BY <1>1 DEF Change, FeedsFollow
<1>2. CASE s # state
  BY <1>2, BecomeRelays DEF Change
<1> QED
  BY <1>1, <1>2

LEMMA ObserveRelays ==
  ASSUME FeedsFollow, NEW w, Observe(w)
  PROVE  FeedsFollow'
<1>1. CASE w[2]
  BY <1>1, ChangeRelays DEF Observe
<1>2. CASE ~w[2]
  BY <1>2 DEF Observe, FeedsFollow
<1> QED
  BY <1>1, <1>2

LEMMA StepRelays ==
  ASSUME FeedsFollow, [Next]_vars
  PROVE  FeedsFollow'
<1>1. CASE HostStep
  <2>1. ASSUME NEW s, HostChange(s)
        PROVE  FeedsFollow'
    BY <2>1, ChangeRelays DEF HostChange
  <2>2. CASE HostListens
    BY <2>2, ObserveRelays DEF HostListens
  <2>3. CASE HostNext \/ HostRelease \/ HostStop \/ HostMoves
    BY <2>1, <2>3 DEF HostNext, HostRelease, HostStop, HostMoves
  <2>4. ASSUME NEW p \in Participants, HostPick(p)
        PROVE  FeedsFollow'
    BY <2>1, <2>4 DEF HostPick
  <2>5. ASSUME NEW plays \in BOOLEAN, HostPlays(plays)
        PROVE  FeedsFollow'
    BY <2>1, <2>5 DEF HostPlays
  <2> QED
    BY <1>1, <2>2, <2>3, <2>4, <2>5 DEF HostStep
<1>2. ASSUME NEW g \in Guests, LinkStep(g)
      PROVE  FeedsFollow'
  <2>1. CASE Invite(g)
    BY <2>1, ChangeRelays DEF Invite
  <2>2. CASE Connect(g)
    BY <2>2, ChangeRelays DEF Connect
  <2>3. CASE OpenChannel(g)
    BY <2>3 DEF OpenChannel, FeedsFollow
  <2>4. CASE Disconnect(g)
    BY <2>4, ChangeRelays DEF Disconnect
  <2>5. CASE Remove(g)
    BY <2>5, BecomeRelays DEF Remove
  <2> QED
    BY <1>2, <2>1, <2>2, <2>3, <2>4, <2>5 DEF LinkStep
<1>3. ASSUME NEW g \in Guests, GuestStep(g)
      PROVE  FeedsFollow'
  <2>1. UNCHANGED <<state, feed>>
    BY <1>3 DEF GuestStep, PressNext, PressRelease, PressPick, Report, Ask, Receive
  <2> QED
    BY <2>1 DEF FeedsFollow
<1>4. ASSUME NEW g \in Guests, Handle(g)
      PROVE  FeedsFollow'
  <2>1. CASE Hello(g)
    BY <2>1, BecomeRelays DEF Hello
  <2>2. CASE Request(g)
    BY <2>2, ChangeRelays DEF Request
  <2>3. CASE Listen(g)
    BY <2>3, ObserveRelays, ChangeRelays DEF Listen
  <2> QED
    BY <1>4, <2>1, <2>2, <2>3 DEF Handle
<1>5. CASE Render \/ UNCHANGED vars
  BY <1>5 DEF Render, vars, FeedsFollow
<1> QED
  BY <1>1, <1>2, <1>3, <1>4, <1>5 DEF Next

(* Who is heard in p's J deck, over as many relays as there are DJs.       *)
Fed(q) == IF feed[q] # NoOne /\ Sends(feed[q]) THEN {feed[q]} ELSE {}
Further(heard) == heard \cup UNION {Fed(q) : q \in {r \in heard : uplink[r] = "full"}}
Hearing(p, N, f) ==
    f = [n \in 0 .. N |-> IF n = 0 THEN Fed(p) ELSE Further(f[n - 1])]

LEMMA HearingExists ==
  ASSUME NEW p, NEW N \in Nat
  PROVE  \E f : Hearing(p, N, f)
<1> DEFINE Short == {n \in Nat : ~ \E f : Hearing(p, n, f)}
<1>1. SUFFICES ASSUME Short # {} PROVE FALSE
  OBVIOUS
<1>2. PICK n \in Short : \A m \in Short : n <= m
  BY <1>1, LeastExists
<1>3. CASE n = 0
  <2> DEFINE f == [k \in 0 .. 0 |-> Fed(p)]
  <2>1. \A k \in 0 .. 0 : k = 0
    OBVIOUS
  <2>2. f = [k \in 0 .. 0 |-> IF k = 0 THEN Fed(p) ELSE Further(f[k - 1])]
    BY <2>1, Zenon
  <2>3. Hearing(p, 0, f)
    BY <2>2 DEF Hearing
  <2> QED
    BY <1>2, <1>3, <2>3
<1>4. CASE n # 0
  <2>1. n - 1 \in Nat /\ n \in Nat /\ ~(n <= n - 1)
    BY <1>2, <1>4
  <2>2. PICK e : Hearing(p, n - 1, e)
    BY <1>2, <2>1
  <2> DEFINE f == [k \in 0 .. n |-> IF k = 0 THEN Fed(p) ELSE Further(e[k - 1])]
  <2>3. ASSUME NEW k \in 0 .. n, k # 0
        PROVE  f[k - 1] = e[k - 1]
    <3>1. k - 1 \in 0 .. n /\ k - 1 \in 0 .. n - 1
      BY <2>1, <2>3
    <3>2. e = [j \in 0 .. n - 1 |-> IF j = 0 THEN Fed(p) ELSE Further(e[j - 1])]
      BY <2>2 DEF Hearing
    <3>3. e[k - 1] = IF k - 1 = 0 THEN Fed(p) ELSE Further(e[(k - 1) - 1])
      BY <3>1, <3>2, Zenon
    <3>4. f[k - 1] = IF k - 1 = 0 THEN Fed(p) ELSE Further(e[(k - 1) - 1])
      BY <3>1, Zenon
    <3> QED
      BY <3>3, <3>4, Zenon
  <2>4. f = [k \in 0 .. n |-> IF k = 0 THEN Fed(p) ELSE Further(f[k - 1])]
    <3> DEFINE F(k) == IF k = 0 THEN Fed(p) ELSE Further(e[k - 1])
               G(k) == IF k = 0 THEN Fed(p) ELSE Further(f[k - 1])
    <3>1. \A k \in 0 .. n : F(k) = G(k)
      BY <2>3, Zenon
    <3> QED
      BY <3>1, Zenon
  <2>5. Hearing(p, n, f)
    BY <2>4, Zenon DEF Hearing
  <2> QED
    BY <1>2, <2>5
<1> QED
  BY <1>3, <1>4

LEMMA ReachesIs ==
  ASSUME NEW p
  PROVE  Reaches(p) = (CHOOSE f : Hearing(p, Cardinality(Participants), f))[Cardinality(Participants)]
BY Zenon DEF Reaches, Hearing, Further, Fed

(* What holds of the one fed into p's J deck, and passes from a DJ to the  *)
(* one fed into theirs, holds of everybody heard there.                    *)
LEMMA HeardWithin ==
  ASSUME NEW p, NEW within, Fed(p) \subseteq within, \A q \in within : Fed(q) \subseteq within
  PROVE  Reaches(p) \subseteq within
<1> DEFINE N == Cardinality(Participants)
           f == CHOOSE g : Hearing(p, N, g)
<1>1. N \in Nat
  BY FinitelyMany, FS_CardinalityType
<1>2. Hearing(p, N, f)
  BY <1>1, HearingExists, Zenon
<1>3. Reaches(p) = f[N]
  BY ReachesIs, Zenon
<1> HIDE DEF f, N
<1>4. \A n \in 0 .. N : f[n] = IF n = 0 THEN Fed(p) ELSE Further(f[n - 1])
  BY <1>2, Zenon DEF Hearing
<1> DEFINE Outside == {n \in 0 .. N : ~(f[n] \subseteq within)}
<1>5. ASSUME Outside # {} PROVE FALSE
  <2>0. Outside \in SUBSET Nat
    OBVIOUS
  <2>1. PICK n \in Outside : \A m \in Outside : n <= m
    BY <1>5, <2>0, LeastExists
  <2>2. CASE n = 0
    BY <1>1, <1>4, <2>1, <2>2
  <2>3. CASE n # 0
    <3>1. n - 1 \in 0 .. N /\ ~(n <= n - 1) /\ n \in 0 .. N
      BY <1>1, <2>1, <2>3
    <3>2. f[n - 1] \subseteq within
      BY <2>1, <3>1
    <3>3. f[n] = Further(f[n - 1])
      BY <1>4, <2>3, <3>1
    <3>4. Further(f[n - 1]) \subseteq within
      <4>1. ASSUME NEW x \in Further(f[n - 1]), x \notin f[n - 1]
            PROVE  \E q \in f[n - 1] : x \in Fed(q)
        BY <4>1 DEF Further
      <4> QED
        BY <3>2, <4>1
    <3> QED
      BY <2>1, <3>3, <3>4
  <2> QED
    BY <2>2, <2>3
<1>6. f[N] \subseteq within
  <2>1. N \in 0 .. N
    BY <1>1
  <2> QED
    BY <1>5, <2>1
<1> QED
  BY <1>3, <1>6

(* A DJ on air is fed the tail of the one before, who is fed nothing; the  *)
(* rest are fed the DJ on air.  Nobody is on the way back to themselves.   *)
LEMMA EchoFree ==
  ASSUME IndInv, FeedsFollow, ~Returning, NEW p \in Participants
  PROVE  p \notin Reaches(p)
<1> DEFINE A == state.onAir
           P == state.previous
<1>1. P # NoOne => P # A
  BY DEF IndInv, TurnsAreConsistent, Consistent
<1>2. A \in Someone /\ P \in Someone
  BY DEF IndInv, TypeOK, SessionState
<1>3. ASSUME NEW q \in Participants
      PROVE  Fed(q) \subseteq IF q = A THEN {P} \ {NoOne}
                              ELSE IF q = P THEN {} ELSE {A} \ {NoOne}
  <2>1. feed[q] \in {NoOne, FeedFor(state, q)}
    BY DEF FeedsFollow
  <2>2. q # NoOne
    BY HostAssumption
  <2>3. CASE q = A
    BY <2>1, <2>3 DEF FeedFor, RoleOf, TailFor, Fed
  <2>4. CASE q # A /\ q = P
    <3>1. RoleOf(state, q) = "previous"
      BY <2>2, <2>4 DEF RoleOf, Returning
    <3>2. FeedFor(state, q) = NoOne
      BY <3>1 DEF FeedFor
    <3> QED
      BY <2>1, <2>4, <3>2 DEF Fed
  <2>5. CASE q # A /\ q # P
    <3>1. RoleOf(state, q) \in {"next", "idle"}
      BY <2>5 DEF RoleOf
    <3>2. FeedFor(state, q) = A
      BY <3>1 DEF FeedFor
    <3> QED
      BY <2>1, <2>5, <3>2 DEF Fed
  <2> QED
    BY <2>3, <2>4, <2>5
<1> DEFINE Before == IF p = A THEN {P} \ {NoOne}
                     ELSE IF p = P THEN {} ELSE {A, P} \ {NoOne}
<1> HIDE DEF A, P
<1>4. Before \subseteq Participants /\ p \notin Before
  BY <1>1, <1>2, HostAssumption DEF Someone
<1>5. Fed(p) \subseteq Before
  BY <1>3
<1>6. \A q \in Before : Fed(q) \subseteq Before
  BY <1>1, <1>3, <1>4
<1> HIDE DEF Before
<1> QED
  BY <1>4, <1>5, <1>6, HeardWithin

(* A DJ's own audio comes back to their J deck only while the one who was  *)
(* on air before is the next one too: in every other state, whoever joins, *)
(* leaves, is lost or late to hear of the turn, the feeds and the uplinks  *)
(* together close no loop.                                                 *)
THEOREM NoEcho == Spec => []EchoNeedsAReturn
<1>1. Init => FeedsFollow
  BY DEF Init, FeedsFollow
<1>2. FeedsFollow /\ [Next]_vars => FeedsFollow'
  BY StepRelays
<1>3. IndInv /\ FeedsFollow => EchoNeedsAReturn
  BY EchoFree DEF EchoNeedsAReturn, NobodyHearsThemselves
<1> QED
  BY <1>1, <1>2, <1>3, LinkInvariance, PTL DEF Spec

=============================================================================
