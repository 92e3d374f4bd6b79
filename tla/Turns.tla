------------------------------- MODULE Turns -------------------------------
(***************************************************************************)
(* The turn state of a Junction v2 session (junction-v2/core/turns.ts): a  *)
(* record owned by the host, and pure operations on it.  A participant is  *)
(* its identifier; of its fields only `connected` matters to the turns.    *)
(* An operation that throws a TurnError is enabled only where it does not. *)
(***************************************************************************)
EXTENDS Naturals, Sequences, FiniteSets

CONSTANTS Participants,  \* identifiers of DJs, the host's included
          Host,          \* the host's identifier
          NoOne          \* null

ASSUME HostAssumption == Host \in Participants /\ NoOne \notin Participants

Someone == Participants \cup {NoOne}

Members(seq) == {seq[k] : k \in DOMAIN seq}
(* A turn order names each DJ once.                                        *)
Orders ==
    {seq \in Seq(Participants) : \A j, k \in DOMAIN seq : seq[j] = seq[k] => j = k}

Position(seq, p) ==
    IF p \in Members(seq) THEN CHOOSE k \in DOMAIN seq : seq[k] = p ELSE 0

Without(seq, p) ==
    IF p \notin Members(seq) THEN seq
    ELSE [k \in 1 .. Len(seq) - 1 |-> IF k < Position(seq, p) THEN seq[k] ELSE seq[k + 1]]

SessionState ==
    [revision : Nat, known : SUBSET Participants, connected : SUBSET Participants,
     order : Orders, onAir : Someone, previous : Someone, nextPick : Someone,
     handoffs : Nat]

EmptySession(plays) ==
    [revision |-> 1, known |-> {Host}, connected |-> {Host},
     order |-> IF plays THEN <<Host>> ELSE << >>,
     onAir |-> NoOne, previous |-> NoOne, nextPick |-> NoOne, handoffs |-> 0]

-----------------------------------------------------------------------------
(* Who goes on air on NEXT: a playable pick, else the first playable DJ    *)
(* after the one on air, around the order and from its head when that one  *)
(* is not in it.                                                           *)
Playable(s, p) == p \in Members(s.order) \cap s.connected

Following(s) ==
    LET After(step) ==
          s.order[((Position(s.order, s.onAir) + step) % Len(s.order)) + 1]
        Steps == {step \in 0 .. Len(s.order) - 1 :
                    After(step) # s.onAir /\ Playable(s, After(step))}
    IN  IF Steps = {} THEN NoOne
        ELSE After(CHOOSE step \in Steps : \A other \in Steps : step <= other)

NextPerformer(s) ==
    IF s.nextPick \notin {NoOne, s.onAir} /\ Playable(s, s.nextPick)
    THEN s.nextPick ELSE Following(s)

RoleOf(s, p) ==
    IF p = s.onAir THEN "onAir"
    ELSE IF p = NextPerformer(s) THEN "next"
    ELSE IF p = s.previous THEN "previous" ELSE "idle"

(* What p sends, and whose uplink the host relays into p's J deck.         *)
UplinkFor(s, p) == IF RoleOf(s, p) \in {"onAir", "next"} THEN "full" ELSE "local"

TailFor(s, p) == IF s.previous \in s.connected \ {p} THEN s.previous ELSE NoOne

FeedForEchoes(s, p) ==
    IF RoleOf(s, p) = "onAir" THEN TailFor(s, p) ELSE s.onAir

FeedFor(s, p) ==
    CASE RoleOf(s, p) = "onAir"    -> TailFor(s, p)
      [] RoleOf(s, p) = "previous" -> NoOne
      [] OTHER                     -> s.onAir

(* The pick is another DJ than the one on air, and in the order; the tail  *)
(* is somebody else's, and of a set that plays.                            *)
Consistent(s) ==
    /\ s.nextPick # NoOne => s.nextPick # s.onAir /\ s.nextPick \in Members(s.order)
    /\ s.previous # NoOne => s.previous # s.onAir /\ s.onAir # NoOne

-----------------------------------------------------------------------------
Bump(s) == [s EXCEPT !.revision = @ + 1]

Joined(s, p, connected, joinOrder) ==
    Bump([s EXCEPT
      !.known = @ \cup {p},
      !.connected = IF connected THEN @ \cup {p} ELSE @ \ {p},
      !.order = IF joinOrder /\ p \notin Members(@) THEN Append(@, p) ELSE @])

ConnectedUnrevised(s, p, on) ==
    [s EXCEPT !.connected = IF on THEN @ \cup {p} ELSE @ \ {p}]
Connected(s, p, on) ==
    IF p \notin s.known \/ (p \in s.connected) = on THEN s
    ELSE Bump(ConnectedUnrevised(s, p, on))

(* A participant that left stays on air until NEXT: the host does not cut. *)
RemovedFromOrder(s, p) ==
    Bump([s EXCEPT !.connected = @ \ {p}, !.order = Without(@, p),
                   !.previous = IF @ = p THEN NoOne ELSE @])
Removed(s, p) ==
    IF p \notin s.known THEN s
    ELSE Bump([s EXCEPT !.connected = @ \ {p}, !.order = Without(@, p),
                        !.previous = IF @ = p THEN NoOne ELSE @,
                        !.nextPick = IF @ = p THEN NoOne ELSE @])

Reordered(s, order) ==
    Bump([s EXCEPT !.order = order,
                   !.nextPick = IF @ \in Members(order) THEN @ ELSE NoOne])

Pickable(s, p) == p = NoOne \/ (p \in Members(s.order) /\ p # s.onAir)
Picked(s, p) == Bump([s EXCEPT !.nextPick = p])

(* The host, the DJ on air and the next one may press NEXT.                *)
CanAdvance(s, by) ==
    NextPerformer(s) # NoOne /\ by \in {Host, s.onAir, NextPerformer(s)}

Advanced(s) ==
    Bump([s EXCEPT !.previous = s.onAir, !.onAir = NextPerformer(s),
                   !.nextPick = NoOne, !.handoffs = @ + 1])

CanRelease(s, by) == s.previous = NoOne \/ by \in {Host, s.onAir}
Released(s) == IF s.previous = NoOne THEN s ELSE Bump([s EXCEPT !.previous = NoOne])

Stopped(s) ==
    Bump([s EXCEPT !.onAir = NoOne, !.previous = NoOne, !.nextPick = NoOne])

(* A guest keeps a broadcast only if it is newer than what it has.         *)
AcceptedByHandoff(current, incoming) ==
    IF current.revision = 0 \/ incoming.handoffs > current.handoffs
    THEN incoming ELSE current
Accepted(current, incoming) ==
    IF incoming.revision > current.revision THEN incoming ELSE current

=============================================================================
