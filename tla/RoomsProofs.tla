------------------------------ MODULE RoomsProofs ------------------------------
(***************************************************************************)
(* Proofs about Rooms, for any connections, rooms, guests, invites and     *)
(* limits: types, the two sides of the registry, what the members have     *)
(* been told, and what an admission and an expiry may do.                  *)
(***************************************************************************)
EXTENDS Rooms, TLAPS

USE NoValues, NoRecords, Limits

(* RegistryAgrees of any pair of maps, one claim per direction.            *)
PeerOf(rm, s) == rm[s.room].peers[s.peer]

SeatsAgree(rm, st) ==
  \A c \in Conns : st[c] # NoSeat =>
    /\ rm[st[c].room] # NoRoom
    /\ PeerOf(rm, st[c]) # NoPeer
    /\ PeerOf(rm, st[c]).conn = c

PeersAgree(rm, st) ==
  \A l \in Locators, p \in PeerIds :
    rm[l] # NoRoom /\ rm[l].peers[p] # NoPeer =>
      /\ rm[l].peers[p].conn # NoConn => st[rm[l].peers[p].conn] = [room |-> l, peer |-> p]
      /\ p # HostPeer => rm[l].peers[p].conn # NoConn

Hosted(room) ==
  /\ room.peers[HostPeer] # NoPeer
  /\ room.peers[HostPeer].accepted
  /\ room.peers[HostPeer].conn = room.hostConn
HostsAgree(rm) == \A l \in Locators : rm[l] # NoRoom => Hosted(rm[l])

RoomMap == [Locators -> Room \cup {NoRoom}]
SeatMap == [Conns -> Seat \cup {NoSeat}]
Report == [standing : {"none", "pending", "member", "host"}, roster : SUBSET PeerIds]
ToldMap == [Conns -> Report]
SockMap == [Conns -> {"closed", "open", "closing"}]

Registry(rm, st) ==
  rm \in RoomMap /\ st \in SeatMap /\ SeatsAgree(rm, st) /\ PeersAgree(rm, st) /\ HostsAgree(rm)

(* GuestsKnowTheirStanding and RosterIsCurrent of any registry, reports    *)
(* and sockets.                                                            *)
Admitted(rm, st, c) == GuestsSeat(st, c) /\ PeerOf(rm, st[c]).accepted

Standing(rm, st, t, c) ==
  /\ t[c].standing = "member" <=> Admitted(rm, st, c)
  /\ t[c].standing = "pending" <=> GuestsSeat(st, c) /\ ~Admitted(rm, st, c)
  /\ Admitted(rm, st, c) => t[c].roster = Accepted(rm[st[c].room])

Informed(rm, st, t, sk) ==
  /\ t \in ToldMap /\ sk \in SockMap
  /\ \A c \in Conns : sk[c] = "open" => Standing(rm, st, t, c)

(* A closed socket has no seat and has been told nothing.                  *)
Gone(st, t, sk) == \A c \in Conns : sk[c] = "closed" => st[c] = NoSeat /\ t[c] = Nothing

IInv ==
  /\ Registry(rooms, seats)
  /\ Informed(rooms, seats, told, sock)
  /\ Gone(seats, told, sock)
  /\ mode \in {"up", "draining", "down"}

-----------------------------------------------------------------------------
(* What the definitions above say of the properties of Rooms.              *)

LEMMA RoomFacts ==
  ASSUME NEW rm \in RoomMap, NEW l \in Locators, rm[l] # NoRoom
  PROVE  /\ rm[l] \in Room
         /\ rm[l].hostConn \in Conns \cup {NoConn}
         /\ rm[l].ttl \in 0 .. Ttl /\ rm[l].inviteTtl \in 0 .. Ttl
         /\ rm[l].invite \in Invites \cup {NoInvite}
         /\ rm[l].peers \in [PeerIds -> Peer \cup {NoPeer}]
         /\ \A p \in PeerIds : rm[l].peers[p] # NoPeer =>
              /\ rm[l].peers[p] \in Peer
              /\ rm[l].peers[p].conn \in Conns \cup {NoConn}
              /\ rm[l].peers[p].accepted \in BOOLEAN
  BY DEF RoomMap, Room, Peer

LEMMA SeatFacts ==
  ASSUME NEW st \in SeatMap, NEW c \in Conns, st[c] # NoSeat
  PROVE  /\ st[c] \in Seat /\ st[c].room \in Locators /\ st[c].peer \in PeerIds
         /\ st[c] = [room |-> st[c].room, peer |-> st[c].peer]
  BY DEF SeatMap, Seat

LEMMA HostIsId == HostPeer \in PeerIds /\ Guests = PeerIds \ {HostPeer}
  BY DEF PeerIds

LEMMA RegistryIsRegistryAgrees ==
  ASSUME rooms \in RoomMap, seats \in SeatMap
  PROVE  Registry(rooms, seats) <=> RegistryAgrees
<1>1. ASSUME Registry(rooms, seats) PROVE RegistryAgrees
  <2>1. ASSUME NEW c \in Conns PROVE SeatNamesPeer(c)
    BY <1>1, <2>1, SeatFacts DEF Registry, SeatsAgree, SeatNamesPeer, Exists, PeerOf, Present
  <2>2. ASSUME NEW l \in Locators, Exists(rooms, l) PROVE HostIsPeer(l)
    BY <1>1, <2>2, HostIsId DEF Registry, HostsAgree, Hosted, PeersAgree, HostIsPeer, Exists,
       Accepted, Present
  <2>3. ASSUME NEW l \in Locators, Exists(rooms, l), NEW p \in Present(rooms[l])
        PROVE  PeerHasSeat(l, p)
    BY <1>1, <2>3 DEF Registry, PeersAgree, PeerHasSeat, Exists, Present
  <2> QED
    BY <2>1, <2>2, <2>3 DEF RegistryAgrees
<1>2. ASSUME RegistryAgrees PROVE Registry(rooms, seats)
  <2>1. SeatsAgree(rooms, seats)
    BY <1>2, SeatFacts DEF RegistryAgrees, SeatsAgree, SeatNamesPeer, Exists, PeerOf, Present
  <2>2. HostsAgree(rooms)
    BY <1>2, HostIsId DEF RegistryAgrees, HostsAgree, Hosted, HostIsPeer, Exists, Accepted, Present
  <2>3. PeersAgree(rooms, seats)
    BY <1>2 DEF RegistryAgrees, PeersAgree, HostIsPeer, PeerHasSeat, Exists, Present
  <2> QED
    BY <2>1, <2>2, <2>3 DEF Registry
<1> QED
  BY <1>1, <1>2

LEMMA InformedIsKnown ==
  ASSUME Registry(rooms, seats), Informed(rooms, seats, told, sock)
  PROVE  GuestsKnowTheirStanding /\ RosterIsCurrent
<1>1. ASSUME NEW c \in Conns, GuestsSeat(seats, c)
      PROVE  seats[c].peer \in Accepted(rooms[seats[c].room]) <=> Admitted(rooms, seats, c)
  <2>1. seats[c] # NoSeat /\ seats[c].peer \in PeerIds
    BY <1>1, SeatFacts DEF GuestsSeat, Registry
  <2> QED
    BY <1>1, <2>1 DEF Registry, SeatsAgree, Accepted, Present, Admitted, PeerOf
<1>2. GuestsKnowTheirStanding
  BY <1>1 DEF GuestsKnowTheirStanding, Informed, Standing, Admitted
<1>3. RosterIsCurrent
  BY <1>1 DEF RosterIsCurrent, Informed, Standing
<1> QED
  BY <1>2, <1>3

-----------------------------------------------------------------------------
(* The sweep                                                               *)

LEMMA EvictedFacts ==
  ASSUME Registry(rooms, seats), NEW c \in Conns
  PROVE  c \in Evicted <=> seats[c] # NoSeat /\ seats[c].room \in Expired
<1>1. ASSUME c \in Evicted PROVE seats[c] # NoSeat /\ seats[c].room \in Expired
  <2>1. PICK l \in Expired : c \in ConnsOf(rooms[l], Present(rooms[l]))
    BY <1>1 DEF Evicted
  <2>2. PICK p \in Present(rooms[l]) : c = rooms[l].peers[p].conn /\ c # NoConn
    BY <2>1 DEF ConnsOf
  <2>3. seats[c] = [room |-> l, peer |-> p]
    BY <2>1, <2>2 DEF Registry, PeersAgree, Expired, Exists, Present
  <2>4. l \in Locators /\ p \in PeerIds
    BY <2>1, <2>2 DEF Expired, Present
  <2>5. seats[c] # NoSeat
    BY <2>3, <2>4 DEF Seat
  <2> QED
    BY <2>1, <2>3, <2>5
<1>2. ASSUME seats[c] # NoSeat, seats[c].room \in Expired PROVE c \in Evicted
  <2>1. seats[c].room \in Locators /\ seats[c].peer \in PeerIds
    BY <1>2, SeatFacts DEF Registry
  <2>2. /\ PeerOf(rooms, seats[c]) # NoPeer /\ PeerOf(rooms, seats[c]).conn = c
        /\ c # NoConn
    BY <1>2 DEF Registry, SeatsAgree
  <2>3. c \in ConnsOf(rooms[seats[c].room], Present(rooms[seats[c].room]))
    BY <2>1, <2>2 DEF ConnsOf, Present, PeerOf
  <2> QED
    BY <1>2, <2>3 DEF Evicted
<1> QED
  BY <1>1, <1>2

LEMMA SweepKeepsRegistry ==
  ASSUME Registry(rooms, seats)
  PROVE  Registry(SweptRooms, SweptSeats)
<1> DEFINE R == SweptRooms
           S == SweptSeats
<1>1. /\ R \in RoomMap
      /\ \A l \in Locators : R[l] = IF l \in Expired THEN NoRoom ELSE rooms[l]
  BY DEF SweptRooms, RoomMap, Registry
<1>2. /\ S \in SeatMap
      /\ \A c \in Conns : S[c] = IF seats[c] # NoSeat /\ seats[c].room \in Expired
                                 THEN NoSeat ELSE seats[c]
  BY EvictedFacts DEF SweptSeats, Forget, SeatMap, Registry
<1> HIDE DEF R, S
<1>3. SeatsAgree(R, S)
  <2> SUFFICES ASSUME NEW c \in Conns, S[c] # NoSeat
               PROVE  /\ R[S[c].room] # NoRoom
                      /\ PeerOf(R, S[c]) # NoPeer /\ PeerOf(R, S[c]).conn = c
    BY DEF SeatsAgree
  <2>1. S[c] = seats[c] /\ seats[c] # NoSeat /\ seats[c].room \notin Expired
    BY <1>2
  <2>2. seats[c].room \in Locators
    BY <2>1, SeatFacts DEF Registry
  <2>3. R[seats[c].room] = rooms[seats[c].room]
    BY <1>1, <2>1, <2>2
  <2> QED
    BY <2>1, <2>3 DEF Registry, SeatsAgree, PeerOf
<1>4. PeersAgree(R, S)
  <2> SUFFICES ASSUME NEW l \in Locators, NEW p \in PeerIds, R[l] # NoRoom,
                      R[l].peers[p] # NoPeer
               PROVE  /\ R[l].peers[p].conn # NoConn =>
                           S[R[l].peers[p].conn] = [room |-> l, peer |-> p]
                      /\ p # HostPeer => R[l].peers[p].conn # NoConn
    BY DEF PeersAgree
  <2>1. R[l] = rooms[l] /\ l \notin Expired
    BY <1>1
  <2>2. rooms[l].peers[p].conn \in Conns \cup {NoConn}
    BY <2>1, RoomFacts DEF Registry
  <2>3. rooms[l].peers[p].conn # NoConn =>
           seats[rooms[l].peers[p].conn] = [room |-> l, peer |-> p]
    BY <2>1 DEF Registry, PeersAgree
  <2>4. rooms[l].peers[p].conn # NoConn =>
           S[rooms[l].peers[p].conn] = [room |-> l, peer |-> p]
    BY <1>2, <2>1, <2>2, <2>3
  <2> QED
    BY <2>1, <2>4 DEF Registry, PeersAgree
<1>5. HostsAgree(R)
  BY <1>1 DEF Registry, HostsAgree
<1> QED
  BY <1>1, <1>2, <1>3, <1>4, <1>5 DEF Registry, R, S

(* A sweep that tells those it evicts keeps everyone informed.             *)
LEMMA SweepKeepsInformed ==
  ASSUME Registry(rooms, seats), Informed(rooms, seats, told, sock), Gone(seats, told, sock)
  PROVE  /\ Informed(SweptRooms, SweptSeats, Notified, sock)
         /\ Gone(SweptSeats, Notified, sock)
<1> DEFINE R == SweptRooms
           S == SweptSeats
           T == Notified
<1>1. \A l \in Locators : R[l] = IF l \in Expired THEN NoRoom ELSE rooms[l]
  BY DEF SweptRooms
<1>2. \A c \in Conns : S[c] = IF c \in Evicted THEN NoSeat ELSE seats[c]
  BY DEF SweptSeats, Forget
<1>3. \A c \in Conns : T[c] = IF c \in Evicted /\ sock[c] = "open" THEN Nothing ELSE told[c]
  BY DEF Notified, Telling, Nothing
<1>4. Nothing \in Report /\ Nothing.standing = "none"
  BY DEF Nothing, Told, Report
<1>5. T \in ToldMap
  BY <1>4 DEF Notified, Telling, Nothing, ToldMap, Informed
<1>6. ASSUME NEW c \in Conns, sock[c] = "open" PROVE Standing(R, S, T, c)
  <2>1. CASE c \in Evicted
    BY <1>2, <1>3, <1>4, <1>6, <2>1 DEF Standing, Admitted, GuestsSeat
  <2>2. CASE c \notin Evicted
    <3>1. S[c] = seats[c] /\ T[c] = told[c]
      BY <1>2, <1>3, <2>2
    <3>2. seats[c] # NoSeat => R[seats[c].room] = rooms[seats[c].room]
      BY <1>1, <2>2, EvictedFacts, SeatFacts DEF Registry
    <3>3. Standing(rooms, seats, told, c)
      BY <1>6 DEF Informed
    <3> QED
      BY <3>1, <3>2, <3>3 DEF Standing, Admitted, GuestsSeat, PeerOf
  <2> QED
    BY <2>1, <2>2
<1>7. Gone(S, T, sock)
  BY <1>2, <1>3 DEF Gone
<1> QED
  BY <1>5, <1>6, <1>7 DEF Informed

-----------------------------------------------------------------------------
(* One lemma per kind of handler, for any registry it may find: the swept  *)
(* one for a frame, the current one for the close of a socket.             *)

Base(rm, st, t) == Registry(rm, st) /\ Informed(rm, st, t, sock) /\ Gone(st, t, sock)

LEMMA SweptBase ==
  ASSUME IInv PROVE Base(SweptRooms, SweptSeats, Notified)
  BY SweepKeepsRegistry, SweepKeepsInformed DEF IInv, Base

(* A change of rooms that leaves their peers and their hosts alone.        *)
LEMMA EditsKeepBase ==
  ASSUME NEW R, NEW S, NEW T, Base(R, S, T), NEW R2 \in RoomMap,
         \A l \in Locators : R2[l] # NoRoom <=> R[l] # NoRoom,
         \A l \in Locators : R[l] # NoRoom =>
            R2[l].peers = R[l].peers /\ R2[l].hostConn = R[l].hostConn
  PROVE  Base(R2, S, T)
<1>1. \A l \in Locators : R2[l] # NoRoom => R2[l].peers = R[l].peers /\ R2[l].hostConn = R[l].hostConn
  OBVIOUS
<1>2. \A c \in Conns : S[c] # NoSeat =>
         /\ S[c].room \in Locators /\ R[S[c].room] # NoRoom
         /\ PeerOf(R2, S[c]) = PeerOf(R, S[c])
         /\ Accepted(R2[S[c].room]) = Accepted(R[S[c].room])
  BY SeatFacts DEF Base, Registry, SeatsAgree, PeerOf, Accepted, Present
<1>3. SeatsAgree(R2, S)
  BY <1>2 DEF Base, Registry, SeatsAgree
<1>4. PeersAgree(R2, S)
  BY <1>1 DEF Base, Registry, PeersAgree
<1>5. HostsAgree(R2)
  BY <1>1 DEF Base, Registry, HostsAgree, Hosted
<1>6. Informed(R2, S, T, sock)
  BY <1>2 DEF Base, Informed, Standing, Admitted, GuestsSeat
<1> QED
  BY <1>3, <1>4, <1>5, <1>6 DEF Base, Registry

(* A new connection takes a seat as the host of a room: what the room was  *)
(* before has the same guests, or did not exist.                           *)
LEMMA HostTakesSeat ==
  ASSUME NEW R, NEW S, NEW T, Base(R, S, T),
         NEW c \in Conns, NEW l \in Locators, NEW X \in Room, NEW gone \in SUBSET Conns,
         S[c] = NoSeat, sock[c] # "closed",
         X.peers[HostPeer] = [conn |-> c, accepted |-> TRUE, invite |-> NoInvite]
           \/ (/\ R[l] # NoRoom
               /\ X.peers[HostPeer] = [R[l].peers[HostPeer] EXCEPT !.conn = c]),
         X.hostConn = c,
         R[l] # NoRoom => /\ \A p \in Guests : X.peers[p] = R[l].peers[p]
                          /\ gone = {R[l].hostConn} \ {NoConn},
         R[l] = NoRoom => /\ \A p \in Guests : X.peers[p] = NoPeer
                          /\ gone = {}
  PROVE  Base([R EXCEPT ![l] = X],
              [Forget(S, gone) EXCEPT ![c] = [room |-> l, peer |-> HostPeer]],
              Telling(T, {c}, "host"))
<1> DEFINE seat == [room |-> l, peer |-> HostPeer]
           R2 == [R EXCEPT ![l] = X]
           S2 == [Forget(S, gone) EXCEPT ![c] = seat]
           T2 == Telling(T, {c}, "host")
<1>1. /\ R2 \in RoomMap /\ R2[l] = X /\ X # NoRoom
      /\ \A k \in Locators \ {l} : R2[k] = R[k]
  BY DEF Base, Registry, RoomMap
<1>2. /\ seat \in Seat /\ seat # NoSeat /\ seat.room = l /\ seat.peer = HostPeer
  BY HostIsId DEF Seat
<1>3. /\ S2 \in SeatMap /\ S2[c] = seat
      /\ \A d \in Conns \ {c} : S2[d] = IF d \in gone THEN NoSeat ELSE S[d]
  BY <1>2 DEF Base, Registry, SeatMap, Forget
<1>4. \A d \in Conns : T2[d] = IF d = c /\ sock[d] = "open" THEN Told("host") ELSE T[d]
  BY DEF Telling
<1>5. Told("host") \in Report /\ Told("host").standing = "host"
  BY DEF Told, Report
<1>6. T2 \in ToldMap
  BY <1>5 DEF Telling, ToldMap, Base, Informed
<1>7. c # NoConn
  OBVIOUS
<1>8. /\ X.peers \in [PeerIds -> Peer \cup {NoPeer}]
      /\ X.peers[HostPeer] # NoPeer /\ X.peers[HostPeer].conn = c /\ X.peers[HostPeer].accepted
  <2>1. CASE X.peers[HostPeer] = [conn |-> c, accepted |-> TRUE, invite |-> NoInvite]
    <3> DEFINE peer == [conn |-> c, accepted |-> TRUE, invite |-> NoInvite]
    <3>1. peer \in Peer /\ peer.conn = c /\ peer.accepted
      BY DEF Peer
    <3>2. X.peers \in [PeerIds -> Peer \cup {NoPeer}]
      BY DEF Room
    <3> HIDE DEF peer
    <3>3. X.peers[HostPeer] = peer
      BY <2>1 DEF peer
    <3> QED
      BY <3>1, <3>2, <3>3
  <2>2. CASE /\ R[l] # NoRoom
             /\ X.peers[HostPeer] = [R[l].peers[HostPeer] EXCEPT !.conn = c]
    <3>1. R[l].peers[HostPeer] \in Peer /\ R[l].peers[HostPeer].accepted
      BY <2>2, RoomFacts, HostIsId DEF Base, Registry, HostsAgree, Hosted
    <3> DEFINE peer == [R[l].peers[HostPeer] EXCEPT !.conn = c]
    <3>2. peer \in Peer /\ peer.conn = c /\ peer.accepted
      BY <3>1 DEF Peer
    <3>3. X.peers \in [PeerIds -> Peer \cup {NoPeer}]
      BY DEF Room
    <3> HIDE DEF peer
    <3>4. X.peers[HostPeer] = peer
      BY <2>2 DEF peer
    <3> QED
      BY <3>2, <3>3, <3>4
  <2> QED
    BY <2>1, <2>2
(* Whoever is displaced was the host of this room.                         *)
<1>9. \A d \in gone : d \in Conns /\ S[d] = seat /\ R[l] # NoRoom
  BY RoomFacts, HostIsId DEF Base, Registry, HostsAgree, Hosted, PeersAgree
<1> HIDE DEF R2, S2, T2, seat
<1>10. \A d \in Conns \ {c} : S2[d] # NoSeat =>
          /\ S2[d] = S[d] /\ S[d] # NoSeat /\ d \notin gone
          /\ S[d].room \in Locators /\ S[d].peer \in PeerIds
          /\ R[S[d].room] # NoRoom /\ PeerOf(R, S[d]) # NoPeer /\ PeerOf(R, S[d]).conn = d
  BY <1>3, SeatFacts DEF Base, Registry, SeatsAgree
<1>11. \A d \in Conns \ {c} : S2[d] # NoSeat => PeerOf(R2, S2[d]) = PeerOf(R, S[d])
  <2> SUFFICES ASSUME NEW d \in Conns \ {c}, S2[d] # NoSeat
               PROVE  PeerOf(R2, S2[d]) = PeerOf(R, S[d])
    OBVIOUS
  <2>1. CASE S[d].room # l
    BY <1>1, <1>10, <2>1 DEF PeerOf
  <2>2. CASE S[d].room = l /\ S[d].peer # HostPeer
    BY <1>1, <1>10, <2>2, HostIsId DEF PeerOf
  <2>3. CASE S[d].room = l /\ S[d].peer = HostPeer
    <3>1. R[l].hostConn = d /\ d # NoConn
      BY <1>10, <2>3 DEF PeerOf, Base, Registry, HostsAgree, Hosted
    <3> QED
      BY <3>1, <1>10, <2>3
  <2> QED
    BY <2>1, <2>2, <2>3
<1>12. SeatsAgree(R2, S2)
  <2> SUFFICES ASSUME NEW d \in Conns, S2[d] # NoSeat
               PROVE  /\ R2[S2[d].room] # NoRoom
                      /\ PeerOf(R2, S2[d]) # NoPeer /\ PeerOf(R2, S2[d]).conn = d
    BY DEF SeatsAgree
  <2>1. CASE d = c
    BY <1>1, <1>2, <1>3, <1>8, <2>1 DEF PeerOf
  <2>2. CASE d # c
    BY <1>1, <1>10, <1>11, <2>2
  <2> QED
    BY <2>1, <2>2
<1>13. PeersAgree(R2, S2)
  <2> SUFFICES ASSUME NEW k \in Locators, NEW p \in PeerIds, R2[k] # NoRoom,
                      R2[k].peers[p] # NoPeer
               PROVE  /\ R2[k].peers[p].conn # NoConn =>
                           S2[R2[k].peers[p].conn] = [room |-> k, peer |-> p]
                      /\ p # HostPeer => R2[k].peers[p].conn # NoConn
    BY DEF PeersAgree
  <2>1. CASE k = l /\ p = HostPeer
    BY <1>1, <1>3, <1>8, <2>1 DEF seat
  <2>2. CASE ~ (k = l /\ p = HostPeer)
    <3>1. R[k] # NoRoom /\ R2[k].peers[p] = R[k].peers[p]
      BY <1>1, <2>2, HostIsId
    <3> DEFINE d == R[k].peers[p].conn
    <3>2. /\ d \in Conns \cup {NoConn}
          /\ d # NoConn => S[d] = [room |-> k, peer |-> p]
          /\ p # HostPeer => d # NoConn
      BY <3>1, RoomFacts DEF Base, Registry, PeersAgree
    <3>3. d # NoConn => S[d] # NoSeat /\ d # c /\ S[d] # seat
      BY <3>2, <2>2 DEF Seat, seat
    <3>4. d # NoConn => S2[d] = S[d]
      BY <1>3, <1>9, <3>2, <3>3
    <3> QED
      BY <3>1, <3>2, <3>4
  <2> QED
    BY <2>1, <2>2
<1>14. HostsAgree(R2)
  BY <1>1, <1>8 DEF HostsAgree, Hosted, Base, Registry
<1>15. ASSUME NEW d \in Conns, sock[d] = "open" PROVE Standing(R2, S2, T2, d)
  <2>1. CASE d = c
    BY <1>2, <1>3, <1>4, <1>5, <1>15, <2>1 DEF Standing, Admitted, GuestsSeat
  <2>2. CASE d # c
    <3>1. T2[d] = T[d] /\ Standing(R, S, T, d)
      BY <1>4, <1>15, <2>2 DEF Base, Informed
    <3>2. CASE S2[d] = NoSeat
      <4>1. ~GuestsSeat(S, d)
        BY <1>2, <1>3, <1>9, <2>2, <3>2 DEF GuestsSeat
      <4> QED
        BY <3>1, <3>2, <4>1 DEF Standing, Admitted, GuestsSeat
    <3>3. CASE S2[d] # NoSeat
      <4>1. S2[d] = S[d] /\ PeerOf(R2, S2[d]) = PeerOf(R, S[d])
        BY <1>10, <1>11, <2>2, <3>3
      <4>2. R[S[d].room] # NoRoom /\ S[d].room \in Locators
        BY <1>10, <2>2, <3>3
      <4>3. Accepted(R2[S[d].room]) = Accepted(R[S[d].room])
        <5>1. CASE S[d].room # l
          BY <1>1, <4>2, <5>1
        <5>2. CASE S[d].room = l
          <6>1. /\ R[l].peers[HostPeer] # NoPeer /\ R[l].peers[HostPeer].accepted
                /\ \A p \in Guests : R2[l].peers[p] = R[l].peers[p]
            BY <1>1, <4>2, <5>2 DEF Base, Registry, HostsAgree, Hosted
          <6> QED
            BY <1>1, <1>8, <5>2, <6>1, HostIsId DEF Accepted, Present
        <5> QED
          BY <5>1, <5>2
      <4> QED
        BY <3>1, <4>1, <4>3 DEF Standing, Admitted, GuestsSeat
    <3> QED
      BY <3>2, <3>3
  <2> QED
    BY <2>1, <2>2
<1>16. Gone(S2, T2, sock)
  BY <1>3, <1>4 DEF Gone, Base
<1>17. Base(R2, S2, T2)
  BY <1>1, <1>3, <1>6, <1>12, <1>13, <1>14, <1>15, <1>16 DEF Base, Registry, Informed
<1> QED
  BY <1>17 DEF R2, S2, T2, seat

(* The connections of some of a room's peers are those seated as them.     *)
LEMMA MembersFacts ==
  ASSUME NEW R, NEW S, Registry(R, S), NEW l \in Locators, R[l] # NoRoom,
         NEW ps \in SUBSET Present(R[l]), NEW d \in Conns
  PROVE  d \in ConnsOf(R[l], ps) <=> S[d] # NoSeat /\ S[d].room = l /\ S[d].peer \in ps
<1>1. ASSUME d \in ConnsOf(R[l], ps) PROVE S[d] # NoSeat /\ S[d].room = l /\ S[d].peer \in ps
  <2>1. PICK p \in ps : d = R[l].peers[p].conn
    BY <1>1 DEF ConnsOf
  <2>2. p \in PeerIds /\ R[l].peers[p] # NoPeer /\ d # NoConn
    BY <2>1 DEF Present
  <2>3. S[d] = [room |-> l, peer |-> p]
    BY <2>1, <2>2 DEF Registry, PeersAgree
  <2> QED
    BY <2>1, <2>2, <2>3 DEF Seat
<1>2. ASSUME S[d] # NoSeat, S[d].room = l, S[d].peer \in ps PROVE d \in ConnsOf(R[l], ps)
  BY <1>2 DEF Registry, SeatsAgree, PeerOf, ConnsOf
<1> QED
  BY <1>1, <1>2

(* A pending guest is admitted, and the room is sent its new roster.       *)
LEMMA GuestIsAdmitted ==
  ASSUME NEW R, NEW S, NEW T, Base(R, S, T), NEW l \in Locators, R[l] # NoRoom,
         NEW p \in Guests, R[l].peers[p] # NoPeer,
         NEW room, room = [R[l] EXCEPT !.peers[p].accepted = TRUE]
  PROVE  Base([R EXCEPT ![l] = room], S,
              Broadcast(Telling(T, ConnsOf(room, {p}), "member"), room))
<1> DEFINE R2 == [R EXCEPT ![l] = room]
           T1 == Telling(T, ConnsOf(room, {p}), "member")
           T2 == Broadcast(T1, room)
<1>1. /\ p \in PeerIds /\ p # HostPeer /\ R[l] \in Room /\ R[l].peers[p] \in Peer
  BY RoomFacts, HostIsId DEF Base, Registry
<1> DEFINE peer == [R[l].peers[p] EXCEPT !.accepted = TRUE]
<1>2. peer \in Peer /\ peer.accepted /\ peer.conn = R[l].peers[p].conn /\ peer # NoPeer
  BY <1>1 DEF Peer
<1>3. /\ room \in Room
      /\ room.peers = [R[l].peers EXCEPT ![p] = peer]
      /\ room.hostConn = R[l].hostConn
  BY <1>1, <1>2 DEF Room
<1> HIDE DEF peer
<1>4. /\ room.peers[p] = peer
      /\ \A q \in PeerIds \ {p} : room.peers[q] = R[l].peers[q]
  BY <1>1, <1>3 DEF Room
<1>5. /\ R2 \in RoomMap /\ R2[l] = room /\ room # NoRoom
      /\ \A k \in Locators \ {l} : R2[k] = R[k]
  BY <1>3 DEF RoomMap, Base, Registry
<1> HIDE DEF R2
<1>6. \A k \in Locators, q \in PeerIds :
         /\ R2[k] # NoRoom <=> R[k] # NoRoom
         /\ R[k] # NoRoom =>
              /\ R2[k].peers[q] # NoPeer <=> R[k].peers[q] # NoPeer
              /\ R2[k].peers[q].conn = R[k].peers[q].conn
  <2> TAKE k \in Locators, q \in PeerIds
  <2>1. CASE k # l
    BY <1>5, <2>1
  <2>2. CASE k = l /\ q # p
    BY <1>3, <1>4, <1>5, <2>2
  <2>3. CASE k = l /\ q = p
    BY <1>2, <1>3, <1>4, <1>5, <2>3
  <2> QED
    BY <2>1, <2>2, <2>3
<1>7. SeatsAgree(R2, S)
  <2> SUFFICES ASSUME NEW d \in Conns, S[d] # NoSeat
               PROVE  /\ R2[S[d].room] # NoRoom
                      /\ PeerOf(R2, S[d]) # NoPeer /\ PeerOf(R2, S[d]).conn = d
    BY DEF SeatsAgree
  <2>1. S[d].room \in Locators /\ S[d].peer \in PeerIds
    BY SeatFacts DEF Base, Registry
  <2>2. /\ R[S[d].room] # NoRoom
        /\ R[S[d].room].peers[S[d].peer] # NoPeer /\ R[S[d].room].peers[S[d].peer].conn = d
    BY DEF Base, Registry, SeatsAgree, PeerOf
  <2> QED
    BY <1>6, <2>1, <2>2 DEF PeerOf
<1>8. PeersAgree(R2, S)
  BY <1>6 DEF Base, Registry, PeersAgree
<1>9. HostsAgree(R2)
  <2>1. Hosted(R[l]) /\ HostPeer \in PeerIds \ {p}
    BY <1>1, HostIsId DEF Base, Registry, HostsAgree
  <2>2. Hosted(room)
    BY <1>3, <1>4, <2>1 DEF Hosted
  <2> QED
    BY <1>5, <2>2 DEF Base, Registry, HostsAgree
<1>10. Registry(R2, S)
  BY <1>5, <1>7, <1>8, <1>9 DEF Base, Registry
<1>11. \A d \in Conns :
          /\ d \in ConnsOf(room, {p}) <=> S[d] # NoSeat /\ S[d].room = l /\ S[d].peer = p
          /\ d \in ConnsOf(room, Accepted(room)) <=>
               S[d] # NoSeat /\ S[d].room = l /\ S[d].peer \in Accepted(room)
  <2>1. {p} \in SUBSET Present(R2[l]) /\ Accepted(R2[l]) \in SUBSET Present(R2[l])
    BY <1>1, <1>2, <1>4, <1>5 DEF Present, Accepted
  <2>2. \A d \in Conns : d \in ConnsOf(R2[l], {p}) <=>
                            S[d] # NoSeat /\ S[d].room = l /\ S[d].peer \in {p}
    BY <1>5, <1>10, <2>1, MembersFacts
  <2>3. \A d \in Conns : d \in ConnsOf(R2[l], Accepted(R2[l])) <=>
                            S[d] # NoSeat /\ S[d].room = l /\ S[d].peer \in Accepted(R2[l])
    BY <1>5, <1>10, <2>1, MembersFacts
  <2>4. R2[l] = room
    BY <1>5
  <2> QED
    BY <2>2, <2>3, <2>4
<1>12. Told("member") \in Report /\ Told("member").standing = "member"
  BY DEF Told, Report
<1>13. Accepted(room) \in SUBSET PeerIds
  BY DEF Accepted, Present
<1>14. /\ T1 \in ToldMap
       /\ \A d \in Conns : T1[d] = IF d \in ConnsOf(room, {p}) /\ sock[d] = "open"
                                   THEN Told("member") ELSE T[d]
  BY <1>12 DEF Telling, ToldMap, Base, Informed
<1> HIDE DEF T1
<1>15. /\ T2 \in ToldMap
       /\ \A d \in Conns : T2[d] = IF d \in ConnsOf(room, Accepted(room)) /\ sock[d] = "open"
                                   THEN [T1[d] EXCEPT !.roster = Accepted(room)] ELSE T1[d]
  BY <1>13, <1>14 DEF Broadcast, ToldMap, Report
<1> HIDE DEF T2
<1>16. ASSUME NEW d \in Conns, sock[d] = "open" PROVE Standing(R2, S, T2, d)
  <2>1. Standing(R, S, T, d) /\ T1[d] \in Report
    BY <1>14, <1>16 DEF Base, Informed, ToldMap
  <2>2. CASE S[d] = NoSeat
    BY <1>11, <1>14, <1>15, <2>1, <2>2 DEF Standing, Admitted, GuestsSeat
  <2>3. CASE S[d] # NoSeat
    <3>1. /\ S[d].room \in Locators /\ S[d].peer \in PeerIds /\ R[S[d].room] # NoRoom
          /\ R2[S[d].room].peers[S[d].peer] # NoPeer
      BY <1>6, <2>3, SeatFacts DEF Base, Registry, SeatsAgree, PeerOf
    <3>2. CASE S[d].room # l
      BY <1>5, <1>11, <1>14, <1>15, <2>1, <3>1, <3>2 DEF Standing, Admitted, GuestsSeat, PeerOf
    <3>3. CASE S[d].room = l
      <4>1. S[d].peer \in Accepted(room) <=> PeerOf(R2, S[d]).accepted
        BY <1>5, <3>1, <3>3 DEF Accepted, Present, PeerOf
      <4>2. S[d].peer \in Accepted(room) => T2[d].roster = Accepted(room)
        BY <1>11, <1>15, <1>16, <2>1, <2>3, <3>3 DEF Report
      <4>3. T2[d].standing = T1[d].standing
        BY <1>15, <2>1 DEF Report
      <4>4. CASE S[d].peer = p
        <5>1. T2[d].standing = "member"
          BY <1>11, <1>12, <1>14, <1>16, <2>3, <3>3, <4>3, <4>4
        <5>2. GuestsSeat(S, d) /\ PeerOf(R2, S[d]) = peer
          BY <1>1, <1>4, <1>5, <2>3, <3>3, <4>4 DEF GuestsSeat, PeerOf
        <5>3. Admitted(R2, S, d)
          BY <1>2, <5>2 DEF Admitted
        <5>4. T2[d].roster = Accepted(R2[S[d].room])
          BY <1>2, <1>5, <3>3, <4>1, <4>2, <5>2
        <5> QED
          BY <5>1, <5>2, <5>3, <5>4 DEF Standing
      <4>5. CASE S[d].peer # p
        <5>1. T2[d].standing = T[d].standing
          BY <1>11, <1>14, <4>3, <4>5
        <5>2. PeerOf(R2, S[d]) = PeerOf(R, S[d])
          BY <1>4, <1>5, <3>1, <3>3, <4>5 DEF PeerOf
        <5>3. Admitted(R2, S, d) <=> Admitted(R, S, d)
          BY <5>2 DEF Admitted
        <5>4. Admitted(R2, S, d) => T2[d].roster = Accepted(R2[S[d].room])
          BY <1>5, <3>3, <4>1, <4>2 DEF Admitted
        <5> QED
          BY <2>1, <5>1, <5>3, <5>4 DEF Standing
      <4> QED
        BY <4>4, <4>5
    <3> QED
      BY <3>2, <3>3
  <2> QED
    BY <2>2, <2>3
<1>17. Gone(S, T2, sock)
  BY <1>14, <1>15 DEF Base, Gone
<1> QED
  BY <1>10, <1>15, <1>16, <1>17 DEF Base, Informed, R2, T2, T1

(* A guest's entry and its seat go together.                               *)
GuestGone(R, S, l, p, c, R2, S2) ==
  /\ Registry(R2, S2)
  /\ c \in Conns /\ S[c] = [room |-> l, peer |-> p]
  /\ S2[c] = NoSeat /\ \A d \in Conns \ {c} : S2[d] = S[d]
  /\ R2[l] # NoRoom
  /\ \A k \in Locators \ {l} : R2[k] = R[k]
  /\ R2[l].peers[p] = NoPeer
  /\ \A q \in PeerIds \ {p} : R2[l].peers[q] = R[l].peers[q]

LEMMA GuestGoesRegistry ==
  ASSUME NEW R, NEW S, Registry(R, S), NEW l \in Locators, R[l] # NoRoom,
         NEW p \in Guests, R[l].peers[p] # NoPeer, NEW c, c = R[l].peers[p].conn
  PROVE  GuestGone(R, S, l, p, c, WithoutGuest(R, l, p), Forget(S, {c}))
<1> DEFINE room == [R[l] EXCEPT !.peers[p] = NoPeer]
           R2 == WithoutGuest(R, l, p)
           S2 == Forget(S, {c})
<1>1. /\ p \in PeerIds /\ p # HostPeer /\ R[l] \in Room
  BY RoomFacts, HostIsId DEF Registry
<1>2. /\ room \in Room /\ room # NoRoom /\ room.hostConn = R[l].hostConn
      /\ room.peers[p] = NoPeer
      /\ \A q \in PeerIds \ {p} : room.peers[q] = R[l].peers[q]
  BY <1>1 DEF Room
<1> HIDE DEF room
<1>3. /\ R2 \in RoomMap /\ R2[l] = room
      /\ \A k \in Locators \ {l} : R2[k] = R[k]
  BY <1>2 DEF room, RoomMap, Registry, WithoutGuest
<1>4. c \in Conns /\ S[c] = [room |-> l, peer |-> p]
  BY <1>1, RoomFacts DEF Registry, PeersAgree
<1>5. /\ S2 \in SeatMap /\ S2[c] = NoSeat
      /\ \A d \in Conns \ {c} : S2[d] = S[d]
  BY <1>4 DEF Forget, SeatMap, Registry
<1> HIDE DEF R2, S2
<1>6. SeatsAgree(R2, S2)
  <2> SUFFICES ASSUME NEW d \in Conns, S2[d] # NoSeat
               PROVE  /\ R2[S2[d].room] # NoRoom
                      /\ PeerOf(R2, S2[d]) # NoPeer /\ PeerOf(R2, S2[d]).conn = d
    BY DEF SeatsAgree
  <2>1. d # c /\ S2[d] = S[d]
    BY <1>5
  <2>2. /\ S[d] # NoSeat /\ S[d].room \in Locators /\ S[d].peer \in PeerIds
        /\ R[S[d].room] # NoRoom /\ PeerOf(R, S[d]) # NoPeer /\ PeerOf(R, S[d]).conn = d
    BY <2>1, SeatFacts DEF Registry, SeatsAgree
  <2>3. ~ (S[d].room = l /\ S[d].peer = p)
    BY <2>1, <2>2 DEF PeerOf
  <2>4. R2[S[d].room] # NoRoom /\ PeerOf(R2, S[d]) = PeerOf(R, S[d])
    BY <1>2, <1>3, <2>2, <2>3 DEF PeerOf
  <2> QED
    BY <2>1, <2>2, <2>4
<1>7. PeersAgree(R2, S2)
  <2> SUFFICES ASSUME NEW k \in Locators, NEW q \in PeerIds, R2[k] # NoRoom,
                      R2[k].peers[q] # NoPeer
               PROVE  /\ R2[k].peers[q].conn # NoConn =>
                           S2[R2[k].peers[q].conn] = [room |-> k, peer |-> q]
                      /\ q # HostPeer => R2[k].peers[q].conn # NoConn
    BY DEF PeersAgree
  <2>1. ~ (k = l /\ q = p) /\ R[k] # NoRoom /\ R2[k].peers[q] = R[k].peers[q]
    BY <1>2, <1>3
  <2>2. /\ R[k].peers[q].conn \in Conns \cup {NoConn}
        /\ R[k].peers[q].conn # NoConn => S[R[k].peers[q].conn] = [room |-> k, peer |-> q]
        /\ q # HostPeer => R[k].peers[q].conn # NoConn
    BY <2>1, RoomFacts DEF Registry, PeersAgree
  <2>3. R[k].peers[q].conn # c
    BY <1>4, <2>1, <2>2
  <2> QED
    BY <1>5, <2>1, <2>2, <2>3
<1>8. HostsAgree(R2)
  <2>1. Hosted(R[l]) /\ HostPeer \in PeerIds \ {p}
    BY <1>1, HostIsId DEF Registry, HostsAgree
  <2>2. Hosted(room)
    BY <1>2, <2>1 DEF Hosted
  <2> QED
    BY <1>3, <2>2 DEF Registry, HostsAgree
<1>9. Registry(R2, S2)
  BY <1>3, <1>5, <1>6, <1>7, <1>8 DEF Registry
<1> QED
  BY <1>2, <1>3, <1>4, <1>5, <1>9 DEF GuestGone, R2, S2

(* A pending guest that is declined is told so.                            *)
LEMMA GuestIsDeclined ==
  ASSUME NEW R, NEW S, NEW T, Base(R, S, T), NEW l \in Locators, R[l] # NoRoom,
         NEW p \in Guests, R[l].peers[p] # NoPeer, ~R[l].peers[p].accepted
  PROVE  Base(WithoutGuest(R, l, p), Forget(S, ConnsOf(R[l], {p})),
              Telling(T, ConnsOf(R[l], {p}), "none"))
<1> DEFINE c == R[l].peers[p].conn
           R2 == WithoutGuest(R, l, p)
           S2 == Forget(S, {c})
           T2 == Telling(T, {c}, "none")
<1>0. /\ R2 = WithoutGuest(R, l, p) /\ S2 = Forget(S, {c})
      /\ c = R[l].peers[p].conn /\ Registry(R, S)
  BY DEF Base
<1> HIDE DEF R2, S2, c
<1>1. /\ Registry(R2, S2)
      /\ c \in Conns /\ S[c] = [room |-> l, peer |-> p]
      /\ S2[c] = NoSeat /\ \A d \in Conns \ {c} : S2[d] = S[d]
      /\ R2[l] # NoRoom
      /\ \A k \in Locators \ {l} : R2[k] = R[k]
      /\ R2[l].peers[p] = NoPeer
      /\ \A q \in PeerIds \ {p} : R2[l].peers[q] = R[l].peers[q]
  <2>1. GuestGone(R, S, l, p, c, WithoutGuest(R, l, p), Forget(S, {c}))
    BY <1>0, GuestGoesRegistry
  <2> QED
    BY <1>0, <2>1 DEF GuestGone
<1>2. ConnsOf(R[l], {p}) = {c}
  BY <1>0, <1>1 DEF ConnsOf
<1>3. Told("none") \in Report /\ Told("none").standing = "none" /\ Nothing = Told("none")
  BY DEF Told, Report, Nothing
<1>4. /\ T2 \in ToldMap
      /\ \A d \in Conns : T2[d] = IF d = c /\ sock[d] = "open" THEN Nothing ELSE T[d]
  BY <1>3 DEF Telling, ToldMap, Base, Informed
<1> HIDE DEF T2
<1>5. Accepted(R2[l]) = Accepted(R[l])
  BY <1>1 DEF Accepted, Present
<1>6. ASSUME NEW d \in Conns, sock[d] = "open" PROVE Standing(R2, S2, T2, d)
  <2>1. CASE d = c
    BY <1>1, <1>3, <1>4, <1>6, <2>1 DEF Standing, Admitted, GuestsSeat
  <2>2. CASE d # c
    <3>1. S2[d] = S[d] /\ T2[d] = T[d] /\ Standing(R, S, T, d)
      BY <1>1, <1>4, <1>6, <2>2 DEF Base, Informed
    <3>2. ASSUME S[d] # NoSeat
          PROVE  /\ PeerOf(R2, S[d]) = PeerOf(R, S[d])
                 /\ Accepted(R2[S[d].room]) = Accepted(R[S[d].room])
      <4>1. /\ S[d].room \in Locators /\ S[d].peer \in PeerIds
            /\ PeerOf(R, S[d]).conn = d
        BY <3>2, SeatFacts DEF Base, Registry, SeatsAgree
      <4>2. ~ (S[d].room = l /\ S[d].peer = p)
        BY <2>2, <4>1 DEF PeerOf, c
      <4> QED
        BY <1>1, <1>5, <4>1, <4>2 DEF PeerOf
    <3> QED
      BY <3>1, <3>2 DEF Standing, Admitted, GuestsSeat
  <2> QED
    BY <2>1, <2>2
<1>7. Gone(S2, T2, sock)
  BY <1>1, <1>4 DEF Base, Gone
<1> QED
  BY <1>1, <1>2, <1>4, <1>6, <1>7 DEF Base, Informed, R2, S2, T2

(* A guest that leaves, or whose socket closes, is forgotten, and the room *)
(* is sent its new roster.                                                 *)
LEMMA GuestLeaves ==
  ASSUME NEW R, NEW S, NEW T, Base(R, S, T), NEW c \in Conns, GuestsSeat(S, c),
         RemoveGuest(c, R, S, T)
  PROVE  /\ Base(rooms', seats', told')
         /\ seats'[c] = NoSeat /\ told'[c] = Nothing
<1> DEFINE l == S[c].room
           p == S[c].peer
           R2 == WithoutGuest(R, l, p)
           S2 == Forget(S, {c})
           T1 == [T EXCEPT ![c] = Nothing]
           T2 == Broadcast(T1, R2[l])
<1>1. /\ l \in Locators /\ p \in Guests /\ R[l] # NoRoom
      /\ R[l].peers[p] # NoPeer /\ R[l].peers[p].conn = c
  BY SeatFacts, HostIsId DEF Base, Registry, SeatsAgree, PeerOf, GuestsSeat
<1>2. rooms' = R2 /\ seats' = S2 /\ told' = T2
  BY <1>1 DEF RemoveGuest, Exists
<1>0. R2 = WithoutGuest(R, l, p) /\ S2 = Forget(S, {c}) /\ Registry(R, S)
  BY DEF Base
<1> HIDE DEF R2, S2, l, p
<1>3. /\ Registry(R2, S2)
      /\ S2[c] = NoSeat /\ \A d \in Conns \ {c} : S2[d] = S[d]
      /\ R2[l] # NoRoom
      /\ \A k \in Locators \ {l} : R2[k] = R[k]
      /\ R2[l].peers[p] = NoPeer
      /\ \A q \in PeerIds \ {p} : R2[l].peers[q] = R[l].peers[q]
  <2>1. GuestGone(R, S, l, p, c, WithoutGuest(R, l, p), Forget(S, {c}))
    BY <1>0, <1>1, GuestGoesRegistry
  <2> QED
    BY <1>0, <2>1 DEF GuestGone
<1>4. \A d \in Conns : d \in ConnsOf(R2[l], Accepted(R2[l])) <=>
                         S2[d] # NoSeat /\ S2[d].room = l /\ S2[d].peer \in Accepted(R2[l])
  <2>1. Accepted(R2[l]) \in SUBSET Present(R2[l])
    BY DEF Accepted
  <2> QED
    BY <1>1, <1>3, <2>1, MembersFacts
<1>5. Nothing \in Report /\ Nothing.standing = "none"
  BY DEF Told, Report, Nothing
<1>6. T1 \in ToldMap /\ T1[c] = Nothing /\ \A d \in Conns \ {c} : T1[d] = T[d]
  BY <1>5 DEF ToldMap, Base, Informed
<1>7. Accepted(R2[l]) \in SUBSET PeerIds
  BY DEF Accepted, Present
<1> HIDE DEF T1
<1>8. /\ T2 \in ToldMap
      /\ \A d \in Conns : T2[d] = IF d \in ConnsOf(R2[l], Accepted(R2[l])) /\ sock[d] = "open"
                                  THEN [T1[d] EXCEPT !.roster = Accepted(R2[l])] ELSE T1[d]
  BY <1>6, <1>7 DEF Broadcast, ToldMap, Report
<1> HIDE DEF T2
<1>9. T2[c] = Nothing
  BY <1>3, <1>4, <1>6, <1>8
<1>10. ASSUME NEW d \in Conns, sock[d] = "open" PROVE Standing(R2, S2, T2, d)
  <2>1. CASE d = c
    BY <1>3, <1>5, <1>9, <2>1 DEF Standing, Admitted, GuestsSeat
  <2>2. CASE d # c
    <3>1. S2[d] = S[d] /\ T1[d] = T[d] /\ T1[d] \in Report /\ Standing(R, S, T, d)
      BY <1>3, <1>6, <1>10, <2>2 DEF Base, Informed, ToldMap
    <3>2. T2[d].standing = T[d].standing
      BY <1>8, <3>1 DEF Report
    <3>3. CASE S[d] = NoSeat
      BY <3>1, <3>2, <3>3 DEF Standing, Admitted, GuestsSeat
    <3>4. CASE S[d] # NoSeat
      <4>1. /\ S[d].room \in Locators /\ S[d].peer \in PeerIds
            /\ PeerOf(R, S[d]) # NoPeer /\ PeerOf(R, S[d]).conn = d
        BY <3>4, SeatFacts DEF Base, Registry, SeatsAgree
      <4>2. ~ (S[d].room = l /\ S[d].peer = p)
        BY <1>1, <2>2, <4>1 DEF PeerOf
      <4>3. PeerOf(R2, S[d]) = PeerOf(R, S[d])
        BY <1>3, <4>1, <4>2 DEF PeerOf
      <4>4. CASE S[d].room # l
        <5>1. R2[S[d].room] = R[S[d].room] /\ T2[d] = T[d]
          BY <1>3, <1>4, <1>8, <3>1, <4>1, <4>4
        <5> QED
          BY <3>1, <4>3, <5>1 DEF Standing, Admitted, GuestsSeat
      <4>5. CASE S[d].room = l
        <5>1. S[d].peer \in Accepted(R2[l]) <=> PeerOf(R2, S[d]).accepted
          BY <4>1, <4>3, <4>5 DEF Accepted, Present, PeerOf
        <5>2. S[d].peer \in Accepted(R2[l]) => T2[d].roster = Accepted(R2[l])
          BY <1>4, <1>8, <1>10, <3>1, <3>4, <4>5 DEF Report
        <5> QED
          BY <3>1, <3>2, <4>3, <4>5, <5>1, <5>2 DEF Standing, Admitted, GuestsSeat
      <4> QED
        BY <4>4, <4>5
    <3> QED
      BY <3>3, <3>4
  <2> QED
    BY <2>1, <2>2
<1>11. Gone(S2, T2, sock)
  <2> SUFFICES ASSUME NEW d \in Conns, sock[d] = "closed" PROVE S2[d] = NoSeat /\ T2[d] = Nothing
    BY DEF Gone
  <2>1. d = c \/ (S2[d] = S[d] /\ T2[d] = T[d])
    BY <1>3, <1>6, <1>8
  <2> QED
    BY <1>3, <1>9, <2>1 DEF Base, Gone
<1> QED
  BY <1>2, <1>3, <1>8, <1>9, <1>10, <1>11 DEF Base, Informed

(* A room ends for all its members, who are told so.                       *)
LEMMA RoomEnds ==
  ASSUME NEW R, NEW S, NEW T, Base(R, S, T), NEW l \in Locators, R[l] # NoRoom,
         NEW members, members = ConnsOf(R[l], Present(R[l]))
  PROVE  Base([R EXCEPT ![l] = NoRoom], Forget(S, members), Telling(T, members, "none"))
<1> DEFINE R2 == [R EXCEPT ![l] = NoRoom]
           S2 == Forget(S, members)
           T2 == Telling(T, members, "none")
<1>1. \A d \in Conns : d \in members <=> S[d] # NoSeat /\ S[d].room = l
  <2>1. Present(R[l]) \in SUBSET Present(R[l])
    OBVIOUS
  <2>2. \A d \in Conns : d \in members <=>
           S[d] # NoSeat /\ S[d].room = l /\ S[d].peer \in Present(R[l])
    BY <2>1, MembersFacts DEF Base
  <2>3. \A d \in Conns : S[d] # NoSeat /\ S[d].room = l => S[d].peer \in Present(R[l])
    BY SeatFacts DEF Base, Registry, SeatsAgree, PeerOf, Present
  <2> QED
    BY <2>2, <2>3
<1>2. /\ R2 \in RoomMap /\ R2[l] = NoRoom
      /\ \A k \in Locators \ {l} : R2[k] = R[k]
  BY DEF Base, Registry, RoomMap
<1>3. /\ S2 \in SeatMap
      /\ \A d \in Conns : S2[d] = IF d \in members THEN NoSeat ELSE S[d]
  BY DEF Base, Registry, SeatMap, Forget
<1>4. Told("none") \in Report /\ Told("none").standing = "none" /\ Nothing = Told("none")
  BY DEF Told, Report, Nothing
<1>5. /\ T2 \in ToldMap
      /\ \A d \in Conns : T2[d] = IF d \in members /\ sock[d] = "open" THEN Nothing ELSE T[d]
  BY <1>4 DEF Telling, ToldMap, Base, Informed
<1> HIDE DEF R2, S2, T2
<1>6. \A d \in Conns : S2[d] # NoSeat =>
         /\ d \notin members /\ S2[d] = S[d] /\ S[d].room \in Locators \ {l}
         /\ R2[S[d].room] = R[S[d].room]
  BY <1>1, <1>2, <1>3, SeatFacts DEF Base, Registry
<1>7. SeatsAgree(R2, S2)
  BY <1>3, <1>6 DEF Base, Registry, SeatsAgree, PeerOf
<1>8. PeersAgree(R2, S2)
  <2> SUFFICES ASSUME NEW k \in Locators, NEW q \in PeerIds, R2[k] # NoRoom,
                      R2[k].peers[q] # NoPeer
               PROVE  /\ R2[k].peers[q].conn # NoConn =>
                           S2[R2[k].peers[q].conn] = [room |-> k, peer |-> q]
                      /\ q # HostPeer => R2[k].peers[q].conn # NoConn
    BY DEF PeersAgree
  <2>1. k # l /\ R2[k] = R[k]
    BY <1>2
  <2>2. /\ R[k].peers[q].conn \in Conns \cup {NoConn}
        /\ R[k].peers[q].conn # NoConn => S[R[k].peers[q].conn] = [room |-> k, peer |-> q]
        /\ q # HostPeer => R[k].peers[q].conn # NoConn
    BY <2>1, RoomFacts DEF Base, Registry, PeersAgree
  <2> QED
    BY <1>1, <1>3, <2>1, <2>2
<1>9. HostsAgree(R2)
  BY <1>2 DEF Base, Registry, HostsAgree
<1>10. ASSUME NEW d \in Conns, sock[d] = "open" PROVE Standing(R2, S2, T2, d)
  <2>1. Standing(R, S, T, d)
    BY <1>10 DEF Base, Informed
  <2>2. CASE d \in members
    BY <1>3, <1>4, <1>5, <1>10, <2>2 DEF Standing, Admitted, GuestsSeat
  <2>3. CASE d \notin members
    <3>1. S2[d] = S[d] /\ T2[d] = T[d]
      BY <1>3, <1>5, <2>3
    <3>2. S[d] # NoSeat => R2[S[d].room] = R[S[d].room]
      BY <1>6, <3>1
    <3> QED
      BY <2>1, <3>1, <3>2 DEF Standing, Admitted, GuestsSeat, PeerOf
  <2> QED
    BY <2>2, <2>3
<1>11. Gone(S2, T2, sock)
  BY <1>3, <1>5 DEF Base, Gone
<1>12. Base(R2, S2, T2)
  BY <1>2, <1>3, <1>5, <1>7, <1>8, <1>9, <1>10, <1>11 DEF Base, Registry, Informed
<1> QED
  BY <1>12 DEF R2, S2, T2

(* A connection asks to join under a peer id that is free.                 *)
LEMMA GuestAsks ==
  ASSUME NEW R, NEW S, NEW T, Base(R, S, T), NEW l \in Locators, R[l] # NoRoom,
         NEW p \in Guests, R[l].peers[p] = NoPeer, NEW c \in Conns, S[c] = NoSeat,
         sock[c] # "closed", NEW invite \in Invites
  PROVE  Base([R EXCEPT ![l].peers[p] = NewGuest(c, invite)],
              [S EXCEPT ![c] = [room |-> l, peer |-> p]],
              Telling(T, {c}, "pending"))
<1> DEFINE seat == [room |-> l, peer |-> p]
           peer == NewGuest(c, invite)
           room == [R[l] EXCEPT !.peers[p] = peer]
           R2 == [R EXCEPT ![l].peers[p] = peer]
           S2 == [S EXCEPT ![c] = seat]
           T2 == Telling(T, {c}, "pending")
<1>1. /\ p \in PeerIds /\ p # HostPeer /\ R[l] \in Room
  BY RoomFacts, HostIsId DEF Base, Registry
<1>2. /\ peer \in Peer /\ peer # NoPeer /\ peer.conn = c /\ peer.accepted = FALSE
  <2>1. peer = [conn |-> c, accepted |-> FALSE, invite |-> invite]
    BY DEF NewGuest
  <2>2. peer \in Peer
    BY <2>1 DEF Peer
  <2>3. peer.conn = c /\ peer.accepted = FALSE
    BY <2>1
  <2> HIDE DEF peer
  <2> QED
    BY <2>2, <2>3
<1> HIDE DEF peer
<1>3. /\ room \in Room /\ room # NoRoom /\ room.hostConn = R[l].hostConn
      /\ room.peers[p] = peer
      /\ \A q \in PeerIds \ {p} : room.peers[q] = R[l].peers[q]
  BY <1>1, <1>2 DEF Room
<1> HIDE DEF room
<1>4. /\ R2 \in RoomMap /\ R2[l] = room
      /\ \A k \in Locators \ {l} : R2[k] = R[k]
  BY <1>3 DEF room, RoomMap, Base, Registry
<1>5. /\ seat \in Seat /\ seat # NoSeat /\ seat.room = l /\ seat.peer = p
  BY <1>1 DEF Seat
<1>6. /\ S2 \in SeatMap /\ S2[c] = seat
      /\ \A d \in Conns \ {c} : S2[d] = S[d]
  BY <1>5 DEF SeatMap, Base, Registry
<1>7. Told("pending") \in Report /\ Told("pending").standing = "pending"
  BY DEF Told, Report
<1>8. /\ T2 \in ToldMap
      /\ \A d \in Conns : T2[d] = IF d = c /\ sock[d] = "open" THEN Told("pending") ELSE T[d]
  BY <1>7 DEF Telling, ToldMap, Base, Informed
<1> HIDE DEF R2, S2, T2, seat
<1>9. ASSUME NEW d \in Conns \ {c}, S[d] # NoSeat
      PROVE  /\ R2[S[d].room] # NoRoom /\ PeerOf(R2, S[d]) = PeerOf(R, S[d])
             /\ Accepted(R2[S[d].room]) = Accepted(R[S[d].room])
  <2>1. /\ S[d].room \in Locators /\ S[d].peer \in PeerIds
        /\ R[S[d].room] # NoRoom /\ PeerOf(R, S[d]) # NoPeer
    BY <1>9, SeatFacts DEF Base, Registry, SeatsAgree
  <2>2. ~ (S[d].room = l /\ S[d].peer = p)
    BY <2>1 DEF PeerOf
  <2>3. Accepted(room) = Accepted(R[l])
    BY <1>1, <1>2, <1>3 DEF Accepted, Present
  <2> QED
    BY <1>3, <1>4, <2>1, <2>2, <2>3 DEF PeerOf
<1>10. SeatsAgree(R2, S2)
  <2> SUFFICES ASSUME NEW d \in Conns, S2[d] # NoSeat
               PROVE  /\ R2[S2[d].room] # NoRoom
                      /\ PeerOf(R2, S2[d]) # NoPeer /\ PeerOf(R2, S2[d]).conn = d
    BY DEF SeatsAgree
  <2>1. CASE d = c
    BY <1>2, <1>3, <1>4, <1>5, <1>6, <2>1 DEF PeerOf
  <2>2. CASE d # c
    BY <1>6, <1>9, <2>2 DEF Base, Registry, SeatsAgree
  <2> QED
    BY <2>1, <2>2
<1>11. PeersAgree(R2, S2)
  <2> SUFFICES ASSUME NEW k \in Locators, NEW q \in PeerIds, R2[k] # NoRoom,
                      R2[k].peers[q] # NoPeer
               PROVE  /\ R2[k].peers[q].conn # NoConn =>
                           S2[R2[k].peers[q].conn] = [room |-> k, peer |-> q]
                      /\ q # HostPeer => R2[k].peers[q].conn # NoConn
    BY DEF PeersAgree
  <2>1. CASE k = l /\ q = p
    BY <1>2, <1>3, <1>4, <1>6, <2>1 DEF seat
  <2>2. CASE ~ (k = l /\ q = p)
    <3>1. R[k] # NoRoom /\ R2[k].peers[q] = R[k].peers[q]
      BY <1>3, <1>4, <2>2
    <3>2. /\ R[k].peers[q].conn \in Conns \cup {NoConn}
          /\ R[k].peers[q].conn # NoConn => S[R[k].peers[q].conn] = [room |-> k, peer |-> q]
          /\ q # HostPeer => R[k].peers[q].conn # NoConn
      BY <3>1, RoomFacts DEF Base, Registry, PeersAgree
    <3>3. R[k].peers[q].conn # NoConn => R[k].peers[q].conn # c
      BY <3>2 DEF Seat
    <3> QED
      BY <1>6, <3>1, <3>2, <3>3
  <2> QED
    BY <2>1, <2>2
<1>12. HostsAgree(R2)
  <2>1. Hosted(R[l]) /\ HostPeer \in PeerIds \ {p}
    BY <1>1, HostIsId DEF Base, Registry, HostsAgree
  <2>2. Hosted(room)
    BY <1>3, <2>1 DEF Hosted
  <2> QED
    BY <1>4, <2>2 DEF Base, Registry, HostsAgree
<1>13. ASSUME NEW d \in Conns, sock[d] = "open" PROVE Standing(R2, S2, T2, d)
  <2>1. CASE d = c
    <3>1. GuestsSeat(S2, c) /\ ~Admitted(R2, S2, c)
      BY <1>1, <1>2, <1>3, <1>4, <1>5, <1>6 DEF GuestsSeat, Admitted, PeerOf
    <3> QED
      BY <1>7, <1>8, <1>13, <2>1, <3>1 DEF Standing
  <2>2. CASE d # c
    <3>1. S2[d] = S[d] /\ T2[d] = T[d] /\ Standing(R, S, T, d)
      BY <1>6, <1>8, <1>13, <2>2 DEF Base, Informed
    <3> QED
      BY <1>9, <2>2, <3>1 DEF Standing, Admitted, GuestsSeat
  <2> QED
    BY <2>1, <2>2
<1>14. Gone(S2, T2, sock)
  BY <1>6, <1>8 DEF Base, Gone
<1>15. Base(R2, S2, T2)
  BY <1>4, <1>6, <1>8, <1>10, <1>11, <1>12, <1>13, <1>14 DEF Base, Registry, Informed
<1> QED
  BY <1>15 DEF R2, S2, T2, seat, peer

(* A host's socket closes: the room stays, without a host.                 *)
LEMMA HostGoes ==
  ASSUME NEW R, NEW S, NEW T, Base(R, S, T), NEW c \in Conns, HostsSeat(S, c),
         NEW l, l = S[c].room
  PROVE  /\ R[l] # NoRoom /\ R[l].hostConn = c
         /\ Base([R EXCEPT ![l] = WithoutHost(R[l])], Forget(S, {c}), [T EXCEPT ![c] = Nothing])
<1> DEFINE room == WithoutHost(R[l])
           peer == [R[l].peers[HostPeer] EXCEPT !.conn = NoConn]
           R2 == [R EXCEPT ![l] = room]
           S2 == Forget(S, {c})
           T2 == [T EXCEPT ![c] = Nothing]
<1>1. /\ l \in Locators /\ R[l] # NoRoom /\ S[c] = [room |-> l, peer |-> HostPeer]
      /\ R[l].hostConn = c /\ R[l] \in Room /\ Hosted(R[l])
      /\ R[l].peers[HostPeer] \in Peer
  BY SeatFacts, RoomFacts, HostIsId
     DEF Base, Registry, SeatsAgree, HostsAgree, Hosted, PeerOf, HostsSeat
<1>2. /\ peer \in Peer /\ peer # NoPeer /\ peer.conn = NoConn
      /\ peer.accepted = R[l].peers[HostPeer].accepted
  BY <1>1 DEF Peer
<1>3. /\ room \in Room /\ room # NoRoom /\ room.hostConn = NoConn
      /\ room.peers[HostPeer] = peer
      /\ \A q \in PeerIds \ {HostPeer} : room.peers[q] = R[l].peers[q]
  <2>1. [R[l].peers EXCEPT ![HostPeer] = peer] \in [PeerIds -> Peer \cup {NoPeer}]
    BY <1>1, <1>2 DEF Room
  <2>2. room = [R[l] EXCEPT !.hostConn = NoConn, !.peers = [@ EXCEPT ![HostPeer] = peer]]
    BY DEF WithoutHost
  <2>3. R[l].peers \in [PeerIds -> Peer \cup {NoPeer}]
    BY <1>1 DEF Room
  <2> HIDE DEF peer, room
  <2>4. room \in Room /\ room.hostConn = NoConn
        /\ room.peers = [R[l].peers EXCEPT ![HostPeer] = peer]
    BY <1>1, <2>1, <2>2 DEF Room
  <2> QED
    BY <2>3, <2>4, HostIsId
<1> HIDE DEF peer, room
<1>4. /\ R2 \in RoomMap /\ R2[l] = room
      /\ \A k \in Locators \ {l} : R2[k] = R[k]
  BY <1>1, <1>3 DEF RoomMap, Base, Registry
<1>5. /\ S2 \in SeatMap /\ S2[c] = NoSeat
      /\ \A d \in Conns \ {c} : S2[d] = S[d]
  BY DEF SeatMap, Base, Registry, Forget
<1>6. Nothing \in Report /\ Nothing.standing = "none"
  BY DEF Told, Report, Nothing
<1>7. T2 \in ToldMap /\ T2[c] = Nothing /\ \A d \in Conns \ {c} : T2[d] = T[d]
  BY <1>6 DEF ToldMap, Base, Informed
<1> HIDE DEF R2, S2, T2
<1>8. Accepted(room) = Accepted(R[l])
  BY <1>1, <1>2, <1>3, HostIsId DEF Accepted, Present
<1>9. ASSUME NEW d \in Conns \ {c}, S[d] # NoSeat
      PROVE  /\ R2[S[d].room] # NoRoom /\ PeerOf(R2, S[d]) = PeerOf(R, S[d])
             /\ Accepted(R2[S[d].room]) = Accepted(R[S[d].room])
  <2>1. /\ S[d].room \in Locators /\ S[d].peer \in PeerIds
        /\ R[S[d].room] # NoRoom /\ PeerOf(R, S[d]).conn = d
    BY <1>9, SeatFacts DEF Base, Registry, SeatsAgree
  <2>2. ~ (S[d].room = l /\ S[d].peer = HostPeer)
    BY <1>1, <2>1 DEF PeerOf, Hosted
  <2> QED
    BY <1>3, <1>4, <1>8, <2>1, <2>2 DEF PeerOf
<1>10. SeatsAgree(R2, S2)
  BY <1>5, <1>9 DEF Base, Registry, SeatsAgree
<1>11. PeersAgree(R2, S2)
  <2> SUFFICES ASSUME NEW k \in Locators, NEW q \in PeerIds, R2[k] # NoRoom,
                      R2[k].peers[q] # NoPeer
               PROVE  /\ R2[k].peers[q].conn # NoConn =>
                           S2[R2[k].peers[q].conn] = [room |-> k, peer |-> q]
                      /\ q # HostPeer => R2[k].peers[q].conn # NoConn
    BY DEF PeersAgree
  <2>1. CASE k = l /\ q = HostPeer
    BY <1>2, <1>3, <1>4, <2>1
  <2>2. CASE ~ (k = l /\ q = HostPeer)
    <3>1. R[k] # NoRoom /\ R2[k].peers[q] = R[k].peers[q]
      BY <1>1, <1>3, <1>4, <2>2
    <3>2. /\ R[k].peers[q].conn \in Conns \cup {NoConn}
          /\ R[k].peers[q].conn # NoConn => S[R[k].peers[q].conn] = [room |-> k, peer |-> q]
          /\ q # HostPeer => R[k].peers[q].conn # NoConn
      BY <3>1, RoomFacts DEF Base, Registry, PeersAgree
    <3>3. ASSUME R[k].peers[q].conn = c PROVE FALSE
      <4>1. S[c] = [room |-> k, peer |-> q]
        BY <3>2, <3>3
      <4>2. S[c].room = k /\ S[c].peer = q
        BY <4>1
      <4>3. S[c].room = l /\ S[c].peer = HostPeer
        BY DEF HostsSeat
      <4> QED
        BY <2>2, <4>2, <4>3
    <3> QED
      BY <1>5, <3>1, <3>2, <3>3
  <2> QED
    BY <2>1, <2>2
<1>12. HostsAgree(R2)
  <2>1. Hosted(room)
    BY <1>1, <1>2, <1>3 DEF Hosted
  <2> QED
    BY <1>4, <2>1 DEF Base, Registry, HostsAgree
<1>13. ASSUME NEW d \in Conns, sock[d] = "open" PROVE Standing(R2, S2, T2, d)
  <2>1. CASE d = c
    BY <1>5, <1>6, <1>7, <2>1 DEF Standing, Admitted, GuestsSeat
  <2>2. CASE d # c
    <3>1. S2[d] = S[d] /\ T2[d] = T[d] /\ Standing(R, S, T, d)
      BY <1>5, <1>7, <1>13, <2>2 DEF Base, Informed
    <3> QED
      BY <1>9, <2>2, <3>1 DEF Standing, Admitted, GuestsSeat
  <2> QED
    BY <2>1, <2>2
<1>14. Gone(S2, T2, sock)
  <2> SUFFICES ASSUME NEW d \in Conns, sock[d] = "closed" PROVE S2[d] = NoSeat /\ T2[d] = Nothing
    BY DEF Gone
  <2> QED
    BY <1>5, <1>7 DEF Base, Gone
<1>15. Base(R2, S2, T2)
  BY <1>4, <1>5, <1>7, <1>10, <1>11, <1>12, <1>13, <1>14 DEF Base, Registry, Informed
<1> QED
  BY <1>1, <1>15 DEF R2, S2, T2, room

-----------------------------------------------------------------------------
(* Every step keeps the invariant.                                         *)

LEMMA FrameKeeps ==
  ASSUME IInv, Base(rooms', seats', told'), UNCHANGED <<sock, mode>>
  PROVE  IInv'
  BY DEF IInv, Base

(* Sockets close, or begin to: those that are closed have no seat left.    *)
LEMMA SocketsClose ==
  ASSUME IInv, Base(rooms', seats', told'), sock' \in SockMap, mode' \in {"up", "draining", "down"},
         \A c \in Conns : sock'[c] = "open" => sock[c] = "open",
         \A c \in Conns : sock'[c] = "closed" =>
            sock[c] = "closed" \/ (seats'[c] = NoSeat /\ told'[c] = Nothing)
  PROVE  IInv'
<1>1. Registry(rooms', seats')
  BY DEF Base
<1>2. Informed(rooms', seats', told', sock')
  BY DEF Base, Informed
<1>3. Gone(seats', told', sock')
  BY DEF Base, Gone
<1> QED
  BY <1>1, <1>2, <1>3 DEF IInv

LEMMA ClosingFacts ==
  ASSUME sock \in SockMap, NEW cs
  PROVE  /\ Closing(cs) \in SockMap
         /\ \A c \in Conns : /\ Closing(cs)[c] = "open" => sock[c] = "open"
                             /\ Closing(cs)[c] = "closed" => sock[c] = "closed"
  BY DEF Closing, SockMap

LEMMA RegisterHostKeeps ==
  ASSUME IInv, NEW c \in Conns, NEW l \in Locators, NEW who \in Creds, NEW max \in PeerLimits,
         NEW i \in Invites, NEW n \in InviteTtls, RegisterHost(c, l, who, max, i, n)
  PROVE  IInv'
<1> DEFINE R == SweptRooms
           S == SweptSeats
<1>1. Base(R, S, Notified) /\ sock[c] # "closed" /\ S[c] = NoSeat
  BY SweptBase DEF RegisterHost, Serving
<1>2. n \in 0 .. Ttl /\ Ttl \in 0 .. Ttl
  OBVIOUS
<1> HIDE DEF R, S
<1>3. CASE R[l] # NoRoom
  <2> DEFINE X == Reclaimed(R[l], c, max, i, n)
             peer == [R[l].peers[HostPeer] EXCEPT !.conn = c]
             gone == {R[l].hostConn} \ {NoConn}
  <2>1. /\ R[l] \in Room /\ R[l].peers[HostPeer] \in Peer /\ R[l].hostConn \in Conns \cup {NoConn}
        /\ R[l].peers \in [PeerIds -> Peer \cup {NoPeer}]
    BY <1>1, <1>3, RoomFacts, HostIsId DEF Base, Registry, HostsAgree, Hosted
  <2>2. peer \in Peer
    BY <2>1 DEF Peer
  <2>3. X = [R[l] EXCEPT !.hostConn = c, !.max = max, !.invite = i, !.inviteTtl = n,
                         !.ttl = Ttl, !.peers = [@ EXCEPT ![HostPeer] = peer]]
    BY DEF Reclaimed
  <2> HIDE DEF X
  <2>4. [R[l].peers EXCEPT ![HostPeer] = peer] \in [PeerIds -> Peer \cup {NoPeer}]
    BY <2>1, <2>2
  <2>5. /\ X \in Room /\ X.hostConn = c
        /\ X.peers = [R[l].peers EXCEPT ![HostPeer] = peer]
    <3> HIDE DEF peer
    <3> QED
      BY <1>2, <2>1, <2>3, <2>4 DEF Room
  <2>6. X.peers[HostPeer] = peer /\ \A p \in Guests : X.peers[p] = R[l].peers[p]
    <3> HIDE DEF peer
    <3> QED
      BY <2>1, <2>5, HostIsId
  <2>7. gone \in SUBSET Conns /\ Forget(S, gone) = Forget(S, DisplacedHost(l))
    BY <2>1 DEF Forget, DisplacedHost, R
  <2> HIDE DEF gone
  <2>8. Base([R EXCEPT ![l] = X],
             [Forget(S, gone) EXCEPT ![c] = [room |-> l, peer |-> HostPeer]],
             Telling(Notified, {c}, "host"))
    BY <1>1, <1>3, <2>5, <2>6, <2>7, HostTakesSeat DEF gone
  <2>9. /\ rooms' = [R EXCEPT ![l] = X]
        /\ seats' = [Forget(S, gone) EXCEPT ![c] = [room |-> l, peer |-> HostPeer]]
        /\ told' = Telling(Notified, {c}, "host")
        /\ UNCHANGED <<sock, mode>>
    BY <1>3, <2>7 DEF RegisterHost, Exists, R, S, X
  <2> QED
    BY <2>8, <2>9, FrameKeeps
<1>4. CASE R[l] = NoRoom
  <2> DEFINE X == NewRoom(c, who, max, i, n)
             peer == [conn |-> c, accepted |-> TRUE, invite |-> NoInvite]
             peers == [p \in PeerIds |-> IF p = HostPeer THEN peer ELSE NoPeer]
  <2>1. peer \in Peer
    BY DEF Peer
  <2>2. X = [owner |-> who, hostConn |-> c, max |-> max, invite |-> i, inviteTtl |-> n,
             ttl |-> Ttl, peers |-> peers]
    BY DEF NewRoom
  <2>3. peers \in [PeerIds -> Peer \cup {NoPeer}]
    BY <2>1
  <2>4. peers[HostPeer] = peer /\ \A p \in Guests : peers[p] = NoPeer
    BY HostIsId
  <2> HIDE DEF X, peers
  <2>5. X \in Room /\ X.hostConn = c /\ X.peers = peers
    BY <1>2, <2>2, <2>3 DEF Room
  <2>6. Forget(S, {}) = S
    BY <1>1 DEF Forget, Base, Registry, SeatMap
  <2>7. Base([R EXCEPT ![l] = X], [Forget(S, {}) EXCEPT ![c] = [room |-> l, peer |-> HostPeer]],
             Telling(Notified, {c}, "host"))
    BY <1>1, <1>4, <2>4, <2>5, HostTakesSeat
  <2>8. /\ rooms' = [R EXCEPT ![l] = X]
        /\ seats' = [Forget(S, {}) EXCEPT ![c] = [room |-> l, peer |-> HostPeer]]
        /\ told' = Telling(Notified, {c}, "host")
        /\ UNCHANGED <<sock, mode>>
    BY <1>4, <2>6 DEF RegisterHost, Exists, R, S, X
  <2> QED
    BY <2>7, <2>8, FrameKeeps
<1> QED
  BY <1>3, <1>4

(* A host's frame finds its room, and itself as the room's host.           *)
LEMMA HostOfFacts ==
  ASSUME IInv, NEW c \in Conns, NEW l \in Locators, HostOf(c, l)
  PROVE  /\ SweptRooms[l] # NoRoom /\ SweptRooms[l] = rooms[l] /\ l \notin Expired
         /\ rooms[l] \in Room /\ rooms[l].ttl > 0
         /\ rooms[l].hostConn = c
<1>1. Base(SweptRooms, SweptSeats, Notified)
  BY SweptBase
<1>2. SweptRooms[l] # NoRoom /\ SweptRooms[l] = rooms[l] /\ l \notin Expired
  BY DEF HostOf, Exists, SweptRooms
<1>3. rooms[l].ttl \in 0 .. Ttl /\ rooms[l].ttl # 0 /\ rooms[l] \in Room
  BY <1>2, RoomFacts DEF Expired, Exists, IInv, Registry
<1>4. rooms[l].hostConn = c
  BY <1>1, <1>2 DEF HostOf, HostsSeat, Base, Registry, SeatsAgree, HostsAgree, Hosted, PeerOf
<1> QED
  BY <1>2, <1>3, <1>4

LEMMA HostEditsKeep ==
  ASSUME IInv, NEW c \in Conns, NEW l \in Locators, NEW room \in Room,
         room.peers = SweptRooms[l].peers, room.hostConn = SweptRooms[l].hostConn,
         HostEdits(c, l, room)
  PROVE  IInv'
<1> DEFINE R2 == [SweptRooms EXCEPT ![l] = room]
<1>1. Base(SweptRooms, SweptSeats, Notified) /\ SweptRooms[l] # NoRoom
  BY SweptBase DEF HostEdits, HostOf, Exists
<1>2. /\ R2 \in RoomMap /\ R2[l] = room
      /\ \A k \in Locators \ {l} : R2[k] = SweptRooms[k]
  BY <1>1 DEF Base, Registry, RoomMap
<1> HIDE DEF R2
<1>3. Base(R2, SweptSeats, Notified)
  <2>1. \A k \in Locators : R2[k] # NoRoom <=> SweptRooms[k] # NoRoom
    BY <1>1, <1>2
  <2>2. \A k \in Locators : SweptRooms[k] # NoRoom =>
            R2[k].peers = SweptRooms[k].peers /\ R2[k].hostConn = SweptRooms[k].hostConn
    BY <1>2
  <2> QED
    BY <1>1, <1>2, <2>1, <2>2, EditsKeepBase
<1> QED
  BY <1>3, FrameKeeps DEF HostEdits, R2

LEMMA CloseEventKeeps ==
  ASSUME IInv, NEW c \in Conns, CloseEvent(c)
  PROVE  IInv'
<1>1. Base(rooms, seats, told)
  BY DEF IInv, Base
<1>2. /\ Base(rooms', seats', told')
      /\ seats'[c] = NoSeat /\ told'[c] = Nothing
  <2>1. CASE HostDisconnects(c)
    <3> DEFINE l == seats[c].room
    <3>1. HostsSeat(seats, c)
      BY <2>1 DEF HostDisconnects
    <3>2. /\ rooms[l] # NoRoom /\ rooms[l].hostConn = c
          /\ Base([rooms EXCEPT ![l] = WithoutHost(rooms[l])], Forget(seats, {c}),
                  [told EXCEPT ![c] = Nothing])
      BY <1>1, <3>1, HostGoes
    <3>3. /\ rooms' = [rooms EXCEPT ![l] = WithoutHost(rooms[l])]
          /\ seats' = Forget(seats, {c}) /\ told' = [told EXCEPT ![c] = Nothing]
      BY <2>1, <3>2 DEF HostDisconnects, Exists
    <3> QED
      BY <1>1, <3>2, <3>3 DEF Forget, Base, Informed, ToldMap
  <2>2. CASE GuestsSeat(seats, c) /\ RemoveGuest(c, rooms, seats, told)
    BY <1>1, <2>2, GuestLeaves
  <2>3. CASE NobodyDisconnects(c)
    <3>1. /\ seats[c] = NoSeat /\ told' = [told EXCEPT ![c] = Nothing]
          /\ rooms' = rooms /\ seats' = seats
      BY <2>3 DEF NobodyDisconnects, registry
    <3>2. Nothing \in Report /\ Nothing.standing = "none"
      BY DEF Told, Report, Nothing
    <3>3. told' \in ToldMap /\ told'[c] = Nothing /\ \A d \in Conns \ {c} : told'[d] = told[d]
      BY <1>1, <3>1, <3>2 DEF ToldMap, Base, Informed
    <3>4. \A d \in Conns : sock[d] = "open" => Standing(rooms, seats, told', d)
      <4> SUFFICES ASSUME NEW d \in Conns, sock[d] = "open"
                   PROVE  Standing(rooms, seats, told', d)
        OBVIOUS
      <4>1. CASE d = c
        BY <3>1, <3>2, <3>3, <4>1 DEF Standing, Admitted, GuestsSeat
      <4>2. CASE d # c
        BY <1>1, <3>3, <4>2 DEF Base, Informed, Standing
      <4> QED
        BY <4>1, <4>2
    <3>5. Gone(seats, told', sock)
      BY <1>1, <3>3 DEF Base, Gone
    <3> QED
      BY <1>1, <3>1, <3>3, <3>4, <3>5 DEF Base, Informed
  <2> QED
    BY <2>1, <2>2, <2>3 DEF CloseEvent
<1>3. /\ sock' \in SockMap
      /\ \A d \in Conns \ {c} : sock'[d] = sock[d]
      /\ sock'[c] = "closed"
      /\ mode' = mode
  BY DEF CloseEvent, IInv, Informed, SockMap
<1>4. \A d \in Conns : sock'[d] = "open" => sock[d] = "open"
  BY <1>3
<1>5. \A d \in Conns : sock'[d] = "closed" =>
         sock[d] = "closed" \/ (seats'[d] = NoSeat /\ told'[d] = Nothing)
  BY <1>2, <1>3
<1>6. mode' \in {"up", "draining", "down"}
  BY <1>3 DEF IInv
<1> QED
  BY <1>2, <1>3, <1>4, <1>5, <1>6, SocketsClose

LEMMA JoinDecisionsKeep ==
  ASSUME IInv, NEW c \in Conns, NEW l \in Locators, NEW p \in Guests,
         AcceptJoin(c, l, p) \/ RejectJoin(c, l, p)
  PROVE  IInv'
<1> DEFINE R == SweptRooms
           S == SweptSeats
<1>1. Base(R, S, Notified)
  BY SweptBase
<1>2. /\ R[l] # NoRoom /\ R[l].peers[p] # NoPeer /\ ~R[l].peers[p].accepted
      /\ UNCHANGED <<sock, mode>>
  BY DEF AcceptJoin, RejectJoin, HostOf, Exists, Pending, Present
<1>3. CASE AcceptJoin(c, l, p)
  <2> DEFINE room == [R[l] EXCEPT !.peers[p].accepted = TRUE]
  <2>1. /\ rooms' = [R EXCEPT ![l] = room] /\ seats' = S
        /\ told' = Broadcast(Telling(Notified, ConnsOf(room, {p}), "member"), room)
    BY <1>3 DEF AcceptJoin
  <2> HIDE DEF R, S
  <2>2. Base([R EXCEPT ![l] = room], S,
             Broadcast(Telling(Notified, ConnsOf(room, {p}), "member"), room))
    BY <1>1, <1>2, GuestIsAdmitted
  <2> QED
    BY <1>2, <2>1, <2>2, FrameKeeps
<1>4. CASE RejectJoin(c, l, p)
  <2>1. /\ rooms' = WithoutGuest(R, l, p) /\ seats' = Forget(S, ConnsOf(R[l], {p}))
        /\ told' = Telling(Notified, ConnsOf(R[l], {p}), "none")
    BY <1>4 DEF RejectJoin, WithoutGuest
  <2> HIDE DEF R, S
  <2>2. Base(WithoutGuest(R, l, p), Forget(S, ConnsOf(R[l], {p})),
             Telling(Notified, ConnsOf(R[l], {p}), "none"))
    BY <1>1, <1>2, GuestIsDeclined
  <2> QED
    BY <1>2, <2>1, <2>2, FrameKeeps
<1> QED
  BY <1>3, <1>4

LEMMA CloseRoomKeeps ==
  ASSUME IInv, NEW c \in Conns, NEW l \in Locators, CloseRoom(c, l)
  PROVE  IInv'
<1> DEFINE R == SweptRooms
           S == SweptSeats
           members == ConnsOf(R[l], Present(R[l]))
<1>1. Base(R, S, Notified) /\ R[l] # NoRoom
  BY SweptBase DEF CloseRoom, HostOf, Exists
<1>2. /\ rooms' = [R EXCEPT ![l] = NoRoom] /\ seats' = Forget(S, members)
      /\ told' = Telling(Notified, members, "none")
      /\ sock' = Closing(members) /\ mode' = mode
  BY DEF CloseRoom
<1> HIDE DEF R, S
<1>3. Base([R EXCEPT ![l] = NoRoom], Forget(S, members), Telling(Notified, members, "none"))
  BY <1>1, RoomEnds
<1> HIDE DEF members
<1>4. /\ sock' \in SockMap
      /\ \A d \in Conns : /\ sock'[d] = "open" => sock[d] = "open"
                          /\ sock'[d] = "closed" => sock[d] = "closed"
  BY <1>2, ClosingFacts DEF IInv, Informed
<1>5. Base(rooms', seats', told') /\ mode' \in {"up", "draining", "down"}
  BY <1>2, <1>3 DEF IInv
<1> QED
  BY <1>4, <1>5, SocketsClose

LEMMA GuestJoinKeeps ==
  ASSUME IInv, NEW c \in Conns, NEW l \in Locators, NEW p \in Guests, NEW i \in Invites,
         GuestJoin(c, l, p, i)
  PROVE  IInv'
<1> DEFINE R == SweptRooms
           S == SweptSeats
<1>1. Base(R, S, Notified)
  BY SweptBase
<1>2. /\ R[l] # NoRoom /\ R[l].peers[p] = NoPeer /\ S[c] = NoSeat /\ sock[c] # "closed"
      /\ rooms' = [R EXCEPT ![l].peers[p] = NewGuest(c, i)]
      /\ seats' = [S EXCEPT ![c] = [room |-> l, peer |-> p]]
      /\ told' = Telling(Notified, {c}, "pending")
      /\ UNCHANGED <<sock, mode>>
  BY DEF GuestJoin, Joinable, Exists, Serving
<1> HIDE DEF R, S
<1>3. Base([R EXCEPT ![l].peers[p] = NewGuest(c, i)], [S EXCEPT ![c] = [room |-> l, peer |-> p]],
           Telling(Notified, {c}, "pending"))
  BY <1>1, <1>2, GuestAsks
<1> QED
  BY <1>2, <1>3, FrameKeeps

LEMMA DispatchKeeps ==
  ASSUME IInv, NEW c \in Conns, Dispatch(c)
  PROVE  IInv'
<1>1. ASSUME NEW l \in Locators, Heartbeat(c, l) PROVE IInv'
  <2> DEFINE room == [SweptRooms[l] EXCEPT !.ttl = Ttl]
  <2>1. SweptRooms[l] \in Room /\ HostEdits(c, l, room)
    BY <1>1, HostOfFacts DEF Heartbeat, HostEdits
  <2>2. /\ room \in Room /\ room.peers = SweptRooms[l].peers
        /\ room.hostConn = SweptRooms[l].hostConn
    BY <2>1 DEF Room
  <2> QED
    BY <2>1, <2>2, HostEditsKeep
<1>2. ASSUME NEW l \in Locators, NEW i \in Invites, NEW n \in InviteTtls, RotateInvite(c, l, i, n)
      PROVE  IInv'
  <2> DEFINE room == [SweptRooms[l] EXCEPT !.invite = i, !.inviteTtl = n]
  <2>1. SweptRooms[l] \in Room /\ HostEdits(c, l, room)
    BY <1>2, HostOfFacts DEF RotateInvite, HostEdits
  <2>2. /\ room \in Room /\ room.peers = SweptRooms[l].peers
        /\ room.hostConn = SweptRooms[l].hostConn
    <3>1. n \in 0 .. Ttl
      OBVIOUS
    <3> QED
      BY <2>1, <3>1 DEF Room
  <2> QED
    BY <2>1, <2>2, HostEditsKeep
<1>3. ASSUME NEW l \in Locators, RevokeInvite(c, l) PROVE IInv'
  <2> DEFINE room == [SweptRooms[l] EXCEPT !.invite = NoInvite]
  <2>1. SweptRooms[l] \in Room /\ HostEdits(c, l, room)
    BY <1>3, HostOfFacts DEF RevokeInvite, HostEdits
  <2>2. /\ room \in Room /\ room.peers = SweptRooms[l].peers
        /\ room.hostConn = SweptRooms[l].hostConn
    BY <2>1 DEF Room
  <2> QED
    BY <2>1, <2>2, HostEditsKeep
<1>4. ASSUME PeerLeave(c) PROVE IInv'
  <2>1. /\ GuestsSeat(SweptSeats, c) /\ RemoveGuest(c, SweptRooms, SweptSeats, Notified)
        /\ UNCHANGED <<sock, mode>>
    BY <1>4 DEF PeerLeave
  <2> QED
    BY <2>1, SweptBase, GuestLeaves, FrameKeeps
<1>5. ASSUME OtherFrame(c) PROVE IInv'
  BY <1>5, SweptBase, FrameKeeps DEF OtherFrame
<1>6. ASSUME HostFrame(c) PROVE IInv'
  BY <1>1, <1>2, <1>3, <1>6, JoinDecisionsKeep, CloseRoomKeeps DEF HostFrame
<1> QED
  BY <1>4, <1>5, <1>6, RegisterHostKeeps, GuestJoinKeeps DEF Dispatch

LEMMA SocketsKeep ==
  ASSUME IInv, NEW c \in Conns, Connect(c) \/ SocketFails(c)
  PROVE  IInv'
<1>1. /\ UNCHANGED <<rooms, seats, told, mode>> /\ sock' \in SockMap
  <2>1. CASE Connect(c)
    BY <2>1 DEF Connect, registry, IInv, Informed, SockMap
  <2>2. CASE SocketFails(c)
    BY <2>2, ClosingFacts DEF SocketFails, registry, IInv, Informed
  <2> QED
    BY <2>1, <2>2
<1>2. CASE Connect(c)
  <2>1. /\ \A d \in Conns \ {c} : sock'[d] = sock[d]
        /\ sock'[c] = "open" /\ sock[c] = "closed"
    BY <1>2 DEF Connect, IInv, Informed, SockMap
  <2>2. seats[c] = NoSeat /\ told[c].standing = "none"
    BY <2>1 DEF IInv, Gone, Nothing, Told
  <2>3. Standing(rooms, seats, told, c)
    BY <2>2 DEF Standing, Admitted, GuestsSeat
  <2>4. Informed(rooms, seats, told, sock')
    BY <1>1, <2>1, <2>3 DEF IInv, Informed
  <2>5. Gone(seats, told, sock')
    BY <2>1 DEF IInv, Gone
  <2> QED
    BY <1>1, <2>4, <2>5 DEF IInv
<1>3. CASE SocketFails(c)
  <2>1. \A d \in Conns : /\ sock'[d] = "open" => sock[d] = "open"
                         /\ sock'[d] = "closed" => sock[d] = "closed"
    BY <1>3, ClosingFacts DEF SocketFails, IInv, Informed
  <2> QED
    BY <1>1, <2>1, SocketsClose DEF IInv, Base
<1> QED
  BY <1>2, <1>3

LEMMA TimeKeeps ==
  ASSUME IInv, Tick \/ SweepTimer
  PROVE  IInv'
<1>1. CASE Tick
  <2>1. UNCHANGED <<seats, sock, told, mode>> /\ Base(rooms, seats, told)
    BY <1>1 DEF Tick, IInv, Base
  <2>2. \A l \in Locators :
          rooms'[l] = IF rooms[l] # NoRoom
                      THEN [rooms[l] EXCEPT !.ttl = Less(@), !.inviteTtl = Less(@)]
                      ELSE NoRoom
    BY <1>1 DEF Tick, Exists
  <2>3. ASSUME NEW l \in Locators, rooms[l] # NoRoom
        PROVE  /\ rooms'[l] \in Room /\ rooms'[l].peers = rooms[l].peers
               /\ rooms'[l].hostConn = rooms[l].hostConn
    <3>1. rooms[l] \in Room /\ rooms[l].ttl \in 0 .. Ttl /\ rooms[l].inviteTtl \in 0 .. Ttl
      BY <2>3, RoomFacts DEF IInv, Registry
    <3>2. Less(rooms[l].ttl) \in 0 .. Ttl /\ Less(rooms[l].inviteTtl) \in 0 .. Ttl
      BY <3>1 DEF Less
    <3> QED
      BY <2>2, <2>3, <3>1, <3>2 DEF Room
  <2>4. rooms' \in RoomMap
    <3>1. DOMAIN rooms' = Locators /\ rooms' = [l \in Locators |-> rooms'[l]]
      BY <1>1 DEF Tick
    <3> QED
      BY <2>2, <2>3, <3>1 DEF RoomMap
  <2>5. \A l \in Locators : rooms'[l] # NoRoom <=> rooms[l] # NoRoom
    BY <2>2, <2>3
  <2>6. Base(rooms', seats, told)
    BY <2>1, <2>3, <2>4, <2>5, EditsKeepBase
  <2> QED
    BY <2>1, <2>6, FrameKeeps
<1>2. CASE SweepTimer
  <2>1. /\ Base(rooms', seats', told') /\ sock' = Closing(Evicted) /\ mode' = mode
    BY <1>2, SweptBase DEF SweepTimer
  <2>2. /\ sock' \in SockMap
        /\ \A c \in Conns : /\ sock'[c] = "open" => sock[c] = "open"
                            /\ sock'[c] = "closed" => sock[c] = "closed"
    BY <2>1, ClosingFacts DEF IInv, Informed
  <2> QED
    BY <2>1, <2>2, SocketsClose DEF IInv
<1> QED
  BY <1>1, <1>2

LEMMA EmptyRegistry ==
  Registry([l \in Locators |-> NoRoom], [c \in Conns |-> NoSeat])
  BY DEF Registry, RoomMap, SeatMap, SeatsAgree, PeersAgree, HostsAgree

LEMMA ProcessKeeps ==
  ASSUME IInv, Drain \/ CloseServer \/ Restart
  PROVE  IInv'
<1>1. Nothing \in Report /\ Nothing.standing = "none" /\ Told("none") = Nothing
  BY DEF Told, Report, Nothing
<1>2. CASE Drain
  <2> DEFINE seated == {c \in Conns : seats[c] # NoSeat}
  <2>1. /\ rooms' = [l \in Locators |-> NoRoom] /\ seats' = [c \in Conns |-> NoSeat]
        /\ told' = Telling(told, seated, "none") /\ sock' = sock /\ mode' = "draining"
    BY <1>2 DEF Drain
  <2>2. /\ told' \in ToldMap
        /\ \A c \in Conns : told'[c] = IF c \in seated /\ sock[c] = "open"
                                       THEN Nothing ELSE told[c]
    BY <1>1, <2>1 DEF Telling, ToldMap, IInv, Informed
  <2>3. ASSUME NEW c \in Conns, sock[c] = "open" PROVE Standing(rooms', seats', told', c)
    <3>1. ~GuestsSeat(seats', c) /\ ~Admitted(rooms', seats', c)
      BY <2>1 DEF GuestsSeat, Admitted
    <3>2. Standing(rooms, seats, told, c)
      BY <2>3 DEF IInv, Informed
    <3>3. told'[c].standing \notin {"member", "pending"}
      BY <1>1, <2>2, <2>3, <3>2 DEF Standing, Admitted, GuestsSeat
    <3> QED
      BY <3>1, <3>3 DEF Standing
  <2>4. Informed(rooms', seats', told', sock')
    BY <2>1, <2>2, <2>3 DEF IInv, Informed
  <2>5. Gone(seats', told', sock')
    BY <2>1, <2>2 DEF IInv, Gone
  <2> QED
    BY <2>1, <2>4, <2>5, EmptyRegistry DEF IInv
<1>3. CASE CloseServer
  <2>1. /\ rooms' = [l \in Locators |-> NoRoom] /\ seats' = [c \in Conns |-> NoSeat]
        /\ told' = [c \in Conns |-> Nothing] /\ sock' = [c \in Conns |-> "closed"]
        /\ mode' = "down"
    BY <1>3 DEF CloseServer
  <2>2. Informed(rooms', seats', told', sock')
    BY <1>1, <2>1 DEF Informed, ToldMap, SockMap
  <2>3. Gone(seats', told', sock')
    BY <2>1 DEF Gone
  <2> QED
    BY <2>1, <2>2, <2>3, EmptyRegistry DEF IInv
<1>4. CASE Restart
  BY <1>4 DEF Restart, registry, IInv
<1> QED
  BY <1>2, <1>3, <1>4

LEMMA InitIInv == Init => IInv
<1> SUFFICES ASSUME Init PROVE IInv
  OBVIOUS
<1>1. Nothing \in Report
  BY DEF Told, Report, Nothing
<1>2. Informed(rooms, seats, told, sock) /\ Gone(seats, told, sock)
  BY <1>1 DEF Init, Informed, Gone, ToldMap, SockMap
<1> QED
  BY <1>2, EmptyRegistry DEF Init, IInv

LEMMA StepIInv == IInv /\ [Next]_vars => IInv'
<1> SUFFICES ASSUME IInv, [Next]_vars PROVE IInv'
  OBVIOUS
<1>1. CASE UNCHANGED vars
  BY <1>1 DEF vars, IInv
<1>2. CASE Next
  BY <1>2, DispatchKeeps, SocketsKeep, CloseEventKeeps, TimeKeeps, ProcessKeeps DEF Next
<1> QED
  BY <1>1, <1>2

-----------------------------------------------------------------------------
(* The theorems                                                            *)

(* Every reachable state of the service satisfies the invariant.           *)
THEOREM Invariance == Spec => []IInv
  BY InitIInv, StepIInv, PTL DEF Spec

(* The variables of the service have their types.                          *)
THEOREM TypeCorrect == Spec => []TypeOK
<1>1. IInv => TypeOK
  BY DEF IInv, Registry, Informed, RoomMap, SeatMap, ToldMap, SockMap, Report, TypeOK
<1> QED
  BY <1>1, Invariance, PTL

(* The rooms' peers and the connections' seats are the two sides of one    *)
(* relation, whatever the limits and however many connect.                 *)
THEOREM RegistryHolds == Spec => []RegistryAgrees
<1>1. IInv => RegistryAgrees
  BY RegistryIsRegistryAgrees DEF IInv, Registry
<1> QED
  BY <1>1, Invariance, PTL

(* What a guest was last told of its standing is so: nobody is admitted,   *)
(* declined, dropped or swept without a word.                              *)
THEOREM StandingIsKnown == Spec => []GuestsKnowTheirStanding
<1>1. IInv => GuestsKnowTheirStanding
  BY InformedIsKnown DEF IInv
<1> QED
  BY <1>1, Invariance, PTL

(* Every admitted guest has been sent the roster of its room.              *)
THEOREM RosterIsSent == Spec => []RosterIsCurrent
<1>1. IInv => RosterIsCurrent
  BY InformedIsKnown DEF IInv
<1> QED
  BY <1>1, Invariance, PTL

(* A frame is relayed from a member to the connection that speaks for the  *)
(* member it names.                                                        *)
THEOREM RelayIsSound == Spec => []RelayReachesTheMember
<1>1. IInv => RelayReachesTheMember
  <2> SUFFICES ASSUME IInv, NEW c \in Conns, NEW p \in PeerIds,
                      NEW to, to = RelayLookup(c, p), to # NoConn
               PROVE  /\ seats[c] # NoSeat /\ seats[to] # NoSeat
                      /\ seats[to] = [room |-> seats[c].room, peer |-> p]
                      /\ {p, seats[c].peer} \subseteq Accepted(rooms[seats[c].room])
    BY DEF RelayReachesTheMember
  <2> DEFINE s == SweptSeats[c]
  <2>1. /\ SenderAdmitted(c) /\ p \in Accepted(SweptRooms[s.room])
        /\ to = SweptRooms[s.room].peers[p].conn
    BY DEF RelayLookup
  <2>2. /\ s # NoSeat /\ SweptRooms[s.room] # NoRoom
        /\ s.peer \in Accepted(SweptRooms[s.room])
    BY <2>1 DEF SenderAdmitted, Exists
  <2>3. s = seats[c] /\ seats[c].room \in Locators
    BY <2>2, SeatFacts DEF SweptSeats, Forget, IInv, Registry
  <2> HIDE DEF s
  <2>4. SweptRooms[s.room] = rooms[s.room] /\ rooms[s.room] # NoRoom
    BY <2>2, <2>3 DEF SweptRooms
  <2>5. seats[to] = [room |-> s.room, peer |-> p]
    BY <2>1, <2>3, <2>4 DEF IInv, Registry, PeersAgree, Accepted, Present
  <2>6. seats[to] # NoSeat
    BY <2>1, <2>3, <2>5 DEF Seat, Accepted, Present
  <2> QED
    BY <2>1, <2>2, <2>3, <2>4, <2>5, <2>6
<1> QED
  BY <1>1, Invariance, PTL

-----------------------------------------------------------------------------
(* What a step may do to a room                                            *)

LEMMA SweptFacts ==
  ASSUME NEW l \in Locators, SweptRooms[l] # NoRoom
  PROVE  SweptRooms[l] = rooms[l] /\ rooms[l] # NoRoom /\ rooms[l].ttl # 0
  BY DEF SweptRooms, Expired, Exists

(* How one room comes out of a step: gone; with the guests it had, and as  *)
(* much time or, if it had any, more; with a guest less; with one asking;  *)
(* with one admitted by its host; or new.                                  *)
GuestsKept(old, new) == \A p \in Guests : new.peers[p] = old.peers[p]
Lives(l) == rooms[l] # NoRoom /\ rooms[l].ttl # 0
Comes(l) ==
  \/ rooms'[l] = NoRoom
  \/ rooms[l] # NoRoom /\ GuestsKept(rooms[l], rooms'[l]) /\ rooms'[l].ttl = Less(rooms[l].ttl)
  \/ rooms[l] # NoRoom /\ GuestsKept(rooms[l], rooms'[l]) /\ rooms'[l].ttl = rooms[l].ttl
  \/ Lives(l) /\ GuestsKept(rooms[l], rooms'[l])
  \/ \E p \in Guests : rooms[l] # NoRoom /\ rooms'[l] = [rooms[l] EXCEPT !.peers[p] = NoPeer]
  \/ \E p \in Guests, c \in Conns, i \in Invites :
       Lives(l) /\ rooms'[l] = [rooms[l] EXCEPT !.peers[p] = NewGuest(c, i)]
  \/ \E p \in Guests :
       /\ Lives(l) /\ rooms'[l] = [rooms[l] EXCEPT !.peers[p].accepted = TRUE]
       /\ rooms[l].peers[p] # NoPeer /\ rooms[l].hostConn # NoConn
       /\ Admissible(rooms[l], p)
  \/ Present(rooms'[l]) = {HostPeer}

(* Updating one room of the swept registry says how every room comes out.  *)
LEMMA SweptUpdate ==
  ASSUME IInv, NEW k \in Locators, NEW X,
         rooms' = [SweptRooms EXCEPT ![k] = X],
         rooms'[k] = X => Comes(k)
  PROVE  \A l \in Locators : Comes(l)
<1> SUFFICES ASSUME NEW l \in Locators PROVE Comes(l)
  OBVIOUS
<1>1. rooms'[k] = X /\ (l # k => rooms'[l] = SweptRooms[l])
  BY DEF SweptRooms
<1>2. CASE l = k
  BY <1>1, <1>2
<1>3. CASE l # k /\ SweptRooms[l] = NoRoom
  BY <1>1, <1>3 DEF Comes
<1>4. CASE l # k /\ SweptRooms[l] # NoRoom
  BY <1>1, <1>4, SweptFacts DEF Comes, Lives, GuestsKept
<1> QED
  BY <1>2, <1>3, <1>4

LEMMA SweptOnly ==
  ASSUME rooms' = SweptRooms \/ rooms' = rooms
  PROVE  \A l \in Locators : Comes(l)
  BY SweptFacts DEF Comes, Lives, GuestsKept

LEMMA RegisterHostComes ==
  ASSUME IInv, NEW c \in Conns, NEW l \in Locators, NEW who \in Creds, NEW max \in PeerLimits,
         NEW i \in Invites, NEW n \in InviteTtls, RegisterHost(c, l, who, max, i, n)
  PROVE  \A k \in Locators : Comes(k)
<1>1. CASE SweptRooms[l] # NoRoom
  <2> DEFINE X == Reclaimed(SweptRooms[l], c, max, i, n)
  <2>1. rooms' = [SweptRooms EXCEPT ![l] = X]
    BY <1>1 DEF RegisterHost, Exists
  <2>2. SweptRooms[l] = rooms[l] /\ Lives(l) /\ rooms[l] \in Room
    BY <1>1, SweptFacts, RoomFacts DEF Lives, IInv, Registry
  <2>3. GuestsKept(rooms[l], X)
    <3>1. X.peers = [rooms[l].peers EXCEPT ![HostPeer] = [@ EXCEPT !.conn = c]]
      BY <2>2 DEF Reclaimed, Room
    <3>2. rooms[l].peers \in [PeerIds -> Peer \cup {NoPeer}]
      BY <2>2 DEF Room
    <3> HIDE DEF X
    <3> QED
      BY <3>1, <3>2, HostIsId DEF GuestsKept
  <2> HIDE DEF X
  <2>4. rooms'[l] = X => Comes(l)
    BY <2>2, <2>3 DEF Comes
  <2> QED
    BY <2>1, <2>4, SweptUpdate
<1>2. CASE SweptRooms[l] = NoRoom
  <2> DEFINE X == NewRoom(c, who, max, i, n)
  <2>1. rooms' = [SweptRooms EXCEPT ![l] = X]
    BY <1>2 DEF RegisterHost, Exists
  <2>2. Present(X) = {HostPeer}
    <3> DEFINE peer == [conn |-> c, accepted |-> TRUE, invite |-> NoInvite]
    <3>1. peer \in Peer
      BY DEF Peer
    <3>2. X.peers = [p \in PeerIds |-> IF p = HostPeer THEN peer ELSE NoPeer]
      BY DEF NewRoom
    <3> HIDE DEF X, peer
    <3>3. peer # NoPeer
      BY <3>1
    <3> QED
      BY <3>2, <3>3, HostIsId DEF Present
  <2> HIDE DEF X
  <2>3. rooms'[l] = X => Comes(l)
    BY <2>2 DEF Comes
  <2> QED
    BY <2>1, <2>3, SweptUpdate
<1> QED
  BY <1>1, <1>2

LEMMA HostFrameComes ==
  ASSUME IInv, NEW c \in Conns, HostFrame(c)
  PROVE  \A k \in Locators : Comes(k)
<1>0. PICK l \in Locators :
        \/ Heartbeat(c, l)
        \/ \E i \in Invites, n \in InviteTtls : RotateInvite(c, l, i, n)
        \/ RevokeInvite(c, l)
        \/ \E p \in Guests : AcceptJoin(c, l, p) \/ RejectJoin(c, l, p)
        \/ CloseRoom(c, l)
  BY DEF HostFrame
<1>1. HostOf(c, l)
  BY <1>0 DEF Heartbeat, RotateInvite, RevokeInvite, HostEdits, AcceptJoin, RejectJoin, CloseRoom
<1>2. /\ SweptRooms[l] = rooms[l] /\ Lives(l) /\ rooms[l] \in Room
      /\ rooms[l].hostConn = c /\ c # NoConn
  BY <1>1, HostOfFacts DEF Lives
<1>3. ASSUME NEW X, HostEdits(c, l, X), X.peers = rooms[l].peers
      PROVE  \A k \in Locators : Comes(k)
  <2>1. rooms' = [SweptRooms EXCEPT ![l] = X]
    BY <1>3 DEF HostEdits
  <2>2. rooms'[l] = X => Comes(l)
    BY <1>2, <1>3 DEF Comes, GuestsKept
  <2> QED
    BY <2>1, <2>2, SweptUpdate
<1>4. CASE Heartbeat(c, l) \/ RevokeInvite(c, l)
            \/ \E i \in Invites, n \in InviteTtls : RotateInvite(c, l, i, n)
  <2>1. CASE Heartbeat(c, l)
    <3>1. [rooms[l] EXCEPT !.ttl = Ttl].peers = rooms[l].peers
      BY <1>2 DEF Room
    <3> QED
      BY <1>2, <1>3, <2>1, <3>1 DEF Heartbeat
  <2>2. CASE RevokeInvite(c, l)
    <3>1. [rooms[l] EXCEPT !.invite = NoInvite].peers = rooms[l].peers
      BY <1>2 DEF Room
    <3> QED
      BY <1>2, <1>3, <2>2, <3>1 DEF RevokeInvite
  <2>3. ASSUME NEW i \in Invites, NEW n \in InviteTtls, RotateInvite(c, l, i, n)
        PROVE  \A k \in Locators : Comes(k)
    <3>1. [rooms[l] EXCEPT !.invite = i, !.inviteTtl = n].peers = rooms[l].peers
      BY <1>2 DEF Room
    <3> QED
      BY <1>2, <1>3, <2>3, <3>1 DEF RotateInvite
  <2> QED
    BY <1>4, <2>1, <2>2, <2>3
<1>5. ASSUME NEW p \in Guests, AcceptJoin(c, l, p) PROVE \A k \in Locators : Comes(k)
  <2> DEFINE X == [rooms[l] EXCEPT !.peers[p].accepted = TRUE]
  <2>1. rooms' = [SweptRooms EXCEPT ![l] = X]
    BY <1>2, <1>5 DEF AcceptJoin
  <2>2. rooms[l].peers[p] # NoPeer /\ Admissible(rooms[l], p)
    BY <1>2, <1>5 DEF AcceptJoin, Pending, Present
  <2>3. rooms'[l] = X => Comes(l)
    BY <1>2, <2>2 DEF Comes
  <2> HIDE DEF X
  <2> QED
    BY <2>1, <2>3, SweptUpdate
<1>6. ASSUME NEW p \in Guests, RejectJoin(c, l, p) PROVE \A k \in Locators : Comes(k)
  <2> DEFINE X == [rooms[l] EXCEPT !.peers[p] = NoPeer]
  <2>1. rooms' = [SweptRooms EXCEPT ![l] = X]
    BY <1>2, <1>6 DEF RejectJoin
  <2>2. rooms'[l] = X => Comes(l)
    BY <1>2 DEF Comes, Lives
  <2> HIDE DEF X
  <2> QED
    BY <2>1, <2>2, SweptUpdate
<1>7. CASE CloseRoom(c, l)
  <2>1. rooms' = [SweptRooms EXCEPT ![l] = NoRoom] /\ (rooms'[l] = NoRoom => Comes(l))
    BY <1>7 DEF CloseRoom, Comes
  <2> QED
    BY <2>1, SweptUpdate
<1> QED
  BY <1>0, <1>4, <1>5, <1>6, <1>7

LEMMA StepComes ==
  ASSUME IInv, [Next]_vars
  PROVE  \A l \in Locators : Comes(l)
<1>1. ASSUME NEW c \in Conns, NEW l \in Locators, NEW p \in Guests, NEW i \in Invites,
             GuestJoin(c, l, p, i)
      PROVE  \A k \in Locators : Comes(k)
  <2> DEFINE X == [rooms[l] EXCEPT !.peers[p] = NewGuest(c, i)]
  <2>1. SweptRooms[l] = rooms[l] /\ Lives(l)
    BY <1>1, SweptFacts DEF GuestJoin, Joinable, Exists, Lives
  <2>2. rooms' = [SweptRooms EXCEPT ![l] = X]
    BY <1>1, <2>1 DEF GuestJoin
  <2>3. rooms'[l] = X => Comes(l)
    BY <2>1 DEF Comes
  <2> HIDE DEF X
  <2> QED
    BY <2>2, <2>3, SweptUpdate
<1>2. ASSUME NEW c \in Conns, PeerLeave(c) PROVE \A k \in Locators : Comes(k)
  <2>1. Base(SweptRooms, SweptSeats, Notified)
    BY SweptBase
  <2> DEFINE l == SweptSeats[c].room
             p == SweptSeats[c].peer
             X == [rooms[l] EXCEPT !.peers[p] = NoPeer]
  <2>2. l \in Locators /\ p \in Guests /\ SweptRooms[l] # NoRoom
    BY <1>2, <2>1, SeatFacts, HostIsId DEF PeerLeave, GuestsSeat, Base, Registry, SeatsAgree
  <2>3. SweptRooms[l] = rooms[l] /\ Lives(l)
    BY <2>2, SweptFacts DEF Lives
  <2>4. rooms' = [SweptRooms EXCEPT ![l] = X]
    BY <1>2, <2>2, <2>3 DEF PeerLeave, RemoveGuest, WithoutGuest, Exists
  <2>5. rooms'[l] = X => Comes(l)
    BY <2>2, <2>3 DEF Comes, Lives
  <2> HIDE DEF X, l, p
  <2> QED
    BY <2>2, <2>4, <2>5, SweptUpdate
<1>3. ASSUME NEW c \in Conns, OtherFrame(c) PROVE \A k \in Locators : Comes(k)
  BY <1>3, SweptOnly DEF OtherFrame
<1>4. ASSUME NEW c \in Conns, Connect(c) \/ SocketFails(c) PROVE \A k \in Locators : Comes(k)
  BY <1>4, SweptOnly DEF Connect, SocketFails, registry
<1>5. ASSUME NEW c \in Conns, CloseEvent(c) PROVE \A k \in Locators : Comes(k)
  <2> DEFINE l == seats[c].room
             p == seats[c].peer
  <2>0. Base(rooms, seats, told)
    BY DEF IInv, Base
  <2>1. CASE HostDisconnects(c)
    <3>1. l \in Locators /\ rooms[l] # NoRoom /\ rooms[l] \in Room
      BY <2>0, <2>1, SeatFacts, RoomFacts
         DEF HostDisconnects, HostsSeat, Base, Registry, SeatsAgree
    <3> DEFINE X == WithoutHost(rooms[l])
    <3>2. X.ttl = rooms[l].ttl /\ GuestsKept(rooms[l], X)
      <4>1. X = [rooms[l] EXCEPT !.hostConn = NoConn,
                   !.peers = [rooms[l].peers EXCEPT
                     ![HostPeer] = [rooms[l].peers[HostPeer] EXCEPT !.conn = NoConn]]]
        BY DEF WithoutHost
      <4>2. rooms[l].peers \in [PeerIds -> Peer \cup {NoPeer}]
        BY <3>1 DEF Room
      <4>3. /\ X.ttl = rooms[l].ttl
            /\ X.peers = [rooms[l].peers EXCEPT
                            ![HostPeer] = [rooms[l].peers[HostPeer] EXCEPT !.conn = NoConn]]
        BY <3>1, <4>1 DEF Room
      <4> HIDE DEF X
      <4> QED
        BY <4>2, <4>3, HostIsId DEF GuestsKept
    <3> HIDE DEF X
    <3>3. rooms' = [rooms EXCEPT ![l] = X] \/ rooms' = rooms
      BY <2>1, <3>1 DEF HostDisconnects, X
    <3>4. ASSUME NEW k \in Locators PROVE Comes(k)
      <4>1. rooms'[k] = rooms[k] \/ (k = l /\ rooms'[k] = X)
        BY <3>3 DEF IInv, Registry, RoomMap
      <4> HIDE DEF l
      <4> QED
        BY <3>1, <3>2, <4>1 DEF Comes, GuestsKept
    <3> QED
      BY <3>4
  <2>2. CASE GuestsSeat(seats, c) /\ RemoveGuest(c, rooms, seats, told)
    <3>1. l \in Locators /\ p \in Guests /\ rooms[l] # NoRoom
      BY <2>0, <2>2, SeatFacts, HostIsId DEF GuestsSeat, Base, Registry, SeatsAgree
    <3> DEFINE X == [rooms[l] EXCEPT !.peers[p] = NoPeer]
    <3>2. rooms' = [rooms EXCEPT ![l] = X]
      BY <2>2, <3>1 DEF RemoveGuest, WithoutGuest, Exists
    <3>3. ASSUME NEW k \in Locators PROVE Comes(k)
      <4>1. CASE k # l
        BY <3>2, <4>1 DEF IInv, Registry, RoomMap, Comes, GuestsKept
      <4>2. CASE k = l
        BY <3>1, <3>2, <4>2 DEF IInv, Registry, RoomMap, Comes
      <4> QED
        BY <4>1, <4>2
    <3> QED
      BY <3>3
  <2>3. CASE NobodyDisconnects(c)
    BY <2>3, SweptOnly DEF NobodyDisconnects, registry
  <2> QED
    BY <1>5, <2>1, <2>2, <2>3 DEF CloseEvent
<1>6. ASSUME Tick PROVE \A k \in Locators : Comes(k)
  <2> SUFFICES ASSUME NEW k \in Locators, rooms[k] # NoRoom PROVE Comes(k)
    BY <1>6 DEF Tick, Exists, Comes
  <2>1. rooms'[k] = [rooms[k] EXCEPT !.ttl = Less(@), !.inviteTtl = Less(@)]
    BY <1>6 DEF Tick, Exists
  <2>2. rooms[k] \in Room
    BY RoomFacts DEF IInv, Registry
  <2>3. rooms'[k].peers = rooms[k].peers /\ rooms'[k].ttl = Less(rooms[k].ttl)
    BY <2>1, <2>2 DEF Room
  <2> QED
    BY <2>3 DEF Comes, GuestsKept
<1>7. ASSUME SweepTimer \/ Restart \/ UNCHANGED vars PROVE \A k \in Locators : Comes(k)
  BY <1>7, SweptOnly DEF SweepTimer, Restart, registry, vars
<1>8. ASSUME Drain \/ CloseServer PROVE \A k \in Locators : Comes(k)
  BY <1>8 DEF Drain, CloseServer, Comes
<1> QED
  BY <1>1, <1>2, <1>3, <1>4, <1>5, <1>6, <1>7, <1>8, RegisterHostComes, HostFrameComes
     DEF Next, Dispatch

(* A guest is admitted only by a decision that a seated host takes under   *)
(* the invite the guest presented, while that and the room are valid.      *)
THEOREM AdmissionIsSound == Spec => AdmissionIsDecided
<1>1. ASSUME IInv, [Next]_vars, NEW l \in Locators, NEW p \in Guests,
             Exists(rooms', l), p \in Accepted(rooms'[l])
      PROVE  /\ Exists(rooms, l)
             /\ p \in Present(rooms[l])
             /\ \/ p \in Accepted(rooms[l])
                \/ /\ rooms[l].hostConn # NoConn
                   /\ rooms[l].ttl > 0 /\ rooms[l].inviteTtl > 0
                   /\ rooms[l].peers[p].invite = rooms[l].invite
  <2>1. Comes(l) /\ rooms'[l] # NoRoom
    BY <1>1, StepComes DEF Exists
  <2>2. p \in PeerIds /\ p # HostPeer /\ rooms'[l].peers[p] # NoPeer /\ rooms'[l].peers[p].accepted
    BY <1>1, HostIsId DEF Accepted, Present
  <2>3. p \in Present(rooms'[l]) /\ Present(rooms'[l]) # {HostPeer}
    BY <2>2 DEF Present
  <2>4. rooms[l] # NoRoom
    BY <2>1, <2>3 DEF Comes, Lives
  <2>5. rooms[l] \in Room /\ rooms[l].peers \in [PeerIds -> Peer \cup {NoPeer}]
        /\ rooms[l].ttl \in 0 .. Ttl
    BY <1>1, <2>4, RoomFacts DEF IInv, Registry
  <2>6. CASE GuestsKept(rooms[l], rooms'[l])
    BY <1>1, <2>2, <2>4, <2>6 DEF GuestsKept, Exists, Accepted, Present
  <2>7. ASSUME NEW q \in Guests, NEW peer, rooms'[l] = [rooms[l] EXCEPT !.peers[q] = peer],
               ~peer.accepted \/ peer = NoPeer
        PROVE  rooms'[l].peers[p] = rooms[l].peers[p]
    <3>1. rooms'[l].peers = [rooms[l].peers EXCEPT ![q] = peer]
      BY <2>5, <2>7 DEF Room
    <3>2. q \in PeerIds
      BY HostIsId
    <3>3. rooms'[l].peers[q] = peer /\ \A r \in PeerIds \ {q} : rooms'[l].peers[r] = rooms[l].peers[r]
      BY <2>5, <3>1, <3>2
    <3> QED
      BY <2>2, <2>7, <3>3
  <2>8. ASSUME NEW q \in Guests, Lives(l), rooms'[l] = [rooms[l] EXCEPT !.peers[q].accepted = TRUE],
               rooms[l].peers[q] # NoPeer, rooms[l].hostConn # NoConn, Admissible(rooms[l], q)
        PROVE  p = q \/ rooms'[l].peers[p] = rooms[l].peers[p]
    BY <2>2, <2>5, <2>8, HostIsId DEF Room
  <2>9. \A c \in Conns, i \in Invites : ~NewGuest(c, i).accepted
    BY DEF NewGuest
  <2>10. CASE rooms'[l].peers[p] = rooms[l].peers[p]
    BY <2>2, <2>4, <2>10 DEF Exists, Accepted, Present
  <2>11. ASSUME Lives(l), rooms[l].peers[p] # NoPeer, rooms[l].hostConn # NoConn,
                Admissible(rooms[l], p)
         PROVE  /\ p \in Present(rooms[l]) /\ rooms[l].hostConn # NoConn
                /\ rooms[l].ttl > 0 /\ rooms[l].inviteTtl > 0
                /\ rooms[l].peers[p].invite = rooms[l].invite
    BY <2>2, <2>5, <2>11 DEF Lives, Admissible, Present
  <2>12. \/ GuestsKept(rooms[l], rooms'[l])
         \/ rooms'[l].peers[p] = rooms[l].peers[p]
         \/ /\ Lives(l) /\ rooms[l].peers[p] # NoPeer /\ rooms[l].hostConn # NoConn
            /\ Admissible(rooms[l], p)
    BY <2>1, <2>3, <2>7, <2>8, <2>9 DEF Comes
  <2> QED
    BY <2>4, <2>6, <2>10, <2>11, <2>12 DEF Exists
<1>2. IInv /\ [Next]_vars =>
        [\A l \in Locators, p \in Guests :
           Exists(rooms', l) /\ p \in Accepted(rooms'[l]) =>
              /\ Exists(rooms, l)
              /\ p \in Present(rooms[l])
              /\ \/ p \in Accepted(rooms[l])
                 \/ /\ rooms[l].hostConn # NoConn
                    /\ rooms[l].ttl > 0 /\ rooms[l].inviteTtl > 0
                    /\ rooms[l].peers[p].invite = rooms[l].invite]_vars
  BY <1>1
<1> QED
  BY <1>2, Invariance, PTL DEF Spec, AdmissionIsDecided

(* A room whose time is up is gone for good: what stands in its place has  *)
(* no more time, or is a new room with its host alone.                     *)
THEOREM ExpiryHolds == Spec => ExpiryIsFinal
<1>1. ASSUME IInv, [Next]_vars, NEW l \in Locators, Exists(rooms, l), rooms[l].ttl = 0,
             Exists(rooms', l)
      PROVE  rooms'[l].ttl = 0 \/ Present(rooms'[l]) = {HostPeer}
  <2>1. Comes(l) /\ rooms'[l] # NoRoom /\ ~Lives(l)
    BY <1>1, StepComes DEF Exists, Lives
  <2>2. Less(rooms[l].ttl) = 0
    BY <1>1 DEF Less
  <2>3. rooms[l] \in Room
    BY <1>1, RoomFacts DEF Exists, IInv, Registry
  <2>4. \A p \in Guests : [rooms[l] EXCEPT !.peers[p] = NoPeer].ttl = rooms[l].ttl
    BY <2>3 DEF Room
  <2> QED
    BY <1>1, <2>1, <2>2, <2>4 DEF Comes
<1>2. IInv /\ [Next]_vars =>
        [\A l \in Locators :
           Exists(rooms, l) /\ rooms[l].ttl = 0 /\ Exists(rooms', l) =>
              rooms'[l].ttl = 0 \/ Present(rooms'[l]) = {HostPeer}]_vars
  BY <1>1
<1> QED
  BY <1>2, Invariance, PTL DEF Spec, ExpiryIsFinal

=============================================================================
