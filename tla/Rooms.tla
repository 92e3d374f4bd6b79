---------------------------------- MODULE Rooms ----------------------------------
(***************************************************************************)
(* The Junction signaling service: the registry of rooms.ts (rooms, their  *)
(* peers, and the seat of every connection) driven by the frames, timers   *)
(* and socket events of server.ts.  Node runs one handler at a time, so a  *)
(* frame, a close event or a timer is one step.                            *)
(*                                                                         *)
(* Instants are kept as the time that is left: a room lives while ttl > 0  *)
(* and its invite is valid while inviteTtl > 0.  A credential stands for   *)
(* the pair of host fingerprint and recovery secret, an invite for the     *)
(* hash of its token.                                                      *)
(***************************************************************************)
EXTENDS Integers, FiniteSets

CONSTANTS Conns,      \* WebSocket connections
          Locators,   \* room locators
          Guests,     \* peer ids of guests
          HostPeer,   \* the peer id of a room's host
          Creds,      \* credentials that claim a room
          Invites,    \* invite tokens
          NoConn, NoRoom, NoPeer, NoSeat, NoInvite,
          MaxRooms,   \* config.maxRooms
          MaxPeers,   \* config.maxPeersPerRoom
          PeerLimits, \* the values of maxPeers a host may ask for
          Ttl,        \* config.roomTtlSeconds
          InviteTtls  \* how long a host lets an invite live

ASSUME NoValues == /\ NoConn \notin Conns
                   /\ NoInvite \notin Invites
                   /\ HostPeer \notin Guests
ASSUME Limits == /\ MaxRooms \in Nat
                 /\ MaxPeers \in Nat /\ PeerLimits \subseteq 1 .. MaxPeers
                 /\ Ttl \in Nat /\ Ttl > 0 /\ InviteTtls \subseteq 1 .. Ttl
                 /\ IsFiniteSet(Locators)

VARIABLES rooms,    \* RoomRegistry.rooms
          seats,    \* RoomRegistry.connections
          sock,     \* the state of every connection's socket
          told,     \* what a connection was last told: its standing, and
                    \* the last room.roster since then
          mode      \* "up", "draining" while shutdown() runs, "down"

registry == <<rooms, seats>>
vars == <<rooms, seats, sock, told, mode>>

PeerIds == Guests \cup {HostPeer}
Peer == [conn : Conns \cup {NoConn}, accepted : BOOLEAN, invite : Invites \cup {NoInvite}]
Room == [owner : Creds, hostConn : Conns \cup {NoConn}, max : PeerLimits,
         invite : Invites \cup {NoInvite}, inviteTtl : 0 .. Ttl, ttl : 0 .. Ttl,
         peers : [PeerIds -> Peer \cup {NoPeer}]]
Seat == [room : Locators, peer : PeerIds]

ASSUME NoRecords == NoRoom \notin Room /\ NoPeer \notin Peer /\ NoSeat \notin Seat

-----------------------------------------------------------------------------
(* Reading the registry                                                    *)

Present(room) == {p \in PeerIds : room.peers[p] # NoPeer}
Accepted(room) == {p \in Present(room) : room.peers[p].accepted}
ConnsOf(room, ps) == {room.peers[p].conn : p \in ps} \ {NoConn}

Exists(rm, l) == rm[l] # NoRoom
HostsSeat(st, c) == st[c] # NoSeat /\ st[c].peer = HostPeer
GuestsSeat(st, c) == st[c] # NoSeat /\ st[c].peer # HostPeer

Forget(st, cs) == [c \in Conns |-> IF c \in cs THEN NoSeat ELSE st[c]]

(* The rooms the sweep finds, and what it leaves.  dispatch() sweeps       *)
(* before it looks at a frame, so every handler below reads SweptRooms and *)
(* SweptSeats.                                                             *)
NeverSwept == {}
Expired == {l \in Locators : Exists(rooms, l) /\ rooms[l].ttl = 0}
Evicted == UNION {ConnsOf(rooms[l], Present(rooms[l])) : l \in Expired}
SweptRooms == [l \in Locators |-> IF l \in Expired THEN NoRoom ELSE rooms[l]]
SweptSeats == Forget(seats, Evicted)

(* send() reaches open sockets only.                                       *)
Told(standing) == [standing |-> standing, roster |-> {}]
Nothing == Told("none")
Telling(t, cs, standing) ==
    [c \in Conns |-> IF c \in cs /\ sock[c] = "open" THEN Told(standing) ELSE t[c]]
BroadcastToHost(t, room) ==
    [c \in Conns |-> IF c = room.hostConn /\ sock[c] = "open"
                     THEN [t[c] EXCEPT !.roster = Accepted(room)]
                     ELSE t[c]]
Broadcast(t, room) ==
    [c \in Conns |-> IF c \in ConnsOf(room, Accepted(room)) /\ sock[c] = "open"
                     THEN [t[c] EXCEPT !.roster = Accepted(room)]
                     ELSE t[c]]
NotifiedNobody == told
Notified == Telling(told, Evicted, "none")

Closing(cs) == [c \in Conns |-> IF c \in cs /\ sock[c] = "open" THEN "closing" ELSE sock[c]]

-----------------------------------------------------------------------------
Init ==
    /\ rooms = [l \in Locators |-> NoRoom]
    /\ seats = [c \in Conns |-> NoSeat]
    /\ sock = [c \in Conns |-> "closed"]
    /\ told = [c \in Conns |-> Nothing]
    /\ mode = "up"

(* A frame is served while the socket's owner may still send: a socket the *)
(* server has begun to close goes on delivering what was on its way.       *)
Serving(c) == mode # "down" /\ sock[c] # "closed"

-----------------------------------------------------------------------------
(* host.register: a new room, or the reclaim of a living one.              *)

RoomsLeft(l) ==
    Exists(SweptRooms, l) \/ Cardinality({k \in Locators : Exists(SweptRooms, k)}) < MaxRooms

NewRoom(c, who, max, invite, inviteTtl) ==
    [owner |-> who, hostConn |-> c, max |-> max, invite |-> invite,
     inviteTtl |-> inviteTtl, ttl |-> Ttl,
     peers |-> [p \in PeerIds |->
                  IF p = HostPeer THEN [conn |-> c, accepted |-> TRUE, invite |-> NoInvite]
                                  ELSE NoPeer]]

Reclaimed(room, c, max, invite, inviteTtl) ==
    [room EXCEPT !.hostConn = c, !.max = max, !.invite = invite, !.inviteTtl = inviteTtl,
                 !.ttl = Ttl, !.peers[HostPeer].conn = c]

DisplacedKept(l) == {}
DisplacedHost(l) == {SweptRooms[l].hostConn}

RegisterHost(c, l, who, max, invite, inviteTtl) ==
    /\ Serving(c)
    /\ SweptSeats[c] = NoSeat
    /\ RoomsLeft(l)
    /\ IF Exists(SweptRooms, l)
       THEN /\ SweptRooms[l].owner = who
            /\ rooms' = [SweptRooms EXCEPT
                           ![l] = Reclaimed(SweptRooms[l], c, max, invite, inviteTtl)]
            /\ seats' = [Forget(SweptSeats, DisplacedHost(l)) EXCEPT
                           ![c] = [room |-> l, peer |-> HostPeer]]
       ELSE /\ rooms' = [SweptRooms EXCEPT ![l] = NewRoom(c, who, max, invite, inviteTtl)]
            /\ seats' = [SweptSeats EXCEPT ![c] = [room |-> l, peer |-> HostPeer]]
    /\ told' = Telling(Notified, {c}, "host")
    /\ UNCHANGED <<sock, mode>>

-----------------------------------------------------------------------------
(* What a host may send: a heartbeat, a new invite, a revocation, a        *)
(* decision about a guest, the end of the room.                            *)

HostOf(c, l) == HostsSeat(SweptSeats, c) /\ SweptSeats[c].room = l /\ Exists(SweptRooms, l)

HostEdits(c, l, room) ==
    /\ Serving(c)
    /\ HostOf(c, l)
    /\ rooms' = [SweptRooms EXCEPT ![l] = room]
    /\ seats' = SweptSeats
    /\ told' = Notified
    /\ UNCHANGED <<sock, mode>>

Heartbeat(c, l) == HostEdits(c, l, [SweptRooms[l] EXCEPT !.ttl = Ttl])

RotateInvite(c, l, invite, inviteTtl) ==
    HostEdits(c, l, [SweptRooms[l] EXCEPT !.invite = invite, !.inviteTtl = inviteTtl])

RevokeInvite(c, l) == HostEdits(c, l, [SweptRooms[l] EXCEPT !.invite = NoInvite])

Pending(room, p) == p \in Guests \cap Present(room) /\ ~room.peers[p].accepted

AdmissibleByInvite(room, p) == room.invite # NoInvite /\ room.inviteTtl > 0
Admissible(room, p) ==
    /\ room.invite # NoInvite
    /\ room.peers[p].invite = room.invite
    /\ room.inviteTtl > 0

AcceptJoin(c, l, p) ==
    LET room == [SweptRooms[l] EXCEPT !.peers[p].accepted = TRUE]
    IN /\ Serving(c)
       /\ HostOf(c, l)
       /\ Pending(SweptRooms[l], p)
       /\ Admissible(SweptRooms[l], p)
       /\ rooms' = [SweptRooms EXCEPT ![l] = room]
       /\ seats' = SweptSeats
       /\ told' = Broadcast(Telling(Notified, ConnsOf(room, {p}), "member"), room)
       /\ UNCHANGED <<sock, mode>>

(* A refusal, and an acceptance that comes after the invite was withdrawn. *)
RejectJoin(c, l, p) ==
    LET guest == ConnsOf(SweptRooms[l], {p})
    IN /\ Serving(c)
       /\ HostOf(c, l)
       /\ Pending(SweptRooms[l], p)
       /\ rooms' = [SweptRooms EXCEPT ![l].peers[p] = NoPeer]
       /\ seats' = Forget(SweptSeats, guest)
       /\ told' = Telling(Notified, guest, "none")
       /\ UNCHANGED <<sock, mode>>

CloseRoom(c, l) ==
    LET members == ConnsOf(SweptRooms[l], Present(SweptRooms[l]))
    IN /\ Serving(c)
       /\ HostOf(c, l)
       /\ rooms' = [SweptRooms EXCEPT ![l] = NoRoom]
       /\ seats' = Forget(SweptSeats, members)
       /\ told' = Telling(Notified, members, "none")
       /\ sock' = Closing(members)
       /\ UNCHANGED mode

-----------------------------------------------------------------------------
(* guest.join                                                              *)

Joinable(l, invite) ==
    /\ Exists(SweptRooms, l)
    /\ SweptRooms[l].invite = invite
    /\ SweptRooms[l].inviteTtl > 0
    /\ SweptRooms[l].hostConn # NoConn
    /\ Cardinality(Present(SweptRooms[l])) < SweptRooms[l].max

NewGuest(c, invite) == [conn |-> c, accepted |-> FALSE, invite |-> invite]

GuestJoin(c, l, p, invite) ==
    /\ Serving(c)
    /\ SweptSeats[c] = NoSeat
    /\ Joinable(l, invite)
    /\ SweptRooms[l].peers[p] = NoPeer
    /\ rooms' = [SweptRooms EXCEPT ![l].peers[p] = NewGuest(c, invite)]
    /\ seats' = [SweptSeats EXCEPT ![c] = [room |-> l, peer |-> p]]
    /\ told' = Telling(Notified, {c}, "pending")
    /\ UNCHANGED <<sock, mode>>

-----------------------------------------------------------------------------
(* Leaving.  removeGuestConnection is shared by peer.leave and the close   *)
(* event; the close event drops the connection before it tells the others. *)

WithoutGuest(rm, l, p) == [rm EXCEPT ![l].peers[p] = NoPeer]

RemoveGuest(c, rm, st, t) ==
    LET l == st[c].room
        p == st[c].peer
        left == WithoutGuest(rm, l, p)
    IN /\ seats' = Forget(st, {c})
       /\ IF Exists(rm, l)
          THEN /\ rooms' = left
               /\ told' = Broadcast([t EXCEPT ![c] = Nothing], left[l])
          ELSE /\ rooms' = rm
               /\ told' = [t EXCEPT ![c] = Nothing]

PeerLeave(c) ==
    /\ Serving(c)
    /\ GuestsSeat(SweptSeats, c)
    /\ RemoveGuest(c, SweptRooms, SweptSeats, Notified)
    /\ UNCHANGED <<sock, mode>>

(* Every other frame: signal.relay, turn.credentials, ping, and any frame  *)
(* that is refused.  It changes nothing but what the sweep changes.        *)
OtherFrame(c) ==
    /\ Serving(c)
    /\ rooms' = SweptRooms
    /\ seats' = SweptSeats
    /\ told' = Notified
    /\ UNCHANGED <<sock, mode>>

(* The connection a relayed frame is sent to, NoConn when it is refused.   *)
SenderSeated(c) == SweptSeats[c] # NoSeat /\ Exists(SweptRooms, SweptSeats[c].room)
SenderAdmitted(c) ==
    LET s == SweptSeats[c]
    IN /\ s # NoSeat
       /\ Exists(SweptRooms, s.room)
       /\ s.peer \in Accepted(SweptRooms[s.room])
       /\ SweptRooms[s.room].peers[s.peer].conn = c

RelayLookup(c, p) ==
    IF SenderAdmitted(c) /\ p \in Accepted(SweptRooms[SweptSeats[c].room])
    THEN SweptRooms[SweptSeats[c].room].peers[p].conn
    ELSE NoConn

-----------------------------------------------------------------------------
(* Sockets                                                                 *)

Connect(c) ==
    /\ mode = "up"
    /\ sock[c] = "closed"
    /\ sock' = [sock EXCEPT ![c] = "open"]
    /\ UNCHANGED <<registry, told, mode>>

(* The server gives a socket up: two missed pongs, a full send buffer, too *)
(* many strikes, an oversized frame.  The close event comes later.         *)
SocketFails(c) ==
    /\ sock[c] = "open"
    /\ sock' = Closing({c})
    /\ UNCHANGED <<registry, told, mode>>

WithoutHost(room) == [room EXCEPT !.hostConn = NoConn, !.peers[HostPeer].conn = NoConn]

HostDisconnects(c) ==
    LET l == seats[c].room
    IN /\ HostsSeat(seats, c)
       /\ seats' = Forget(seats, {c})
       /\ rooms' = IF Exists(rooms, l) /\ rooms[l].hostConn = c
                   THEN [rooms EXCEPT ![l] = WithoutHost(rooms[l])]
                   ELSE rooms
       /\ told' = [told EXCEPT ![c] = Nothing]

NobodyDisconnects(c) ==
    /\ seats[c] = NoSeat
    /\ told' = [told EXCEPT ![c] = Nothing]
    /\ UNCHANGED registry

CloseEvent(c) ==
    /\ sock[c] # "closed"
    /\ sock' = [sock EXCEPT ![c] = "closed"]
    /\ \/ HostDisconnects(c)
       \/ GuestsSeat(seats, c) /\ RemoveGuest(c, rooms, seats, told)
       \/ NobodyDisconnects(c)
    /\ UNCHANGED mode

-----------------------------------------------------------------------------
(* Time, the sweep timer and the life of the process                       *)

Less(n) == IF n > 0 THEN n - 1 ELSE 0

Tick ==
    /\ \E l \in Locators : Exists(rooms, l) /\ rooms[l].ttl > 0
    /\ rooms' = [l \in Locators |->
                   IF Exists(rooms, l)
                   THEN [rooms[l] EXCEPT !.ttl = Less(@), !.inviteTtl = Less(@)]
                   ELSE NoRoom]
    /\ UNCHANGED <<seats, sock, told, mode>>

SweepTimer ==
    /\ mode = "up"
    /\ Expired # {}
    /\ rooms' = SweptRooms
    /\ seats' = SweptSeats
    /\ told' = Notified
    /\ sock' = Closing(Evicted)
    /\ UNCHANGED mode

(* shutdown(): the registry is drained and, 50 ms later, close() ends it.  *)
(* Frames are still served in between.                                     *)
Drain ==
    /\ mode = "up"
    /\ mode' = "draining"
    /\ rooms' = [l \in Locators |-> NoRoom]
    /\ seats' = [c \in Conns |-> NoSeat]
    /\ told' = Telling(told, {c \in Conns : seats[c] # NoSeat}, "none")
    /\ UNCHANGED sock

CloseServer ==
    /\ mode # "down"
    /\ mode' = "down"
    /\ rooms' = [l \in Locators |-> NoRoom]
    /\ seats' = [c \in Conns |-> NoSeat]
    /\ sock' = [c \in Conns |-> "closed"]
    /\ told' = [c \in Conns |-> Nothing]

Restart ==
    /\ mode = "down"
    /\ mode' = "up"
    /\ UNCHANGED <<registry, sock, told>>

HostFrame(c) ==
    \E l \in Locators :
        \/ Heartbeat(c, l)
        \/ \E i \in Invites, n \in InviteTtls : RotateInvite(c, l, i, n)
        \/ RevokeInvite(c, l)
        \/ \E p \in Guests : AcceptJoin(c, l, p) \/ RejectJoin(c, l, p)
        \/ CloseRoom(c, l)

Dispatch(c) ==
    \/ HostFrame(c)
    \/ \E l \in Locators, who \in Creds, max \in PeerLimits, i \in Invites, n \in InviteTtls :
           RegisterHost(c, l, who, max, i, n)
    \/ \E l \in Locators, p \in Guests, i \in Invites : GuestJoin(c, l, p, i)
    \/ PeerLeave(c)
    \/ OtherFrame(c)

Next ==
    \/ \E c \in Conns : Dispatch(c) \/ Connect(c) \/ SocketFails(c) \/ CloseEvent(c)
    \/ Tick \/ SweepTimer \/ Drain \/ CloseServer \/ Restart

Spec == Init /\ [][Next]_vars

-----------------------------------------------------------------------------
(* The registry: every variable has its type. *)
TypeOK ==
    /\ rooms \in [Locators -> Room \cup {NoRoom}]
    /\ seats \in [Conns -> Seat \cup {NoSeat}]
    /\ sock \in [Conns -> {"closed", "open", "closing"}]
    /\ told \in [Conns -> [standing : {"none", "pending", "member", "host"},
                           roster : SUBSET PeerIds]]
    /\ mode \in {"up", "draining", "down"}

SeatNamesPeer(c) ==
    seats[c] # NoSeat =>
        /\ Exists(rooms, seats[c].room)
        /\ seats[c].peer \in Present(rooms[seats[c].room])
        /\ rooms[seats[c].room].peers[seats[c].peer].conn = c
PeerHasSeat(l, p) ==
    LET peer == rooms[l].peers[p]
    IN peer.conn # NoConn => seats[peer.conn] = [room |-> l, peer |-> p]
HostIsPeer(l) ==
    /\ HostPeer \in Accepted(rooms[l])
    /\ rooms[l].peers[HostPeer].conn = rooms[l].hostConn
    /\ \A p \in Present(rooms[l]) \ {HostPeer} : rooms[l].peers[p].conn # NoConn

(* The two maps of RoomRegistry are the two sides of one relation, through *)
(* every reclaim, rejection, sweep and close: a connection's seat names a  *)
(* peer that names the connection, so no connection acts for two peers, a  *)
(* displaced host keeps nothing, and nothing is left behind to leak.       *)
RegistryAgrees ==
    /\ \A c \in Conns : SeatNamesPeer(c)
    /\ \A l \in Locators : Exists(rooms, l) =>
          /\ HostIsPeer(l)
          /\ \A p \in Present(rooms[l]) : PeerHasSeat(l, p)

(* A relayed frame goes from an admitted member to the connection that now *)
(* speaks for the peer it names, a member of the same room; a pending      *)
(* guest, an outsider or a displaced host neither sends nor receives.      *)
RelayReachesTheMember ==
    \A c \in Conns, p \in PeerIds :
        LET to == RelayLookup(c, p)
        IN to # NoConn =>
             /\ seats[c] # NoSeat /\ seats[to] # NoSeat
             /\ seats[to] = [room |-> seats[c].room, peer |-> p]
             /\ {p, seats[c].peer} \subseteq Accepted(rooms[seats[c].room])

(* What the server last told an open connection is what the registry says: *)
(* a guest that was told it is a member is one, a pending guest has not    *)
(* been dropped, declined or swept without a word.                         *)
GuestsKnowTheirStanding ==
    \A c \in Conns : sock[c] = "open" =>
        LET s == seats[c]
            guest == GuestsSeat(seats, c)
            admitted == guest /\ s.peer \in Accepted(rooms[s.room])
        IN /\ told[c].standing = "member" <=> admitted
           /\ told[c].standing = "pending" <=> guest /\ ~admitted

(* Every admitted guest was last sent the roster its room has now.         *)
RosterIsCurrent ==
    \A c \in Conns : sock[c] = "open" /\ GuestsSeat(seats, c) =>
        LET room == rooms[seats[c].room]
        IN seats[c].peer \in Accepted(room) => told[c].roster = Accepted(room)

(* A guest enters the roster only out of a pending request, by a decision  *)
(* taken while a host is seated and while the invite the guest presented   *)
(* is the current, unexpired one.                                          *)
AdmissionIsDecided ==
    [][\A l \in Locators, p \in Guests :
         Exists(rooms', l) /\ p \in Accepted(rooms'[l]) =>
            /\ Exists(rooms, l)
            /\ p \in Present(rooms[l])
            /\ \/ p \in Accepted(rooms[l])
               \/ /\ rooms[l].hostConn # NoConn
                  /\ rooms[l].ttl > 0 /\ rooms[l].inviteTtl > 0
                  /\ rooms[l].peers[p].invite = rooms[l].invite]_vars

(* A room whose time is up is never brought back with its members: no      *)
(* heartbeat, reclaim or decision that arrives before the timer revives it. *)
ExpiryIsFinal ==
    [][\A l \in Locators :
         Exists(rooms, l) /\ rooms[l].ttl = 0 /\ Exists(rooms', l) =>
            rooms'[l].ttl = 0 \/ Present(rooms'[l]) = {HostPeer}]_vars

=============================================================================
