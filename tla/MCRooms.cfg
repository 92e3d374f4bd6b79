SPECIFICATION Spec
CONSTANTS
    Conns = {c1, c2, c3}
    Locators = {l1}
    Guests = {g1, g2}
    HostPeer = host
    Creds = {k1}
    Invites = {i1, i2}
    NoConn = NoConn
    NoRoom = NoRoom
    NoPeer = NoPeer
    NoSeat = NoSeat
    NoInvite = NoInvite
    MaxRooms = 1
    MaxPeers = 3
    PeerLimits = {3}
    Ttl = 1
    InviteTtls = {1}
SYMMETRY Symmetry
INVARIANTS RegistryAgrees GuestsKnowTheirStanding RosterIsCurrent RelayReachesTheMember
PROPERTIES  ExpiryIsFinal
