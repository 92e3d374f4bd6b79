SPECIFICATION Spec
CONSTANTS
    Participants = {host, g1, g2}
    Host = host
    NoOne = NoOne
    MaxLinks = 2
    MaxDown = 2
    MaxUp = 1
    MaxHandoffs = 2
    MaxEdits = 3
SYMMETRY Symmetry
CHECK_DEADLOCK FALSE
INVARIANTS EchoNeedsAReturn OneStatePerRevision ViewsAreCurrent TurnsAreConsistent
