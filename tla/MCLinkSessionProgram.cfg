SPECIFICATION Spec
CONSTANTS
    Participants = {host, g1}
    Host = host
    NoOne = NoOne
    MaxLinks = 1
    MaxDown = 2
    MaxUp = 1
    MaxHandoffs = 3
    MaxEdits = 3
SYMMETRY Symmetry
CHECK_DEADLOCK FALSE
INVARIANTS ProgramIsOnAir
