SPECIFICATION Spec
CONSTANTS
    Faults = {"parent"}
    MaxFaults = 1
    MaxCrashes = 1
    Settles = TRUE
    NoFile = NoFile
CHECK_DEADLOCK FALSE
INVARIANTS PairIsWhole
