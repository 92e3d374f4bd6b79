SPECIFICATION FairSpec
CONSTANTS
    Faults = {"io"}
    MaxFaults = 1
    MaxCrashes = 2
    Settles = TRUE
    NoFile = NoFile
CHECK_DEADLOCK FALSE
INVARIANTS PairIsWhole  
PROPERTIES LibraryReopens
