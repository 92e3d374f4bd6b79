SPECIFICATION FairSpec
CONSTANTS
    Screen = s
    Importer = i
    Callers = {s, i}
    Workers = {w1, w2}
    Tracks = {t1}
    MaxJobs = 2
    MaxCrashes = 1
    Ops <- StartOps
    NoJob = NoJob
    Nobody = Nobody
CHECK_DEADLOCK FALSE
INVARIANTS OneRunner RunningItemsHaveAWorker 
PROPERTIES AutomaticJobsComplete WaitersGetTheSlot
