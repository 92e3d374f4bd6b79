SPECIFICATION ResumeSpec
CONSTANTS
    Screen = s
    Importer = i
    Callers = {s, i}
    Workers = {w1, w2}
    Tracks = {t1}
    MaxJobs = 2
    MaxCrashes = 0
    Ops <- ResumeOps
    NoJob = NoJob
    Nobody = Nobody
SYMMETRY Symmetry
CHECK_DEADLOCK FALSE
INVARIANTS OneRunner CompletedMeansDone
 
