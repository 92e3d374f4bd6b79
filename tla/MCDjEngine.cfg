SPECIFICATION BeginOrGoOn
CONSTANTS
    Decks = {A}
    Tracks = {x, y}
    NoTrack = none
    Users = {u}
    Webview = web
    Nobody = nobody
    Ops <- SomeOps
    MAX_IN_FLIGHT = 2
    MaxProcs = 2
    MaxCalls = 3
    MaxEvents = 4
    MaxFaults = 1
INVARIANTS AnswersAreOwn  MissedEventsShow
PROPERTIES LastLoadWins OldSessionsStayOut
CHECK_DEADLOCK FALSE
SYMMETRY TracksAlike
