SPECIFICATION Spec
CONSTANTS
    Profiles = {p1}
    Chats = {}
    calm = calm
    storm = storm
    Forecasts = {calm, storm}
    Significant <- MCSignificant
    Deleters = {d1, d2}
    FaultKinds = {"crash", "shutdown", "load", "save", "poll", "clear", "commit", "corrupt"}
    MaxFetches = 3
    MaxFaults = 2
    NoChat = NoChat
    NoJob = NoJob
    NoForecast = NoForecast
SYMMETRY Threads
INVARIANTS TypeOK BaselineIsNewest NoRepeatedAlert SignificantMoveAccounted AuditTruthful AtMostOneLateAlert
PROPERTIES QuietAfterDelete RunsFollowContract
CHECK_DEADLOCK FALSE
