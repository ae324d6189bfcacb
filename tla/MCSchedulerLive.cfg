SPECIFICATION FairSpec
CONSTANTS
    Profiles = {p1}
    Chats = {user, other}
    calm = calm
    storm = storm
    Forecasts = {calm, storm}
    Significant <- MCSignificant
    Deleters = {d1}
    FaultKinds = {"crash", "shutdown", "load", "save", "poll", "clear", "commit"}
    MaxFetches = 2
    MaxFaults = 2
    NoChat = NoChat
    NoJob = NoJob
    NoForecast = NoForecast
INVARIANTS DbSchedulerConsistent AlertsStayPrivate
PROPERTIES PollingContinues ExpiredJobRemoved
CHECK_DEADLOCK FALSE
