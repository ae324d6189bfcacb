SPECIFICATION Spec
CONSTANTS
    Profiles = {p1, p2}
    Chats = {}
    calm = calm
    storm = storm
    Forecasts = {calm, storm}
    Significant <- MCSignificant
    Deleters = {}
    FaultKinds = {"crash", "corrupt"}
    MaxFetches = 1
    MaxFaults = 2
    NoChat = NoChat
    NoJob = NoJob
    NoForecast = NoForecast
INVARIANT StartupSurvivesBadRow
CHECK_DEADLOCK FALSE
