SPECIFICATION Spec
CONSTANTS
    Profiles = {p1}
    Chats = {user}
    calm = calm
    storm = storm
    Forecasts = {calm, storm}
    Significant <- MCSignificant
    Deleters = {}
    FaultKinds = {}
    MaxFetches = 2
    MaxFaults = 0
    NoChat = NoChat
    NoJob = NoJob
    NoForecast = NoForecast
PROPERTY AlertsReachPatchedChat
CHECK_DEADLOCK FALSE
