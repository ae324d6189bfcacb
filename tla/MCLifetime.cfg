SPECIFICATION Spec
CONSTANTS
    Events = {18, 78, 96}
    Offsets <- World
    Intervals = {6, 24}
    FORECAST_DAYS = 3
    HighDays = 1
    MediumDays = 2
    Steps = {6}
    MaxRun = 6
    MaxTime = 102
    NoTime = NoTime
    NoSnap = NoSnap
INVARIANTS TypeOK AheadIsScheduled JobOutlivesEventBriefly FreshWhileMonitored TargetStaysReachable
PROPERTIES ConfidenceNeverDrops ExplainedOnlyBeyondWindow
