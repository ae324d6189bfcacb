SPECIFICATION PollSpec
CONSTANTS
    Numeric <- MCNumeric
    Values <- MCValues
    Threshold <- MCThreshold
    Codes <- MCCodes
    Rank <- MCRank
    RankThreshold = 2
    Missing = Missing
    MaxAttempts = 2
    None = None
    MaxQuiet = 3
CHECK_DEADLOCK FALSE
INVARIANTS PollTypeOK SilentDriftBounded NoRepeatedNews
PROPERTIES PollingMeetsMonitor
