SPECIFICATION Spec
CONSTANTS
    Numeric <- MCNumeric
    Values <- MCValues
    Threshold <- MCThreshold
    Codes <- MCCodes
    Rank <- MCRank
    RankThreshold = 2
    Missing = Missing
    MaxAttempts = 3
    None = None
INVARIANT LlmNeverSuppressesAlert
