SPECIFICATION FairSpec
CONSTANTS
    Numeric <- MCNumeric
    Values <- MCValues
    Threshold <- MCThreshold
    Codes <- MCCodes
    Rank <- MCRank
    RankThreshold = 2
    Missing = Missing
    MaxAttempts = 3
    None = None
INVARIANTS TypeOK NodesHaveInputs LlmOnlyWhenMoved EndIsTruthful
PROPERTIES RunEnds RunIsBounded GraphImplementsRun
