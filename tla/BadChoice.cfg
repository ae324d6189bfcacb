SPECIFICATION Spec
CONSTANTS
    Chats = {c1}
    EarlierRows <- MCLateRows
    Inputs = {"duration"}
    FaultKinds = {}
    MaxUpdates = 2
    MaxFaults = 0
    NoProfile = NoProfile
INVARIANTS RegisteredByChoice
