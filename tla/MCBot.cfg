SPECIFICATION FairSpec
CONSTANTS
    Chats = {c1}
    EarlierRows <- MCEarlierRows
    Inputs = {"language", "context", "duration", "confirm_yes", "confirm_no", "/start", "/cancel", "/forecast", "text", "location", "sticker", "edit"}
    FaultKinds = {"poll", "raise", "unanswered", "crash"}
    MaxUpdates = 2
    MaxFaults = 2
    NoProfile = NoProfile
INVARIANTS TypeOK NoUpdateLost RepeatedOnlyAfterCrash DuplicatesOnlyOfForgotten RoutedUnlessLost RegisteredAtConfirm
PROPERTIES FollowsConversation BatchIsBounded UpdatesDispatched
