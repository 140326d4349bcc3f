\* A behaviour ends when every caller has made its calls.
CHECK_DEADLOCK FALSE
SPECIFICATION FairSpec
CONSTANTS
    Callers = {c1, c2}
    Channels = {h1}
    SharedIds = {}
    NoCall = NoCall
    NoChannel = NoChannel
    MaxSends = 2
    MaxFaults = 1
    MayClose = TRUE
INVARIANTS NothingIsLeftBehind AnswerIsForRequest ChannelIsExclusive
PROPERTIES EverySendReturns QuietCloseTerminates
