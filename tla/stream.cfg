SPECIFICATION FairSpec
CONSTANTS
    BufSize = 2
    MaxLost = 1
    StreamOptions <- MCStreamOptions
    Plans <- MCPlans
    MaxNotify = 2
    MaxRefused = 1
    Programs <- MCPrograms
    Parts = 2
    MaxFlips = 3
    MaxFiles = 2
CHECK_DEADLOCK FALSE
INVARIANTS  AnswersMeetRequests
PROPERTIES  StopEnds InboxReconnects
