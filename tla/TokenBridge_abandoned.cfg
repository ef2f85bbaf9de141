\* A long stream whose reader goes away beside a short one whose reader stays.
\* The system may stop: that is the counterexample.
SPECIFICATION FairSpec
CONSTANTS
    short = short  long = long  Free = Free
    Stream = {short, long}
    Tokens <- Mixed
    FirstChunk = 4
    TokensPerChunk = 2
    QueueCap = 2
    AudioCap = 1
    MaxLost <- LoseOne
    MayFail = {}
    MayBreak = {}
    MayLeave = {long}
PROPERTIES
    StreamsEnd
CHECK_DEADLOCK FALSE
