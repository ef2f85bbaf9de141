\* A short stream that may fail, break or be abandoned beside a long one whose
\* generation may fail.
SPECIFICATION FairSpec
CONSTANTS
    short = short  long = long  Free = Free
    Stream = {short, long}
    Tokens <- Mixed
    FirstChunk = 4
    TokensPerChunk = 2
    QueueCap = 2
    AudioCap = 1
    MaxLost <- LoseOne
    MayFail = {short, long}
    MayBreak = {short}
    MayLeave = {short}
INVARIANTS
    TypeOK
    WholeUnlessFailed
PROPERTIES
    StreamsEnd
