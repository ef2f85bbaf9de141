\* A stream, a job and a live session of one account compete for one slot (a capacity configured
\* as zero); an UPDATE may fail and the process may stop.
SPECIFICATION FairSpec
CONSTANTS
    alice = alice  s = s  j = j  l = l
    User = {alice}
    Stream = {s}
    Async = {j}
    Live = {l}
    Owner <- OneAccount
    MaxConcurrent = 0
    InitialBalance <- Credit3
    ChunkCost = {2}
    MaxDelivered <- Bounds
    MaxDbErrors = 1
    MayCrash = TRUE
INVARIANTS
    TypeOK
    SlotsAccounted
    CreditRespected
    CompletedIsWhole
PROPERTIES
    JobLifecycle
    JobsEnd
