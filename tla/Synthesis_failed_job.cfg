\* A job whose stream breaks.
SPECIFICATION Spec
CONSTANTS
    alice = alice  s = s  j = j  l = l
    User = {alice}
    Stream = {}
    Async = {j}
    Live = {}
    Owner <- OneAccount
    MaxConcurrent = 1
    InitialBalance <- Credit3
    ChunkCost = {2}
    MaxDelivered <- Bounds
    MaxDbErrors = 0
    MayCrash = FALSE
INVARIANT PayOnlyForDelivered
