\* No fault: the pipeline must settle every account, of a live session too.
SPECIFICATION FairSpec
CONSTANTS
    alice = alice  bob = bob  r1 = r1  r2 = r2  c1 = c1  c2 = c2
    User = {alice, bob}
    Request = {r1, r2}
    Live = {r1}
    Consumer = {c1, c2}
    Owner <- MCOwner
    UserPrice <- MCUserPrice
    DefaultPrice = 1
    InitialBalance <- MCInitialBalance
    ChunkSec = {1}
    MaxSeconds <- MCMaxSeconds
    Faults = {}
    MaxFaults = 0
    MaxCopies = 1
PROPERTY EventuallySettled
