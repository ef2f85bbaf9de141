\* Two replicas and a delivery; Valkey may fail; time and round trips go on.
SPECIFICATION FairSpec
CONSTANTS
    a = a  b = b  s1 = s1  s2 = s2
    Replica = {a, b}
    Stream = {s1}
    StreamHome <- MCStreamHome
    TTL = 2
    OpTicks = 1
    MaxDebits = 1
    LagCap = 7
    ValkeyFails = TRUE
INVARIANTS
    TypeOK
    StalenessBounded
PROPERTY EventuallyCoherent
