\* Two replicas start on an empty database and serve three requests; two
\* statements or processes may fail.
SPECIFICATION Spec
CONSTANTS
    dev = dev  ann = ann  pw1 = pw1  pw2 = pw2
    r1 = r1  r2 = r2  c1 = c1  c2 = c2  c3 = c3
    Nobody = Nobody
    Name = {dev, ann}
    DefaultName = dev
    Password = {pw1, pw2}
    DefaultPassword = pw1
    Replica = {r1, r2}
    Call = {c1, c2, c3}
    MaxKeys = 4
    MaxUsage <- UsageBound
    Limit = 1
    Offset = 1
    MaxFaults = 2
SYMMETRY Alike
INVARIANTS
    TypeOK
    CreatedIsComplete
    DefaultSeeded
    RevokedStaysOut
    WalletlessByFault
    PageMatchesTotal
PROPERTIES
    RevokedByOwner
