\* Two requests around bucket boundaries while operators raise and clear the
\* limit; Valkey and Postgres may fail at every step.
SPECIFICATION Spec
CONSTANTS
    q1 = q1  q2 = q2  a1 = a1  g = g
    NoRow = NoRow
    Request = {q1, q2}
    Reader = {g}
    Admin = {a1}
    Windows = 2
    Length <- TwoLengths
    Expiry <- TwoExpiries
    Default <- OneEach
    Asked <- AskedLimits
    CacheTTL = 1
    OpTicks = 1
    MaxTime = 4
SYMMETRY Alike
INVARIANTS
    TypeOK
    CapPerBucket
    RefusalJustified
    LimitsRecent
    RetryLeavesBucket
