\* Every fault, any two of them in a run.
SPECIFICATION Spec
CONSTANTS
    alice = alice  bob = bob  r1 = r1  r2 = r2  c1 = c1  c2 = c2
    User = {alice, bob}
    Request = {r1, r2}
    Live = {}
    Consumer = {c1, c2}
    Owner <- MCOwner
    UserPrice <- MCUserPrice
    DefaultPrice = 1
    InitialBalance <- MCInitialBalance
    ChunkSec = {1}
    MaxSeconds <- MCMaxSeconds
    Faults = {"lost", "dup", "db", "crash", "kill"}
    MaxFaults = 2
    MaxCopies = 1
SYMMETRY Symmetry
INVARIANTS
    TypeOK
    WindowConserved
    BooksInOrder
    DebitsBackedByUsage
    DebitedAtMostOnce
PROPERTY ImplementsLedger
