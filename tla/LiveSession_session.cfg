\* Clients of both kinds on a stream that may break, with credit for some of the audio.
SPECIFICATION FairSpec
CONSTANTS
    MaxPhrases = 2
    MaxChunks = 2
    InitialBalance = 2
    MayBreak = TRUE
INVARIANTS
    TypeOK
    BillingTracksDelivery
    PatientAttribution
PROPERTIES
    NothingAfterExhausted
    SessionEnds
