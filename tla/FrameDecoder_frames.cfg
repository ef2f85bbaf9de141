\* The frame and the window of the code; up to three zero codes anywhere.
SPECIFICATION Spec
CONSTANTS
    FrameLen = 7
    WindowFrames = 4
    Base = 2
    MaxTokens = 70
    MaxZeros = 3
INVARIANTS
    TypeOK
    SlipIsOneSlot
    RecoversAfterZero
PROPERTIES
    EmittedAligned
