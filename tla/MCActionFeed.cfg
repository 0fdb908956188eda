SPECIFICATION Spec
CONSTANTS
    Fade = 2
    RevealTime = 2
    Skews <- MCSkews
    Buffered = 2
    MaxLog = 2
    MaxConnects = 2
INVARIANTS
    SoundsFadeApart
    FeedForgets
PROPERTIES
    EveryClaimRevealed
    RevealCloses
CHECK_DEADLOCK FALSE
