SPECIFICATION FairSpec
CONSTANTS
    RingSize = 12
    Margin = 5
    BankSize = 16
    Samples <- ShortLoop
    Pitches = {1, 3}
    PitchBase = 4
    VBlankPlays = 1
    FrameGap = 4
    Interruptible = {}
PROPERTIES StreamInOrder
