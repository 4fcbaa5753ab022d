SPECIFICATION FairSpec
CONSTANTS
    RingSize = 12
    Margin = 5
    BankSize = 8
    Samples <- OneBankLoop
    Pitches = {1, 3}
    PitchBase = 4
    VBlankPlays = 2
    FrameGap = 5
    Coincidences = {"Decode"}
PROPERTIES StreamInOrder
