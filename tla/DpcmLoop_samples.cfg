SPECIFICATION FairSpec
CONSTANTS
    RingSize = 12
    Margin = 5
    BankSize = 8
    Samples <- PlainSamples
    Pitches = {1, 3}
    PitchBase = 4
    VBlankPlays = 2
    FrameGap = 5
    Coincidences = {}
PROPERTIES NoOverrun StreamInOrder Finishes
