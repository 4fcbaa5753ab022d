SPECIFICATION FairSpecH
CONSTANTS
    SampleIds = {129}
    Flags <- DrumFlags
    Commands = {0, 2, 129}
    Reloads = FALSE
PROPERTIES M68kProceeds
