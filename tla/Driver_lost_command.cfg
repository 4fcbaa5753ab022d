SPECIFICATION SpecH
CONSTANTS
    SampleIds = {129}
    Flags <- DrumFlags
    Commands = {1, 129}
    Reloads = FALSE
PROPERTIES LastCommandProcessed
