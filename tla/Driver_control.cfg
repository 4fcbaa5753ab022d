SPECIFICATION FairSpecH
CONSTANTS
    SampleIds = {128, 129, 130, 131}
    Flags <- MCFlags
    Commands = {0, 1, 2, 3, 128, 129, 130, 131}
    Reloads = TRUE
INVARIANTS TypeOK StackDiscipline RoutineMatchesLoop
PROPERTIES
    PlaysByPriority RefusesLowerOnly UnpauseObeyed M68kWaitsForPauseOnly
    CommandKept PauseHolds StopObeyed PlayObeyed
