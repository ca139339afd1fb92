SPECIFICATION Spec
CONSTANTS
    NTrials = 1
    MaxWrites <- OneEach
    PipeSize = 1
    Faults <- SpawnDrainFails
INVARIANT SetupFailureAborts
