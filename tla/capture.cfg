SPECIFICATION Spec
CONSTANTS
    NTrials = 2
    MaxWrites <- Writes
    PipeSize = 1
    Faults <- AllFaults
INVARIANTS
    CaptureIsComplete
    TerminalShowsTheRun
    NothingLeftOpen
PROPERTY RunEnds
