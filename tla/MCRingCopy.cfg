SPECIFICATION Spec
CONSTANTS
    Lengths <- MCLengths
    Bases <- MCBases
    Rate = 2
    Need = 2
    Level = 4
    ProbeLimit = 1
    Prompt = 1
    MaxClock = 30
INVARIANTS
    TypeOK
    AcceptedIsWhole
    PromptIsAccepted
