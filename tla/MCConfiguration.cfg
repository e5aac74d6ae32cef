\* Files, answers and flags, to the mode and the values of the chart.
SPECIFICATION Spec
CONSTANTS
    Files <- SomeFiles
    FlagSets <- SomeFlags
    Attempts = 3
INVARIANTS
    TypeOK
    ModeFollowsTarget
    EveryURLHasHost
