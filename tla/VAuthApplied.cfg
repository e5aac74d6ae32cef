\* Expected to be violated: see the finding on AuthApplied.
SPECIFICATION Spec
CONSTANTS
    Files <- SomeFiles
    FlagSets <- SomeFlags
    Attempts = 3
INVARIANTS
    AuthApplied
