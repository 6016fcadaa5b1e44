SPECIFICATION Spec
CONSTANTS
    i1 = i1
    i2 = i2
    k1 = k1
    seed = seed
    Procs = {server, seed}
    Last = 2
    MaxCrashes = 2
    ItemNames = {i1, i2}
    KitNames = {k1}
    Files <- SeedFiles
    MaxAdds = 1
    MaxRuns = 2
INVARIANTS
    SchemaSound
    TypeOK
    NeverTwiceAlone
    CleanRunCompletes
PROPERTIES
    FailsOnlyOvertaken
    EveryoneStarts
CHECK_DEADLOCK FALSE
