SPECIFICATION Spec
CONSTANTS
    u1 = u1
    u2 = u2
    u3 = u3
    a1 = a1
    e1 = e1
    b1 = b1
    b2 = b2
    b3 = b3
    Blob <- TheBlobs
    Direct <- TheDirect
    Archive = {a1}
    Entry = {e1}
    Parent <- TheParent
    Content <- TheContent
    NestedIn <- TheNested
    MaxAttempts = 2
    MaxLeases <- TheLeases
    Worked = {u1}
    Swept = {b1}
    Plans <- StoragePlans
INVARIANTS
    ReferencesAreExact
    AvailableBlobHasFile
    HeldJobsHaveSamples
    ReadyImportIsComplete
PROPERTIES
    TaskMadeOnce
    UploadsGetTasks
    ImportsEnd
CONSTRAINT Unhurried
CHECK_DEADLOCK FALSE
