SPECIFICATION Spec
CONSTANTS
    Settings <- LostLease
    MaxAttempts = 2
INVARIANTS
    CancellationsAreOwn
CHECK_DEADLOCK FALSE
