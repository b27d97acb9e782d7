SPECIFICATION Spec
CONSTANTS
    Settings <- EverySetting
    MaxAttempts = 2
INVARIANTS
    JavaCancellationsAreOwn
    JavaCancellationsLand
    OwnedWorkspaceKept
PROPERTIES
    WorkspacesReclaimed
    RunSettles
CHECK_DEADLOCK FALSE
