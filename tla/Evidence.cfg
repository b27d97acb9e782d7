SPECIFICATION Spec
CONSTANTS
    p1 = p1
    p2 = p2
    r1 = r1
    r2 = r2
    r3 = r3
    s1 = s1
    s2 = s2
    w1 = w1
    w2 = w2
    Project = {p1, p2}
    Run = {r1, r2, r3}
    Report = {s1, s2}
    Sweeper = {w1, w2}
    RunProject <- TheRunProject
    RunLanguage <- TheRunLanguage
    MaxAttempts = 2
    NoHolder = NoHolder
    Plans <- EvidencePlans
INVARIANTS
    CurrentReportShowsLatest
    VisibleReportHasFile
    LiveProjectHasDirectory
    PublishedOnce
    DeletedProjectHasNoEvidence
PROPERTIES
    ReportsAreAShelf
    DeletionsEnd
    OrphansAreReclaimed
CHECK_DEADLOCK FALSE
