SPECIFICATION FairSpec
CONSTANTS
    Overlays = {o1, o2}
    Preferences <- MCPreferences
    QueueCalls <- MCQueueCalls
    EngineThreads = {"raster", "io"}
    LoaderPinned = FALSE
    NoOverlay = NoOverlay
INVARIANTS
    FailuresLeaveNothing
    ChildrenDieFirst
    BorrowedIsLive
    HandoffProven
    QueueExclusive
PROPERTIES
    StartEnds
    TableKeptInUse
CHECK_DEADLOCK FALSE
