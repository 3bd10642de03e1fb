SPECIFICATION Spec
CONSTANTS
    p1 = p1
    p2 = p2
    p3 = p3
    Processes <- MCProcesses
    Failing = {"status_register"}
    Closed = Closed
    Stale = Stale
INVARIANTS
    TypeOK
    UndoesTheDone
    LoadedIsComplete
    NothingLeftBehind
PROPERTIES
    OnlyFailureTakesCode
