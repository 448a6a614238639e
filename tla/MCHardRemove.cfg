\* option_hard_remove on: closing removes the entry. One descriptor and one stream, reused
\* over and over by two threads; counters that wrap at 3.
CONSTANTS
    t1 = t1 t2 = t2 t3 = t3
    e1 = e1 e2 = e2 e3 = e3 e4 = e4 e5 = e5
    fp = fp stdout = stdout remote = remote elsewhere = elsewhere
    Threads = {t1, t2}
    Fds = {3}
    FilePtrs = {fp}
    StdStreams = {}
    NullPtr = NullPtr
    EntryIds = {e1, e2, e3}
    NoEntry = NoEntry
    Freed = Freed
    Paths = {remote}
    RemotePaths = {remote}
    NumWorkflows = 1
    Differentiation = TRUE
    SelectByMetadataUnit = FALSE
    Handlers <- RemovalHandlers
    HardRemove = TRUE
    Collect = TRUE
    CounterModulus = 3
    Disciplined = TRUE
    Unhandled = {}
    Foreign = Foreign
SPECIFICATION Spec
SYMMETRY Symmetry
INVARIANTS
    TypeOK
    ClosedHandlesForgotten
    EntryOwnership
    OnlyRegisteredWorkflows
    CallsCountedOnce
