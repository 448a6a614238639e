\* Refinement: default options, calls on descriptors and on paths.
CONSTANTS
    t1 = t1 t2 = t2 t3 = t3
    e1 = e1 e2 = e2 e3 = e3 e4 = e4 e5 = e5
    fp = fp stdout = stdout remote = remote elsewhere = elsewhere
    Threads = {t1, t2}
    Fds = {3, 4}
    FilePtrs = {}
    StdStreams = {}
    NullPtr = NullPtr
    EntryIds = {e1, e2, e3}
    NoEntry = NoEntry
    Freed = Freed
    Paths = {remote, elsewhere}
    RemotePaths = {remote}
    NumWorkflows = 1
    Differentiation = TRUE
    SelectByMetadataUnit = FALSE
    Handlers <- PromiseHandlers
    HardRemove = FALSE
    Collect = TRUE
    CounterModulus = 1
    Disciplined = TRUE
    Unhandled = {"open", "close"}
    Foreign = Foreign
SPECIFICATION Spec
SYMMETRY Symmetry
INVARIANTS
    IInv
    EntryOwnership
    HeldFilesRegistered
    DecisionFollowsFile
PROPERTY ImplementsThrottledFiles
