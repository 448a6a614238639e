\* Every operation on descriptors: a thread that creates and moves entries, one that
\* looks them up and prints them, one that removes and prints.
CONSTANTS
    t1 = t1 t2 = t2 t3 = t3
    e1 = e1 e2 = e2 e3 = e3
    fp = fp
    Threads = {t1, t2, t3}
    Fds = {3, 4}
    FilePtrs = {}
    StdStreams = {}
    NullPtr = NullPtr
    EntryIds = {e1, e2, e3}
    NoEntry = NoEntry
    Freed = Freed
    Paths = {}
    RemotePaths = {}
    NumWorkflows = 1
    Differentiation = TRUE
    SelectByMetadataUnit = FALSE
    Operations <- Roles
    Nobody = Nobody
SPECIFICATION Spec
INVARIANTS
    LocksInv
    HoldersInside
PROPERTIES
    ImplementsAtomicTable
    ReadersReturn
    WritersReturn
