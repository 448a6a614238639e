\* Two threads count, one prints the entries, a table, or copies one entry.
CONSTANTS
    u1 = u1 u2 = u2 r = r
    Threads = {u1, u2, r}
    Updaters = {u1, u2}
    Printers = {r}
    Tabulators = {r}
    Size = 2
    Bytes = {2}
    CopyOrders <- EitherWay
    MaxUpdates = 1
    MaxReports = 1
    Nobody = Nobody
SPECIFICATION Spec
INVARIANTS
    StatisticsInv
    ErrorsFollowOperations
    TotalsCoverRows
    ActiveEntriesPrinted
    HoldersNeverWait
PROPERTIES
    ImplementsAtomicCounters
    CallsReturn
\* Calls are finite.
CHECK_DEADLOCK FALSE
