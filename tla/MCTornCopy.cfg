\* TornCopy: two threads count while a third copies or prints the entry.
\* The counters are loaded in the order of the source: no reordering is needed.
CONSTANTS
    u1 = u1 u2 = u2 r = r
    Threads = {u1, u2, r}
    Updaters = {u1, u2}
    Printers = {r}
    Tabulators = {}
    Size = 1
    Bytes = {2}
    CopyOrders <- InOrder
    MaxUpdates = 1
    MaxReports = 1
    Nobody = Nobody
SPECIFICATION SnapshotsSpec
INVARIANT CopiesAreSnapshots
\* Calls are finite.
CHECK_DEADLOCK FALSE
