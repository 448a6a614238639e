\* Hooks: three threads race for two pointers; libc opens, does not, or only later.
CONSTANTS
    t1 = t1 t2 = t2 t3 = t3
    Threads = {t1, t2, t3}
    Functions = {"open_variadic", "close"}
    Early = {}
    LibraryPath = "libc.so.6"
    Openings = {"succeeds", "fails", "recovers"}
    MaxHooks = 2
    Nobody = Nobody
SPECIFICATION FairSpec
INVARIANT CalledIsLibc
PROPERTY HooksReturn
\* Every thread runs MaxHooks handlers.
CHECK_DEADLOCK FALSE
