\* EveryCall: every function with every result, handled and passed through, while
\* the library is loaded, in use and unloaded; a second thread opens.
CONSTANTS
    main = main t1 = t1
    Threads = {main, t1}
    Main = main
    Functions <- EveryFunction
    Callers <- EveryCall
    Sizes <- TwoSizes
    SizeModulus = 16
    IntModulus = 8
    Configurations <- Switches
    MaxCalls = 1
SPECIFICATION Spec
INVARIANTS
    TypeOK
    CallsAccounted
    HandlersAfterConstruction
    ReportsCoverCalls
\* Calls are finite and the process ends.
CHECK_DEADLOCK FALSE
