\* ExitRace: a handler while the preloaded object is destroyed.
CONSTANTS
    main = main t1 = t1
    Threads = {main}
    Main = main
    Functions <- OpenClose
    Callers <- OpenCalls
    Sizes <- SomeSizes
    SizeModulus = 16
    IntModulus = 8
    Configurations <- Switches
    MaxCalls = 1
SPECIFICATION Spec
INVARIANT LoadedMeansInitialized
\* Calls are finite and the process ends.
CHECK_DEADLOCK FALSE
