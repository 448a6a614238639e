\* Cost: the handled reads of one thread, with sizes around the largest int.
CONSTANTS
    main = main t1 = t1
    Threads = {main}
    Main = main
    Functions <- Reads
    Callers <- ReadCalls
    Sizes <- SomeSizes
    SizeModulus = 16
    IntModulus = 8
    Configurations <- OnlyReads
    MaxCalls = 1
SPECIFICATION Spec
INVARIANT CostIsSize
\* Calls are finite and the process ends.
CHECK_DEADLOCK FALSE
