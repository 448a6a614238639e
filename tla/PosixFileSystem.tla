----------------------------- MODULE PosixFileSystem ---------------------------
(***************************************************************************)
(* The wrappers of the libc symbols and the globals they use, from the     *)
(* moment the library is mapped until it is gone.  The globals are         *)
(* constructed one after the other before main and destroyed in reverse    *)
(* after it, by the thread Main, while wrappers are called: by other       *)
(* threads, and by the constructors and destructors themselves (the PAIO   *)
(* stage opens and closes sockets and files).                              *)
(*                                                                         *)
(* A call is routed, submitted to the stage if its handler enforces it,    *)
(* runs libc's function, and is accounted.  What a handler does besides is *)
(* LdPreloadedPosix.                                                       *)
(***************************************************************************)
EXTENDS PosixPassthrough, DataPlaneStage, Sequences

CONSTANTS
    Threads,
    Main,           \* runs constructors, main and destructors
    Functions,      \* the functions that are called
    Callers,        \* those each thread calls
    Sizes,          \* buffer sizes
    Configurations, \* sets of functions whose libc_calls flag is on
    MaxCalls        \* calls per thread

ASSUME PosixFileSystemAssumption ==
    /\ Main \in Threads
    /\ Functions \subseteq AllFunctions
    /\ Callers \in [Threads -> SUBSET Functions]
    /\ Sizes \subseteq 0 .. SizeModulus - 1
    /\ Configurations \subseteq SUBSET AllFunctions
    /\ MaxCalls \in Nat

VARIABLES
    flags,      \* libc_calls: the functions to handle
    stage,      \* "loading", "main", "exiting", "exited" or "crashed"
    alive,      \* how many globals have been constructed and not destroyed
    busy,       \* the constructor or destructor of a global is running
    loaded,     \* *m_ldp_loaded
    at, call,   \* per thread: the step it is at, its call
    requests,   \* what PAIO has been asked for
    counters,   \* the statistics of both objects
    reports,    \* the counters as the two destructors wrote them
    ledger,     \* history: what the calls that returned should have added
    due,        \* history: the counters a report must not fall behind
    calls       \* how many calls each thread has made

lifeVars == <<flags, stage, alive, busy, loaded>>
historyVars == <<reports, due>>
vars == <<flags, stage, alive, busy, loaded, at, call, requests, counters, reports,
          ledger, due, calls>>

Sides == {"handled", "passed"}

\* A call that has been routed.
Call(f, side, size) ==
    [function |-> f, side |-> side, size |-> size, enforced |-> FALSE, result |-> 0]
NoCall == Call("none", "none", 0)

\* The entries of the statistics that are used.
Entries == Functions \cup {passed_entry(f) : f \in Functions \ {"fcntl"}}
NoReport == [e \in Entries |-> -1]

--------------------------------------------------------------------------------
(* The globals.                                                            *)

\* Mutant: the passthrough is defined after the preloaded object.
passthrough_last ==
    <<"m_logger_ptr", "m_ldp_loaded", "m_ld_preloaded_posix", "m_posix_passthrough">>

\* In the order of their definitions.
Globals ==
    <<"m_logger_ptr", "m_posix_passthrough", "m_ldp_loaded", "m_ld_preloaded_posix">>

Index(g) == CHOOSE i \in DOMAIN Globals : Globals[i] = g

Constructing(g) == stage = "loading" /\ busy /\ alive + 1 = Index(g)
Destroying(g) == stage = "exiting" /\ busy /\ alive = Index(g)

\* The constructor has returned and the destructor has not begun.
Initialized(g) == Index(g) <= alive /\ ~Destroying(g)

\* m_collect of an object: zero before its constructor initialises it.
Collects(side) ==
    LET g == IF side = "passed" THEN "m_posix_passthrough" ELSE "m_ld_preloaded_posix"
    IN  Index(g) <= alive \/ Constructing(g)

--------------------------------------------------------------------------------
(* The wrappers.                                                           *)

DataWrappers == DataOperations
MapWrappers == {"mmap", "munmap"}
\* open, openat and open64 take the flag, the handler and the passthrough of
\* their variadic form when O_CREAT is set.
OpenWrappers == {"open_variadic", "open", "creat", "creat64"}
OpenatWrappers == {"openat_variadic", "openat", "open64_variadic", "open64"}
StatfsWrappers == {"close", "sync", "statfs", "fstatfs", "statfs64", "fstatfs64"}
NamespaceWrappers == {"unlink", "unlinkat", "rename", "renameat"}
StreamWrappers == {"fopen", "fopen64", "fclose"}
DirectoryWrappers == {"mkdir", "mkdirat", "rmdir", "mknod", "mknodat"}
GetxattrWrappers == {"getxattr", "lgetxattr", "fgetxattr"}
SetxattrWrappers == {"setxattr", "lsetxattr", "fsetxattr"}
ListxattrWrappers == {"listxattr", "llistxattr", "flistxattr", "socket"}

\* The wrappers that look at their flag and at m_ldp_loaded.
RoutedWrappers ==
    UNION {DataWrappers, MapWrappers, OpenWrappers, OpenatWrappers, StatfsWrappers,
           NamespaceWrappers, StreamWrappers, DirectoryWrappers, GetxattrWrappers,
           SetxattrWrappers, ListxattrWrappers}

\* m_ldp_loaded->load () of an object that was destroyed reads freed memory.
Loads == IF Index("m_ldp_loaded") <= alive THEN {loaded} ELSE BOOLEAN

\* Before it is constructed m_ldp_loaded is null.
NullLoad(f) ==
    f \in RoutedWrappers \cap flags /\ stage = "loading" /\ alive < Index("m_ldp_loaded")

Routes(f) ==
    IF f \in RoutedWrappers
    THEN {IF f \in flags /\ load THEN "handled" ELSE "passed" : load \in Loads}
    ELSE {"handled"}

Running == stage \notin {"exited", "crashed"}

\* A buffer size, where there is a buffer.
SizesOf(f) == IF f \in DataOperations THEN Sizes ELSE {0}

Route(t, f) ==
    /\ Running
    /\ at[t] = "idle"
    /\ calls[t] < MaxCalls
    /\ ~NullLoad(f)
    /\ \E side \in Routes(f), size \in SizesOf(f) :
        /\ call' = [call EXCEPT ![t] = Call(f, side, size)]
        /\ at' = [at EXCEPT ![t] = IF side = "handled" THEN "enforce" ELSE "libc"]
    /\ calls' = [calls EXCEPT ![t] = @ + 1]
    /\ UNCHANGED <<lifeVars, requests, counters, historyVars, ledger>>

\* The process dies of a null pointer.
RouteCrashes(t, f) ==
    /\ Running
    /\ at[t] = "idle"
    /\ calls[t] < MaxCalls
    /\ NullLoad(f)
    /\ stage' = "crashed"
    /\ UNCHANGED <<flags, alive, busy, loaded, at, call, requests, counters,
                   historyVars, ledger, calls>>

\* The handler submits the call, or bypasses it.
Enforce(t) ==
    LET f == call[t].function IN
    /\ Running
    /\ at[t] = "enforce"
    /\ at' = [at EXCEPT ![t] = "libc"]
    /\ \E enforced \in MayBeEnforced(f) :
        /\ call' = [call EXCEPT ![t].enforced = enforced]
        /\ requests' =
            IF enforced
            THEN requests \cup {[operation |-> f, size |-> call[t].size,
                                 cost |-> cost(f, call[t].size)]}
            ELSE requests
    /\ UNCHANGED <<lifeVars, counters, historyVars, ledger, calls>>

\* External: libc's function.
Libc(t) ==
    /\ Running
    /\ at[t] = "libc"
    /\ \E r \in Results(call[t].function) : call' = [call EXCEPT ![t].result = r]
    /\ at' = [at EXCEPT ![t] = "account"]
    /\ UNCHANGED <<lifeVars, requests, counters, historyVars, ledger, calls>>

--------------------------------------------------------------------------------
(* Accounting.                                                             *)

Add(record, added) == [c \in Columns |-> record[c] + added[c]]

\* passthrough_posix_sync returns before its update.
Unaccounted == {"sync"}

\* A passthrough updates its entry and returns.
AccountPassed(t) ==
    LET f == call[t].function r == call[t].result IN
    counters' = IF Collects("passed") /\ f \notin Unaccounted
                THEN [counters EXCEPT !.passed[passed_entry(f)] = Add(@, passed_adds(f, r))]
                ELSE counters

AccountHandled(t) ==
    LET f == call[t].function
        added == handled_adds(f, call[t].result, call[t].enforced)
    IN  counters' = IF Collects("handled")
                    THEN [counters EXCEPT !.handled[f] = Add(@, added)]
                    ELSE counters

\* What the call should add: an operation, the bytes it moved, an error if it
\* failed; a bypass if a handler did not enforce it.
Expected(f, r, bypassed) ==
    IF bypassed THEN Bypass
    ELSE Added(1, Moved(f, r), IF Fails(f, r) THEN 1 ELSE 0, 0)

Note(t, bypassed) ==
    LET f == call[t].function s == call[t].side IN
    ledger' = IF Collects(s)
              THEN [ledger EXCEPT ![s][f] = Add(@, Expected(f, call[t].result, bypassed))]
              ELSE ledger

Return(t) ==
    /\ at' = [at EXCEPT ![t] = "idle"]
    /\ call' = [call EXCEPT ![t] = NoCall]
    /\ UNCHANGED <<lifeVars, requests, historyVars, calls>>

FinishPassed(t) ==
    /\ Running
    /\ at[t] = "account" /\ call[t].side = "passed"
    /\ AccountPassed(t)
    /\ Note(t, FALSE)
    /\ Return(t)

FinishHandled(t) ==
    /\ Running
    /\ at[t] = "account" /\ call[t].side = "handled"
    /\ AccountHandled(t)
    /\ Note(t, ~call[t].enforced)
    /\ Return(t)

--------------------------------------------------------------------------------
(* Construction and destruction.  Main is not inside a call of its own.    *)

Lives(s) == stage = s /\ at[Main] = "idle"

\* Mutant: the constructor sets the flag before it sets up the stage.
set_loaded_first(place, g) == place = "begin" /\ g = "m_ld_preloaded_posix"

\* set_loaded (true) is the last statement of the constructor.
set_loaded(place, g) == place = "end" /\ g = "m_ld_preloaded_posix"

BeginConstruction ==
    /\ Lives("loading") /\ ~busy /\ alive < Len(Globals)
    /\ busy' = TRUE
    /\ loaded' = (loaded \/ set_loaded("begin", Globals[alive + 1]))
    /\ UNCHANGED <<flags, stage, alive, at, call, requests, counters, historyVars,
                   ledger, calls>>

EndConstruction ==
    /\ Lives("loading") /\ busy
    /\ alive' = alive + 1
    /\ busy' = FALSE
    /\ loaded' = (loaded \/ set_loaded("end", Globals[alive + 1]))
    /\ stage' = IF alive + 1 = Len(Globals) THEN "main" ELSE stage
    /\ UNCHANGED <<flags, at, call, requests, counters, historyVars, ledger, calls>>

Operations(side) ==
    [e \in Entries |-> counters[side][e].operation + counters[side][e].bypass]

\* main returns or calls exit.
Exit ==
    /\ Lives("main")
    /\ stage' = "exiting"
    /\ due' = [due EXCEPT !.handled = Operations("handled")]
    /\ UNCHANGED <<flags, alive, busy, loaded, at, call, requests, counters, reports,
                   ledger, calls>>

\* The destructors of the preloaded object and of the passthrough start with
\* their reports.  (The passthrough opens and closes the file of its report
\* through itself: those two calls are not among the application's.)
BeginDestruction ==
    /\ Lives("exiting") /\ ~busy /\ alive > 0
    /\ busy' = TRUE
    /\ reports' =
        CASE Globals[alive] = "m_ld_preloaded_posix" ->
                [reports EXCEPT !.handled = Operations("handled")]
          [] Globals[alive] = "m_posix_passthrough" ->
                [reports EXCEPT !.passed = Operations("passed")]
          [] OTHER -> reports
    /\ UNCHANGED <<flags, stage, alive, loaded, at, call, requests, counters, due,
                   ledger, calls>>

EndDestruction ==
    /\ Lives("exiting") /\ busy
    /\ due' = IF Globals[alive] = "m_ld_preloaded_posix"
              THEN [due EXCEPT !.passed = Operations("passed")]
              ELSE due
    /\ alive' = alive - 1
    /\ busy' = FALSE
    /\ stage' = IF alive = 1 THEN "exited" ELSE stage
    /\ UNCHANGED <<flags, loaded, at, call, requests, counters, reports, ledger, calls>>

--------------------------------------------------------------------------------

Init ==
    /\ flags \in Configurations
    /\ stage = "loading" /\ alive = 0 /\ busy = FALSE /\ loaded = FALSE
    /\ at = [t \in Threads |-> "idle"]
    /\ call = [t \in Threads |-> NoCall]
    /\ requests = {}
    /\ counters = [s \in Sides |-> [e \in Entries |-> Nothing]]
    /\ ledger = counters
    /\ reports = [s \in Sides |-> NoReport]
    /\ due = reports
    /\ calls = [t \in Threads |-> 0]

Life == BeginConstruction \/ EndConstruction \/ Exit \/ BeginDestruction \/ EndDestruction

Next ==
    \/ Life
    \/ \E t \in Threads :
        \/ \E f \in Callers[t] : Route(t, f) \/ RouteCrashes(t, f)
        \/ Enforce(t)
        \/ Libc(t)
        \/ FinishPassed(t)
        \/ FinishHandled(t)

Spec == Init /\ [][Next]_vars

--------------------------------------------------------------------------------
(* Properties.                                                             *)

TypeOK ==
    /\ flags \in Configurations
    /\ stage \in {"loading", "main", "exiting", "exited", "crashed"}
    /\ alive \in 0 .. Len(Globals) /\ busy \in BOOLEAN /\ loaded \in BOOLEAN
    /\ at \in [Threads -> {"idle", "enforce", "libc", "account"}]
    /\ call \in [Threads -> [function : Functions \cup {"none"},
                             side : Sides \cup {"none"}, size : Sizes \cup {0},
                             enforced : BOOLEAN, result : {-1, 0, 1}]]
    /\ requests \subseteq [operation : Functions, size : Sizes \cup {0},
                           cost : 0 .. SizeModulus - 1]
    /\ {counters, ledger} \subseteq [Sides -> [Entries -> [Columns -> Nat]]]
    /\ {reports, due} \subseteq [Sides -> [Entries -> Nat \cup {-1}]]
    /\ calls \in [Threads -> 0 .. MaxCalls]

InHandler(t) == at[t] # "idle" /\ call[t].side = "handled"

\* No wrapper that asks m_ldp_loaded runs a handler while the library is being
\* loaded: not from another thread, and not from the constructor of the
\* preloaded object, which opens files and sockets itself.
HandlersAfterConstruction ==
    \A t \in Threads :
        InHandler(t) /\ call[t].function \in RoutedWrappers => stage # "loading"

\* open64 shares its entry with its variadic form when it is passed through.
Shared == {"open64", "open64_variadic"}

ExtAttrEntries == {e \in Entries : Class(e) = "ext_attr_calls"}

\* What the passthroughs leave out: their syncs, and the bytes of attributes.
Omitted(s, e) ==
    {c \in Columns :
        /\ s = "passed"
        /\ e \in Unaccounted \/ (c = "byte" /\ e \in ExtAttrEntries)}

Agree(s, e) ==
    \A c \in Columns \ Omitted(s, e) : counters[s][e][c] = ledger[s][e][c]

Part(table, e) == IF e \in Entries THEN table[e] ELSE Nothing
Together(table) == Add(Part(table, "open64"), Part(table, "open64_variadic"))

\* Whatever the function and the side it took, each of its calls that returned
\* is in the statistics once, under its own name, as an error exactly if libc
\* failed, with the bytes that were moved.  Handlers leave nothing out;
\* a passed sync is not counted, nor are the bytes of attributes that are passed.
CallsAccounted ==
    \A s \in Sides :
        /\ Together(counters[s]) = Together(ledger[s])
        /\ \A e \in Entries \ Shared : Agree(s, e)

\* When the process is gone its reports hold every call that counted in time:
\* the handled ones that returned before exit, the passed ones that returned
\* before the preloaded object was gone, those of its destructor included.
ReportsCoverCalls ==
    stage = "exited" =>
        \A s \in Sides, e \in Entries : reports[s][e] >= due[s][e]

\* posix_file_system.hpp says m_ldp_loaded defines if the LdPreloadedPosix object
\* is fully initialized.  Nothing resets it when the object is destroyed.
LoadedMeansInitialized == loaded => Initialized("m_ld_preloaded_posix")

\* ld_preloaded_posix.hpp says of the payload of a request that the cost of data
\* operations is directly proportional to their buffer size, and that metadata
\* operations cost one token.  PAIO is asked for a number that went through an int.
CostIsSize ==
    \A r \in requests :
        r.cost = IF r.operation \in DataOperations THEN r.size ELSE 1
================================================================================
