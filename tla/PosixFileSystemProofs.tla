-------------------------- MODULE PosixFileSystemProofs ------------------------
(***************************************************************************)
(* The life of the globals and the accounting of the calls, for any        *)
(* functions, configurations, buffer sizes, number of threads and calls:   *)
(* no handler before the constructor is done, every call in the            *)
(* statistics once, reports that miss none of the calls that were in time, *)
(* which requests ask for what the call is worth.                          *)
(***************************************************************************)
EXTENDS PosixFileSystem, TLAPS

CallType == [function : Functions \cup {"none"}, side : Sides \cup {"none"},
             size : Sizes \cup {0}, enforced : BOOLEAN, result : {-1, 0, 1}]

\* What is known of the calls in progress.
CallsOK ==
    /\ at \in [Threads -> {"idle", "enforce", "libc", "account"}]
    /\ call \in [Threads -> CallType]
    /\ \A t \in Threads : at[t] # "idle" => call[t].function \in Functions
                                            /\ call[t].side \in Sides

\* The flag is set by the last step of the last constructor.
LifeOK ==
    /\ stage \in {"loading", "main", "exiting", "exited", "crashed"}
    /\ alive \in 0 .. 4 /\ busy \in BOOLEAN /\ loaded \in BOOLEAN
    /\ stage = "loading" => ~loaded /\ HandlersAfterConstruction
    /\ stage = "loading" => alive < 4
    /\ stage = "main" => alive = 4
    /\ stage = "exiting" => alive > 0

LoadInv == CallsOK /\ LifeOK

\* What a call in progress has done so far is something its function does.
CallsAccountable ==
    \A t \in Threads :
        LET c == call[t]
        IN  /\ at[t] # "idle" /\ c.side = "passed" => c.function \in RoutedWrappers
            /\ at[t] \in {"libc", "account"} /\ c.side = "handled" =>
                    c.enforced \in MayBeEnforced(c.function)
            /\ at[t] = "account" => c.result \in Results(c.function)

\* The inductive invariant behind CallsAccounted.
AccountInv == LoadInv /\ TypeOK /\ CallsAccountable /\ CallsAccounted

\* The destructors have written their reports.
HandledReported == stage = "exited" \/ (stage = "exiting" /\ (busy \/ alive < 4))
PassedReported ==
    stage = "exited" \/ (stage = "exiting" /\ (alive < 2 \/ (busy /\ alive = 2)))

\* The counters only grow, so what is due is in them, and in what was written later.
DueCounted ==
    \A e \in Entries :
        /\ due["handled"][e] <= Operations("handled")[e]
        /\ due["passed"][e] <= Operations("passed")[e]
        /\ HandledReported => reports["handled"][e] >= due["handled"][e]
        /\ PassedReported => reports["passed"][e] >= due["passed"][e]

\* The inductive invariant behind ReportsCoverCalls.
ReportsInv == AccountInv /\ DueCounted /\ (stage = "main" => ~busy)

--------------------------------------------------------------------------------

LEMMA GlobalsAre ==
    /\ Len(Globals) = 4
    /\ Index("m_ldp_loaded") = 3
    /\ Index("m_posix_passthrough") = 2
    /\ Index("m_ld_preloaded_posix") = 4
    /\ \A i \in 1 .. 4 : Globals[i] = "m_ld_preloaded_posix" <=> i = 4
    /\ \A i \in 1 .. 4 : Globals[i] = "m_posix_passthrough" <=> i = 2
<1>1. Len(Globals) = 4 /\ DOMAIN Globals = 1 .. 4
  BY DEF Globals
<1>2. /\ Globals[1] = "m_logger_ptr" /\ Globals[2] = "m_posix_passthrough"
      /\ Globals[3] = "m_ldp_loaded" /\ Globals[4] = "m_ld_preloaded_posix"
  BY DEF Globals
<1>3. \A i \in 1 .. 4 : i = 1 \/ i = 2 \/ i = 3 \/ i = 4
  OBVIOUS
<1>4. \A i \in 1 .. 4 : /\ Globals[i] = "m_ldp_loaded" <=> i = 3
                        /\ Globals[i] = "m_ld_preloaded_posix" <=> i = 4
                        /\ Globals[i] = "m_posix_passthrough" <=> i = 2
  BY <1>2, <1>3
<1> QED
  BY <1>1, <1>4 DEF Index

\* A wrapper that looks at the flag does not choose its handler before it is set.
LEMMA RouteWhileLoading ==
    ASSUME LoadInv, NEW t \in Threads, NEW f \in RoutedWrappers, stage = "loading",
           ~NullLoad(f), "handled" \in Routes(f)
    PROVE  FALSE
<1>1. f \in flags /\ TRUE \in Loads
  BY DEF Routes
<1>2. alive >= 3
  BY <1>1, GlobalsAre DEF NullLoad, LoadInv, LifeOK
<1> QED
  BY <1>1, <1>2, GlobalsAre DEF Loads, LoadInv, LifeOK

LEMMA ResultsType == ASSUME NEW f PROVE Results(f) \subseteq {-1, 0, 1}
BY DEF Results

LEMMA LoadInit == Init => LoadInv
<1> SUFFICES ASSUME Init PROVE LoadInv
  OBVIOUS
<1>1. NoCall \in CallType
  BY DEF NoCall, Call, CallType
<1>2. CallsOK
  BY <1>1 DEF Init, CallsOK
<1>3. stage = "loading" /\ alive = 0 /\ busy = FALSE /\ loaded = FALSE
  BY DEF Init
<1>4. \A t \in Threads : ~InHandler(t)
  BY DEF Init, InHandler
<1>5. busy \in BOOLEAN /\ loaded \in BOOLEAN /\ ~loaded
  BY <1>3, Zenon
<1> QED
  BY <1>2, <1>3, <1>4, <1>5 DEF LoadInv, LifeOK, HandlersAfterConstruction

LEMMA RouteKeepsLoad ==
    ASSUME LoadInv, NEW t \in Threads, NEW f \in Callers[t], Route(t, f)
    PROVE  LoadInv'
<1>1. f \in Functions
  BY PosixFileSystemAssumption
<1>2. PICK side \in Routes(f), size \in SizesOf(f) :
        /\ call' = [call EXCEPT ![t] = Call(f, side, size)]
        /\ at' = [at EXCEPT ![t] = IF side = "handled" THEN "enforce" ELSE "libc"]
  BY DEF Route
<1>3. side \in Sides /\ Call(f, side, size) \in CallType
  BY <1>1 DEF Routes, Call, CallType, Sides, SizesOf
<1>4. CallsOK'
  BY <1>1, <1>2, <1>3 DEF LoadInv, CallsOK, Call
<1>5. stage = "loading" /\ side = "handled" => f \notin RoutedWrappers
  BY RouteWhileLoading DEF Route
<1>6. UNCHANGED lifeVars
  BY DEF Route
<1>7. ASSUME stage = "loading" PROVE HandlersAfterConstruction'
  <2> SUFFICES ASSUME NEW u \in Threads, InHandler(u)'
               PROVE  call'[u].function \notin RoutedWrappers
    BY DEF HandlersAfterConstruction
  <2>1. CASE u = t
    BY <1>2, <1>5, <1>7, <2>1 DEF InHandler, LoadInv, CallsOK, Call
  <2>2. CASE u # t
    BY <1>2, <1>7, <2>2
        DEF InHandler, LoadInv, CallsOK, LifeOK, HandlersAfterConstruction
  <2> QED
    BY <2>1, <2>2
<1> QED
  BY <1>4, <1>6, <1>7 DEF LoadInv, LifeOK, lifeVars

\* A call in progress keeps its function and side until it returns.
LEMMA CallKeepsLoad ==
    ASSUME LoadInv, NEW t \in Threads,
           Enforce(t) \/ Libc(t) \/ FinishPassed(t) \/ FinishHandled(t)
    PROVE  LoadInv'
<1>1. UNCHANGED lifeVars
  BY DEF Enforce, Libc, FinishPassed, FinishHandled, Return
<1>2. CallsOK' /\ \A u \in Threads : InHandler(u)' =>
        InHandler(u) /\ call'[u].function = call[u].function
  <2>1. CASE Enforce(t)
    <3>1. PICK b \in BOOLEAN : call' = [call EXCEPT ![t].enforced = b]
      BY <2>1 DEF Enforce, MayBeEnforced
    <3> QED
      BY <2>1, <3>1 DEF Enforce, LoadInv, CallsOK, CallType, InHandler
  <2>2. CASE Libc(t)
    <3>1. PICK r \in {-1, 0, 1} : call' = [call EXCEPT ![t].result = r]
      BY <2>2, ResultsType DEF Libc
    <3> QED
      BY <2>2, <3>1 DEF Libc, LoadInv, CallsOK, CallType, InHandler
  <2>3. CASE FinishPassed(t) \/ FinishHandled(t)
    <3>1. NoCall \in CallType
      BY DEF NoCall, Call, CallType
    <3> QED
      BY <2>3, <3>1 DEF FinishPassed, FinishHandled, Return, LoadInv, CallsOK, InHandler
  <2> QED
    BY <2>1, <2>2, <2>3
<1> QED
  BY <1>1, <1>2 DEF LoadInv, LifeOK, lifeVars, HandlersAfterConstruction

LEMMA LifeKeepsLoad ==
    ASSUME LoadInv, Life
    PROVE  LoadInv'
<1>1. UNCHANGED <<at, call>>
  BY DEF Life, BeginConstruction, EndConstruction, Exit, BeginDestruction, EndDestruction
<1>2. CallsOK'
  BY <1>1 DEF LoadInv, CallsOK
<1>3. HandlersAfterConstruction' \/ stage' # "loading" \/ stage # "loading"
  BY <1>1 DEF LoadInv, LifeOK, HandlersAfterConstruction, InHandler
<1>4. CASE BeginConstruction
  <2>1. stage = "loading" /\ stage' = "loading" /\ alive' = alive /\ busy' \in BOOLEAN
    BY <1>4, Zenon DEF BeginConstruction, Lives
  <2>2. loaded' \in BOOLEAN /\ ~loaded' /\ HandlersAfterConstruction'
    BY <1>1, <1>3, <1>4 DEF BeginConstruction, set_loaded, LoadInv, LifeOK, Lives,
        HandlersAfterConstruction, InHandler
  <2> QED
    BY <1>2, <2>1, <2>2 DEF LoadInv, LifeOK
<1>5. CASE EndConstruction
  <2>1. /\ stage = "loading" /\ busy' \in BOOLEAN /\ loaded' \in BOOLEAN
        /\ loaded' = (loaded \/ set_loaded("end", Globals[alive + 1]))
        /\ stage' = IF alive + 1 = Len(Globals) THEN "main" ELSE stage
        /\ alive' = alive + 1
    BY <1>5, Zenon DEF EndConstruction, Lives
  <2>2. alive' \in 0 .. 4
    BY <1>5, <2>1 DEF EndConstruction, LoadInv, LifeOK, Lives
  <2>3. stage' = "loading" => ~loaded' /\ HandlersAfterConstruction' /\ alive' < 4
    BY <1>1, <2>1, <2>2, GlobalsAre DEF set_loaded, LoadInv, LifeOK,
        HandlersAfterConstruction, InHandler
  <2>4. stage' = "main" => alive' = 4
    BY <2>1, GlobalsAre
  <2> QED
    BY <1>2, <2>1, <2>2, <2>3, <2>4 DEF LoadInv, LifeOK
<1>6. CASE Exit
  BY <1>2, <1>6 DEF Exit, LoadInv, LifeOK, Lives
<1>7. CASE BeginDestruction
  <2>1. /\ stage = "exiting" /\ stage' = stage /\ alive' = alive
        /\ busy' \in BOOLEAN /\ loaded' = loaded
    BY <1>7, Zenon DEF BeginDestruction, Lives
  <2> QED
    BY <1>2, <2>1 DEF LoadInv, LifeOK
<1>8. CASE EndDestruction
  <2>1. busy' \in BOOLEAN /\ loaded' = loaded
    BY <1>8, Zenon DEF EndDestruction
  <2>2. stage = "exiting" /\ alive' = alive - 1
    BY <1>8, Zenon DEF EndDestruction, Lives
  <2>3. stage' = IF alive = 1 THEN "exited" ELSE stage
    BY <1>8, Zenon DEF EndDestruction
  <2>4. alive' \in 0 .. 4 /\ (stage' = "exiting" => alive' > 0)
    BY <2>2, <2>3 DEF LoadInv, LifeOK
  <2>5. stage' \in {"exiting", "exited"}
    BY <2>2, <2>3
  <2> QED
    BY <1>2, <2>1, <2>4, <2>5 DEF LoadInv, LifeOK
<1> QED
  BY <1>4, <1>5, <1>6, <1>7, <1>8 DEF Life

LEMMA LoadNext == LoadInv /\ [Next]_vars => LoadInv'
<1> SUFFICES ASSUME LoadInv, [Next]_vars PROVE LoadInv'
  OBVIOUS
<1>1. CASE UNCHANGED vars
  BY <1>1 DEF vars, LoadInv, CallsOK, LifeOK, HandlersAfterConstruction, InHandler
<1>2. CASE Life
  BY <1>2, LifeKeepsLoad
<1>3. ASSUME NEW t \in Threads, NEW f \in Callers[t], Route(t, f) PROVE LoadInv'
  BY <1>3, RouteKeepsLoad
<1>4. ASSUME NEW t \in Threads, NEW f \in Callers[t], RouteCrashes(t, f) PROVE LoadInv'
  BY <1>4 DEF RouteCrashes, LoadInv, CallsOK, LifeOK
<1>5. ASSUME NEW t \in Threads,
             Enforce(t) \/ Libc(t) \/ FinishPassed(t) \/ FinishHandled(t)
      PROVE  LoadInv'
  BY <1>5, CallKeepsLoad
<1> QED
  BY <1>1, <1>2, <1>3, <1>4, <1>5 DEF Next

--------------------------------------------------------------------------------
(* What one call adds: the tests of PosixPassthrough, function by function, *)
(* and the updates of the handlers, class by class, against what libc did. *)

LEMMA DomainsAre ==
    /\ DOMAIN ReadWritePassthroughs = {"read", "write", "pread", "pwrite", "pread64",
                                       "pwrite64"}
    /\ DOMAIN MapPassthroughs = {"mmap", "munmap"}
    /\ DOMAIN OpenPassthroughs = {"open_variadic", "open", "creat", "creat64"}
    /\ DOMAIN OpenatPassthroughs = {"openat_variadic", "openat", "open64_variadic",
                                    "open64"}
    /\ DOMAIN ClosePassthroughs = {"close", "sync"}
    /\ DOMAIN StatfsPassthroughs = {"statfs", "fstatfs", "statfs64", "fstatfs64"}
    /\ DOMAIN NamespacePassthroughs = {"unlink", "unlinkat", "rename", "renameat"}
    /\ DOMAIN StreamPassthroughs = {"fopen", "fopen64", "fclose"}
    /\ DOMAIN DirectoryPassthroughs = {"mkdir", "mkdirat", "rmdir", "mknod", "mknodat"}
    /\ DOMAIN GetSetxattrPassthroughs = {"getxattr", "lgetxattr", "fgetxattr",
                                         "setxattr", "lsetxattr", "fsetxattr"}
    /\ DOMAIN ListxattrPassthroughs = {"listxattr", "llistxattr", "flistxattr"}
    /\ DOMAIN SocketPassthrough = {"socket"}
BY DEF ReadWritePassthroughs, MapPassthroughs, OpenPassthroughs, OpenatPassthroughs,
   ClosePassthroughs, StatfsPassthroughs, NamespacePassthroughs, StreamPassthroughs,
   DirectoryPassthroughs, GetSetxattrPassthroughs, ListxattrPassthroughs,
   SocketPassthrough

\* A function is in one table only.
LEMMA TheTable ==
    ASSUME NEW T \in Tables, NEW f \in DOMAIN T
    PROVE  passthrough(f) = T[f]
<1>1. ASSUME NEW u \in Tables, f \in DOMAIN u
      PROVE  u = T
  BY <1>1, DomainsAre DEF Tables
<1>2. (CHOOSE t \in Tables : f \in DOMAIN t) = T
  BY <1>1
<1> QED
  BY <1>2 DEF passthrough

\* The class and the test of a table's functions.
Has(f, class, test) ==
    /\ f \in PassedFunctions /\ f # "fcntl"
    /\ passthrough(f).class = class /\ passthrough(f).test = test

LEMMA TableTests ==
    /\ \A f \in DOMAIN ReadWritePassthroughs : Has(f, "data_calls", "non_negative")
    /\ Has("mmap", "data_calls", "not_failed")
    /\ Has("munmap", "data_calls", "zero")
    /\ \A f \in DOMAIN OpenPassthroughs : Has(f, "metadata_calls", "non_negative")
    /\ \A f \in DOMAIN OpenatPassthroughs : Has(f, "metadata_calls", "non_negative")
    /\ Has("close", "metadata_calls", "non_negative")
    /\ Has("sync", "metadata_calls", "none")
    /\ \A f \in DOMAIN StatfsPassthroughs : Has(f, "metadata_calls", "zero")
    /\ \A f \in DOMAIN NamespacePassthroughs : Has(f, "metadata_calls", "zero")
    /\ Has("fopen", "metadata_calls", "not_null")
    /\ Has("fopen64", "metadata_calls", "not_null")
    /\ Has("fclose", "metadata_calls", "zero")
    /\ \A f \in DOMAIN DirectoryPassthroughs : Has(f, "directory_calls", "zero")
    /\ \A f \in DOMAIN GetSetxattrPassthroughs : Has(f, "ext_attr_calls", "not_minus_one")
    /\ \A f \in DOMAIN ListxattrPassthroughs : Has(f, "ext_attr_calls", "not_minus_one")
    /\ Has("socket", "special_calls", "not_minus_one")
<1>1. ASSUME NEW T \in Tables, NEW f \in DOMAIN T, NEW class, NEW test,
             T[f] = Passthrough(class, test)
      PROVE  Has(f, class, test)
  <2>1. f \in PassedFunctions /\ f # "fcntl"
    BY DomainsAre DEF PassedFunctions, Tables
  <2> QED
    BY <1>1, <2>1, TheTable DEF Has, Passthrough
<1>2. /\ ReadWritePassthroughs \in Tables /\ MapPassthroughs \in Tables
      /\ OpenPassthroughs \in Tables /\ OpenatPassthroughs \in Tables
      /\ ClosePassthroughs \in Tables /\ StatfsPassthroughs \in Tables
      /\ NamespacePassthroughs \in Tables /\ StreamPassthroughs \in Tables
      /\ DirectoryPassthroughs \in Tables /\ GetSetxattrPassthroughs \in Tables
      /\ ListxattrPassthroughs \in Tables /\ SocketPassthrough \in Tables
  BY DEF Tables
<1>3. \A f \in DOMAIN ReadWritePassthroughs : Has(f, "data_calls", "non_negative")
  BY <1>1, <1>2, DomainsAre DEF ReadWritePassthroughs
<1>4. /\ Has("mmap", "data_calls", "not_failed")
      /\ Has("munmap", "data_calls", "zero")
  BY <1>1, <1>2, DomainsAre DEF MapPassthroughs
<1>5. \A f \in DOMAIN OpenPassthroughs : Has(f, "metadata_calls", "non_negative")
  BY <1>1, <1>2, DomainsAre DEF OpenPassthroughs
<1>6. \A f \in DOMAIN OpenatPassthroughs : Has(f, "metadata_calls", "non_negative")
  BY <1>1, <1>2, DomainsAre DEF OpenatPassthroughs
<1>7. /\ Has("close", "metadata_calls", "non_negative")
      /\ Has("sync", "metadata_calls", "none")
  BY <1>1, <1>2, DomainsAre DEF ClosePassthroughs
<1>8. \A f \in DOMAIN StatfsPassthroughs : Has(f, "metadata_calls", "zero")
  BY <1>1, <1>2, DomainsAre DEF StatfsPassthroughs
<1>9. \A f \in DOMAIN NamespacePassthroughs : Has(f, "metadata_calls", "zero")
  BY <1>1, <1>2, DomainsAre DEF NamespacePassthroughs
<1>10. /\ Has("fopen", "metadata_calls", "not_null")
       /\ Has("fopen64", "metadata_calls", "not_null")
       /\ Has("fclose", "metadata_calls", "zero")
  BY <1>1, <1>2, DomainsAre DEF StreamPassthroughs
<1>11. \A f \in DOMAIN DirectoryPassthroughs : Has(f, "directory_calls", "zero")
  BY <1>1, <1>2, DomainsAre DEF DirectoryPassthroughs
<1>12. \A f \in DOMAIN GetSetxattrPassthroughs : Has(f, "ext_attr_calls", "not_minus_one")
  BY <1>1, <1>2, DomainsAre DEF GetSetxattrPassthroughs
<1>13. \A f \in DOMAIN ListxattrPassthroughs : Has(f, "ext_attr_calls", "not_minus_one")
  BY <1>1, <1>2, DomainsAre DEF ListxattrPassthroughs
<1>14. Has("socket", "special_calls", "not_minus_one")
  BY <1>1, <1>2, DomainsAre DEF SocketPassthrough
<1> QED
  BY <1>3, <1>4, <1>5, <1>6, <1>7, <1>8, <1>9, <1>10, <1>11, <1>12, <1>13, <1>14

LEMMA SuccessesAre ==
    /\ Successes["non_negative"] = {0, 1} /\ Successes["zero"] = {0}
    /\ Successes["not_minus_one"] = {0, 1} /\ Successes["not_null"] = {-1, 1}
    /\ Successes["not_failed"] = {0, 1} /\ Successes["none"] = {-1, 0, 1}
BY DEF Successes

\* Every function is in one of the tables.
LEMMA TheFunctions ==
    ASSUME NEW f \in PassedFunctions
    PROVE  \/ f \in DOMAIN ReadWritePassthroughs
           \/ f \in DOMAIN OpenPassthroughs \cup DOMAIN OpenatPassthroughs
           \/ f \in DOMAIN StatfsPassthroughs \cup DOMAIN NamespacePassthroughs
           \/ f \in DOMAIN DirectoryPassthroughs
           \/ f \in DOMAIN GetSetxattrPassthroughs \cup DOMAIN ListxattrPassthroughs
           \/ f \in {"mmap", "munmap", "close", "sync", "fopen", "fopen64", "fclose",
                     "socket"}
BY DomainsAre DEF PassedFunctions, Tables

\* The test of a passthrough tells the failures of its function apart.
LEMMA TestsAreRight ==
    ASSUME NEW f \in PassedFunctions, NEW r \in Results(f)
    PROVE  r \in Successes[passthrough(f).test] <=> ~Fails(f, r)
<1>r. r \in {-1, 0, 1}
  BY ResultsType
<1>1. CASE f \in DOMAIN ReadWritePassthroughs \cup DOMAIN OpenPassthroughs
                  \cup DOMAIN OpenatPassthroughs \cup {"close"}
  <2>1. passthrough(f).test = "non_negative" /\ f \notin Streams
    BY <1>1, TableTests, DomainsAre DEF Has, Streams
  <2> QED
    BY <1>r, <2>1, SuccessesAre DEF Fails
<1>2. CASE f \in DOMAIN StatfsPassthroughs \cup DOMAIN NamespacePassthroughs
                  \cup DOMAIN DirectoryPassthroughs \cup {"munmap", "fclose"}
  <2>1. passthrough(f).test = "zero" /\ f \notin Streams
    BY <1>2, TableTests, DomainsAre DEF Has, Streams
  <2>2. r \in {-1, 0}
    BY <1>2, DomainsAre DEF Results, Streams
  <2> QED
    BY <2>1, <2>2, SuccessesAre DEF Fails
<1>3. CASE f \in DOMAIN GetSetxattrPassthroughs \cup DOMAIN ListxattrPassthroughs
                  \cup {"socket"}
  <2>1. passthrough(f).test = "not_minus_one" /\ f \notin Streams
    BY <1>3, TableTests, DomainsAre DEF Has, Streams
  <2> QED
    BY <1>r, <2>1, SuccessesAre DEF Fails
<1>4. CASE f \in Streams
  <2>1. passthrough(f).test = "not_null"
    BY <1>4, TableTests DEF Has, Streams
  <2> QED
    BY <1>r, <1>4, <2>1, SuccessesAre DEF Fails
<1>5. CASE f = "mmap"
  <2>1. passthrough(f).test = "not_failed" /\ f \notin Streams
    BY <1>5, TableTests DEF Has, Streams
  <2> QED
    BY <1>r, <2>1, SuccessesAre DEF Fails
<1>6. CASE f = "sync"
  <2>1. passthrough(f).test = "none" /\ f \notin Streams
    BY <1>6, TableTests DEF Has, Streams
  <2>2. r = 0
    BY <1>6, DomainsAre DEF Results, Streams
  <2> QED
    BY <2>1, <2>2, SuccessesAre DEF Fails
<1> QED
  BY <1>1, <1>2, <1>3, <1>4, <1>5, <1>6, TheFunctions DEF Streams

LEMMA AddedType ==
    \A o, b, e, p \in Nat :
        /\ Added(o, b, e, p) \in [Columns -> Nat]
        /\ Added(o, b, e, p)["operation"] = o /\ Added(o, b, e, p)["byte"] = b
        /\ Added(o, b, e, p)["error"] = e /\ Added(o, b, e, p)["bypass"] = p
BY DEF Added, Columns

LEMMA ExpectedType ==
    ASSUME NEW f, NEW r \in Results(f), NEW bypassed
    PROVE  Expected(f, r, bypassed) \in [Columns -> Nat]
<1>1. Moved(f, r) \in Nat
  BY ResultsType DEF Moved, Fails, Streams, Transfers
<1>2. Bypass \in [Columns -> Nat]
  BY AddedType DEF Bypass
<1>3. CASE Fails(f, r)
  BY <1>1, <1>2, <1>3, AddedType DEF Expected
<1>4. CASE ~Fails(f, r)
  BY <1>1, <1>2, <1>4, AddedType DEF Expected
<1> QED
  BY <1>3, <1>4

\* What a passthrough adds is what happened, but for the bytes of attributes.
LEMMA PassedAddsExpected ==
    ASSUME NEW f \in PassedFunctions, NEW r \in Results(f)
    PROVE  /\ passed_adds(f, r) \in [Columns -> Nat]
           /\ \/ passed_adds(f, r) = Expected(f, r, FALSE)
              \/ /\ Class(f) = "ext_attr_calls"
                 /\ \A c \in Columns \ {"byte"} :
                        passed_adds(f, r)[c] = Expected(f, r, FALSE)[c]
<1>e. Expected(f, r, FALSE) \in [Columns -> Nat]
  BY ExpectedType
<1>x. Expected(f, r, FALSE) = Added(1, Moved(f, r), IF Fails(f, r) THEN 1 ELSE 0, 0)
  BY DEF Expected
<1>1. CASE Fails(f, r)
  BY <1>1, <1>e, <1>x, TestsAreRight DEF passed_adds, Failure, Moved
<1>2. CASE ~Fails(f, r) /\ f \in DOMAIN ReadWritePassthroughs
  BY <1>2, <1>e, <1>x, TestsAreRight, DomainsAre DEF passed_adds, Moved, Transfers
<1>3. CASE /\ ~Fails(f, r)
           /\ f \in DOMAIN GetSetxattrPassthroughs \cup DOMAIN ListxattrPassthroughs
  <2>1. Class(f) = "ext_attr_calls"
    BY <1>3, TableTests DEF Has, Class
  <2>2. /\ passed_adds(f, r) = Added(1, 0, 0, 0)
        /\ Expected(f, r, FALSE) = Added(1, Moved(f, r), 0, 0)
    BY <1>3, <1>x, TestsAreRight, DomainsAre DEF passed_adds
  <2>3. Added(1, 0, 0, 0) \in [Columns -> Nat]
    BY AddedType
  <2>4. \A c \in Columns \ {"byte"} : Added(1, 0, 0, 0)[c] = Added(1, Moved(f, r), 0, 0)[c]
    BY DEF Added, Columns
  <2> QED
    BY <2>1, <2>2, <2>3, <2>4
<1>4. CASE ~Fails(f, r) /\ f \notin Transfers /\ f \notin DOMAIN ReadWritePassthroughs
  BY <1>4, <1>e, <1>x, TestsAreRight DEF passed_adds, Moved
<1> QED
  BY <1>1, <1>2, <1>3, <1>4, DomainsAre DEF Transfers

\* What a handler adds is what happened.
LEMMA HandledAddsExpected ==
    ASSUME NEW f \in AllFunctions, NEW r \in Results(f), NEW enforced \in MayBeEnforced(f)
    PROVE  /\ handled_adds(f, r, enforced) \in [Columns -> Nat]
           /\ handled_adds(f, r, enforced) = Expected(f, r, ~enforced)
<1>r. r \in {-1, 0, 1}
  BY ResultsType
<1>b. enforced \in BOOLEAN
  BY DEF MayBeEnforced
<1>e. Expected(f, r, ~enforced) \in [Columns -> Nat]
  BY ExpectedType
<1>1. CASE ~enforced
  BY <1>1, <1>e DEF handled_adds, Expected
<1>2. CASE enforced
  <2>1. f \in PassedFunctions /\ f # "fcntl" /\ f # "socket"
    BY <1>2 DEF AllFunctions, MayBeEnforced
  <2>2. Class(f) = passthrough(f).class
    BY <2>1 DEF Class
  <2>3. Expected(f, r, ~enforced)
            = Added(1, Moved(f, r), IF Fails(f, r) THEN 1 ELSE 0, 0)
    BY <1>2 DEF Expected
  <2>4. CASE f \in DOMAIN ReadWritePassthroughs \cup {"mmap", "munmap"}
    <3>1. Class(f) = "data_calls"
      BY <2>2, <2>4, TableTests DEF Has
    <3>2. handled_adds(f, r, enforced) = update_statistic_entry_data(handler_result(f, r))
      BY <1>2, <3>1 DEF handled_adds
    <3>3. CASE f \in DOMAIN ReadWritePassthroughs
      <4>1. handler_result(f, r) = r /\ f \notin Streams
        BY <3>3, DomainsAre DEF handler_result, Streams
      <4>2. Fails(f, r) <=> r = -1
        BY <4>1 DEF Fails
      <4>3. Moved(f, r) = IF r = -1 THEN 0 ELSE r
        BY <3>3, <4>2, DomainsAre DEF Moved, Transfers
      <4> QED
        BY <1>r, <1>e, <2>3, <3>2, <4>1, <4>2, <4>3 DEF update_statistic_entry_data, Failure
    <3>4. CASE f \in {"mmap", "munmap"}
      <4>1. /\ Moved(f, r) = 0 /\ f \notin Streams
            /\ handler_result(f, r) = IF r = -1 THEN -1 ELSE 0
        BY <1>r, <3>4, DomainsAre DEF handler_result, Streams, Moved, Results, Transfers
      <4> QED
        BY <1>r, <1>e, <2>3, <3>2, <4>1 DEF update_statistic_entry_data, Failure, Fails
    <3> QED
      BY <2>4, <3>3, <3>4
  <2>5. CASE f \in DOMAIN OpenPassthroughs \cup DOMAIN OpenatPassthroughs
                   \cup DOMAIN StatfsPassthroughs \cup DOMAIN NamespacePassthroughs
                   \cup {"close", "sync", "fopen", "fopen64", "fclose"}
    <3>1. Class(f) = "metadata_calls"
      BY <2>2, <2>5, TableTests DEF Has
    <3>2. /\ handled_adds(f, r, enforced)
                = update_statistic_entry_metadata(handler_result(f, r))
          /\ Moved(f, r) = 0
      BY <1>2, <2>5, <3>1, DomainsAre DEF handled_adds, Moved, Transfers
    <3>3. CASE f \in Streams
      <4>1. handler_result(f, r) = IF r # 0 THEN 0 ELSE -1
        BY <3>3 DEF handler_result, Streams
      <4> QED
        BY <1>e, <2>3, <3>2, <3>3, <4>1
            DEF update_statistic_entry_metadata, Failure, Fails
    <3>4. CASE f = "sync"
      <4>1. handler_result(f, r) = 1 /\ r = 0 /\ f \notin Streams
        BY <3>4, DomainsAre DEF handler_result, Streams, Results
      <4> QED
        BY <1>e, <2>3, <3>2, <4>1 DEF update_statistic_entry_metadata, Failure, Fails
    <3>5. CASE f \notin Streams \cup {"sync"}
      <4>1. handler_result(f, r) = r
        BY <2>5, <3>5, DomainsAre DEF handler_result, Streams
      <4> QED
        BY <1>r, <1>e, <2>3, <3>2, <3>5, <4>1
            DEF update_statistic_entry_metadata, Failure, Fails
    <3> QED
      BY <3>3, <3>4, <3>5
  <2>6. CASE f \in DOMAIN DirectoryPassthroughs
    <3>1. Class(f) = "directory_calls"
      BY <2>2, <2>6, TableTests DEF Has
    <3>2. /\ handled_adds(f, r, enforced)
                = update_statistic_entry_dir(handler_result(f, r))
          /\ Moved(f, r) = 0 /\ handler_result(f, r) = r /\ f \notin Streams
          /\ r \in {-1, 0}
      BY <1>2, <2>6, <3>1, DomainsAre
          DEF handled_adds, Moved, Transfers, handler_result, Streams, Results
    <3> QED
      BY <1>e, <2>3, <3>2 DEF update_statistic_entry_dir, Failure, Fails
  <2>7. CASE f \in DOMAIN GetSetxattrPassthroughs \cup DOMAIN ListxattrPassthroughs
    <3>1. Class(f) = "ext_attr_calls"
      BY <2>2, <2>7, TableTests DEF Has
    <3>2. /\ handled_adds(f, r, enforced)
                = update_statistic_entry_ext_attr(handler_result(f, r))
          /\ handler_result(f, r) = r /\ f \notin Streams
      BY <1>2, <2>7, <3>1, DomainsAre DEF handled_adds, handler_result, Streams
    <3>3. Moved(f, r) = IF r = -1 THEN 0 ELSE r
      BY <1>r, <2>7, <3>2, DomainsAre DEF Moved, Transfers, Fails, Results
    <3> QED
      BY <1>r, <1>e, <2>3, <3>2, <3>3 DEF update_statistic_entry_ext_attr, Failure, Fails
  <2> QED
    BY <2>1, <2>4, <2>5, <2>6, <2>7, TheFunctions
<1> QED
  BY <1>1, <1>2, <1>b

--------------------------------------------------------------------------------
(* Types.                                                                  *)

Counts == [Columns -> Nat]
CounterType == [Sides -> [Entries -> Counts]]

LEMMA NothingType == Nothing \in Counts
BY AddedType DEF Nothing, Counts

LEMMA AddIs ==
    \A r, a \in Counts :
        Add(r, a) \in Counts /\ \A c \in Columns : Add(r, a)[c] = r[c] + a[c]
BY DEF Add, Counts

LEMMA SidesAre == "handled" \in Sides /\ "passed" \in Sides
BY DEF Sides

LEMMA SmallModulo ==
    ASSUME NEW M, M \in Nat, M > 0, NEW n, n \in Nat, n < M
    PROVE  n % M = n
<1>1. n = 0 * M + n
  OBVIOUS
<1> QED
  BY <1>1, SMTT(60)

LEMMA CostIs ==
    ASSUME NEW f, NEW size \in Sizes \cup {0}
    PROVE  cost(f, size) \in 0 .. SizeModulus - 1
<1>1. /\ SizeModulus \in Nat /\ IntModulus \in Nat /\ IntModulus >= 4
      /\ IntModulus <= SizeModulus
  BY DataPlaneStageAssumption
<1>2. size \in Nat
  BY <1>1, PosixFileSystemAssumption
<1>3. PICK n \in Nat : n = payload(f, size)
  BY <1>2 DEF payload
<1>4. \A m \in Int : m % SizeModulus \in 0 .. SizeModulus - 1
  BY <1>1
<1>5. n % IntModulus \in 0 .. IntModulus - 1
  BY <1>1, <1>3
<1>6. AsInt(n) \in Int
  BY <1>1, <1>5 DEF AsInt
<1> QED
  BY <1>3, <1>4, <1>6 DEF cost, AsUnsigned

LEMMA TypeAtStart == Init => TypeOK
<1> SUFFICES ASSUME Init PROVE TypeOK
  OBVIOUS
<1>1. LoadInv
  BY LoadInit
<1>2. \A s \in Sides, e \in Entries : counters[s][e] = Nothing
  BY DEF Init
<1>3. counters \in CounterType /\ ledger = counters
  BY NothingType DEF Init, CounterType
<1>4. reports \in [Sides -> [Entries -> Nat \cup {-1}]] /\ due = reports
  BY DEF Init, NoReport
<1>5. calls \in [Threads -> 0 .. MaxCalls]
  BY PosixFileSystemAssumption DEF Init
<1>6. requests = {} /\ flags \in Configurations
  BY DEF Init
<1> QED
  BY <1>1, <1>3, <1>4, <1>5, <1>6, GlobalsAre
     DEF TypeOK, LoadInv, CallsOK, LifeOK, CallType, CounterType, Counts

\* What is typed besides the calls in progress and the life of the globals.
LEMMA TypeParts ==
    TypeOK <=> /\ flags \in Configurations
               /\ stage \in {"loading", "main", "exiting", "exited", "crashed"}
               /\ alive \in 0 .. 4 /\ busy \in BOOLEAN /\ loaded \in BOOLEAN
               /\ at \in [Threads -> {"idle", "enforce", "libc", "account"}]
               /\ call \in [Threads -> CallType]
               /\ requests \subseteq [operation : Functions, size : Sizes \cup {0},
                                      cost : 0 .. SizeModulus - 1]
               /\ counters \in CounterType /\ ledger \in CounterType
               /\ reports \in [Sides -> [Entries -> Nat \cup {-1}]]
               /\ due \in [Sides -> [Entries -> Nat \cup {-1}]]
               /\ calls \in [Threads -> 0 .. MaxCalls]
BY GlobalsAre DEF TypeOK, CallType, CounterType, Counts

\* One call is added to an entry of the counters and to its function's in the ledger.
Counted(s, e, f, x, y) ==
    /\ counters' = [counters EXCEPT ![s][e] = Add(@, x)]
    /\ ledger' = [ledger EXCEPT ![s][f] = Add(@, y)]

LEMMA CountedIs ==
    ASSUME counters \in CounterType, ledger \in CounterType,
           NEW s \in Sides, NEW e \in Entries, NEW f \in Entries,
           NEW x \in Counts, NEW y \in Counts, Counted(s, e, f, x, y)
    PROVE  /\ counters' \in CounterType /\ ledger' \in CounterType
           /\ \A u \in Sides, d \in Entries, c \in Columns :
                /\ counters'[u][d][c] = IF u = s /\ d = e THEN counters[u][d][c] + x[c]
                                        ELSE counters[u][d][c]
                /\ ledger'[u][d][c] = IF u = s /\ d = f THEN ledger[u][d][c] + y[c]
                                      ELSE ledger[u][d][c]
<1>1. counters[s][e] \in Counts /\ ledger[s][f] \in Counts
  BY DEF CounterType
<1>2. /\ Add(counters[s][e], x) \in Counts
      /\ \A c \in Columns : Add(counters[s][e], x)[c] = counters[s][e][c] + x[c]
  BY <1>1, AddIs
<1>3. /\ Add(ledger[s][f], y) \in Counts
      /\ \A c \in Columns : Add(ledger[s][f], y)[c] = ledger[s][f][c] + y[c]
  BY <1>1, AddIs
<1>4. counters' \in CounterType /\ ledger' \in CounterType
  BY <1>2, <1>3 DEF CounterType, Counted
<1>5. \A u \in Sides, d \in Entries :
        /\ counters'[u][d] = IF u = s /\ d = e THEN Add(counters[s][e], x)
                             ELSE counters[u][d]
        /\ ledger'[u][d] = IF u = s /\ d = f THEN Add(ledger[s][f], y)
                           ELSE ledger[u][d]
  BY DEF CounterType, Counted
<1> QED
  BY <1>2, <1>3, <1>4, <1>5

--------------------------------------------------------------------------------
(* Every call is in the statistics once.                                   *)

Part64(table) == Part(table, "open64")
PartVariadic(table) == Part(table, "open64_variadic")

LEMMA TogetherIs ==
    ASSUME NEW T \in [Entries -> Counts], NEW U \in [Entries -> Counts]
    PROVE  Together(T) = Together(U)
            <=> \A c \in Columns : Part64(T)[c] + PartVariadic(T)[c]
                                    = Part64(U)[c] + PartVariadic(U)[c]
<1>1. ASSUME NEW V \in [Entries -> Counts], NEW e
      PROVE  Part(V, e) \in Counts
  BY NothingType DEF Part
<1>2. /\ Part64(T) \in Counts /\ PartVariadic(T) \in Counts
      /\ Part64(U) \in Counts /\ PartVariadic(U) \in Counts
  BY <1>1 DEF Part64, PartVariadic
<1>3. /\ Together(T) = [c \in Columns |-> Part64(T)[c] + PartVariadic(T)[c]]
      /\ Together(U) = [c \in Columns |-> Part64(U)[c] + PartVariadic(U)[c]]
  BY DEF Together, Add, Part64, PartVariadic
<1> QED
  BY <1>3

\* What may be counted in an entry for a call of a function: what happened; for
\* attributes that are passed the bytes may differ, and open64 stands for both its forms.
Justified(s, e, f, x, y) ==
    \/ e = f /\ x = y
    \/ e = "open64" /\ f = "open64_variadic" /\ x = y
    \/ /\ s = "passed" /\ e = f /\ Class(f) = "ext_attr_calls" /\ f \notin Shared
       /\ f \notin Unaccounted
       /\ \A c \in Columns \ {"byte"} : x[c] = y[c]

LEMMA CountedTogether ==
    ASSUME counters \in CounterType, ledger \in CounterType, CallsAccounted,
           NEW s \in Sides, NEW e \in Entries, NEW f \in Entries,
           NEW x \in Counts, NEW y \in Counts, Counted(s, e, f, x, y),
           Justified(s, e, f, x, y), NEW u \in Sides
    PROVE  Together(counters[u])' = Together(ledger[u])'
<1>1. /\ counters[u] \in [Entries -> Counts] /\ ledger[u] \in [Entries -> Counts]
      /\ counters'[u] \in [Entries -> Counts] /\ ledger'[u] \in [Entries -> Counts]
  BY CountedIs DEF CounterType
<1>2. \A c \in Columns : Part64(counters[u])[c] + PartVariadic(counters[u])[c]
                          = Part64(ledger[u])[c] + PartVariadic(ledger[u])[c]
  BY <1>1, TogetherIs DEF CallsAccounted
<1>3. ASSUME NEW c \in Columns
      PROVE  Part64(counters'[u])[c] + PartVariadic(counters'[u])[c]
                = Part64(ledger'[u])[c] + PartVariadic(ledger'[u])[c]
  <2>1. /\ x[c] \in Nat /\ y[c] \in Nat
        /\ \A d \in Entries : counters[u][d][c] \in Nat /\ ledger[u][d][c] \in Nat
    BY <1>1 DEF Counts
  <2>2. PICK n \in Nat, m \in Nat : n = x[c] /\ m = y[c]
    BY <2>1
  <2>3. \A d \in Entries :
            /\ counters'[u][d][c] = IF u = s /\ d = e THEN counters[u][d][c] + n
                                    ELSE counters[u][d][c]
            /\ ledger'[u][d][c] = IF u = s /\ d = f THEN ledger[u][d][c] + m
                                  ELSE ledger[u][d][c]
    BY <2>2, CountedIs
  <2>4. Nothing[c] \in Nat
    BY NothingType DEF Counts
  <2>5. /\ Part64(counters'[u])[c] = IF u = s /\ e = "open64" THEN Part64(counters[u])[c] + n
                                     ELSE Part64(counters[u])[c]
        /\ PartVariadic(counters'[u])[c]
                = IF u = s /\ e = "open64_variadic" THEN PartVariadic(counters[u])[c] + n
                  ELSE PartVariadic(counters[u])[c]
        /\ Part64(counters[u])[c] \in Nat /\ PartVariadic(counters[u])[c] \in Nat
    BY <2>1, <2>3, <2>4 DEF Part64, PartVariadic, Part
  <2>6. /\ Part64(ledger'[u])[c] = IF u = s /\ f = "open64" THEN Part64(ledger[u])[c] + m
                                   ELSE Part64(ledger[u])[c]
        /\ PartVariadic(ledger'[u])[c]
                = IF u = s /\ f = "open64_variadic" THEN PartVariadic(ledger[u])[c] + m
                  ELSE PartVariadic(ledger[u])[c]
        /\ Part64(ledger[u])[c] \in Nat /\ PartVariadic(ledger[u])[c] \in Nat
    BY <2>1, <2>3, <2>4 DEF Part64, PartVariadic, Part
  <2>7. CASE e \in Shared \/ f \in Shared
    <3>1. n = m /\ e \in Shared /\ f \in Shared
      BY <2>2, <2>7 DEF Justified, Shared
    <3> QED
      BY <1>2, <2>5, <2>6, <3>1 DEF Shared
  <2>8. CASE e \notin Shared /\ f \notin Shared
    BY <1>2, <2>5, <2>6, <2>8 DEF Shared
  <2> QED
    BY <2>7, <2>8
<1> QED
  BY <1>1, <1>3, TogetherIs

LEMMA CountedAgrees ==
    ASSUME counters \in CounterType, ledger \in CounterType, CallsAccounted,
           NEW s \in Sides, NEW e \in Entries, NEW f \in Entries,
           NEW x \in Counts, NEW y \in Counts, Counted(s, e, f, x, y),
           Justified(s, e, f, x, y)
    PROVE  CallsAccounted'
<1>1. ASSUME NEW u \in Sides, NEW d \in Entries \ Shared,
             NEW c \in Columns \ Omitted(u, d)
      PROVE  counters'[u][d][c] = ledger'[u][d][c]
  <2>1. counters[u][d][c] = ledger[u][d][c]
    BY DEF CallsAccounted, Agree
  <2>2. d = e <=> d = f
    BY DEF Justified, Shared
  <2>3. d = e /\ u = s => x[c] = y[c]
    <3>1. HAVE d = e /\ u = s
    <3>2. CASE x = y
      BY <3>2
    <3>3. CASE /\ s = "passed" /\ e = f /\ Class(f) = "ext_attr_calls"
               /\ f \notin Unaccounted
               /\ \A k \in Columns \ {"byte"} : x[k] = y[k]
      <4>1. "byte" \in Omitted(u, d)
        BY <3>1, <3>3 DEF Omitted, ExtAttrEntries, Columns
      <4> QED
        BY <3>3, <4>1
    <3> QED
      BY <3>2, <3>3 DEF Justified
  <2> QED
    BY <2>1, <2>2, <2>3, CountedIs
<1>2. ASSUME NEW u \in Sides
      PROVE  Together(counters'[u]) = Together(ledger'[u])
  BY CountedTogether
<1> QED
  BY <1>1, <1>2 DEF CallsAccounted, Agree, Omitted, Unaccounted, ExtAttrEntries, Shared,
     Together, Part

LEMMA RoutedArePassed == RoutedWrappers \subseteq PassedFunctions \ {"fcntl"}
BY DomainsAre
   DEF RoutedWrappers, PassedFunctions, Tables, DataWrappers, DataOperations, MapWrappers,
       OpenWrappers, OpenatWrappers, StatfsWrappers, NamespaceWrappers, StreamWrappers,
       DirectoryWrappers, GetxattrWrappers, SetxattrWrappers, ListxattrWrappers

\* sync is in the ledger and not in the counters of the passthrough.
LEMMA SyncIsLeftOut ==
    ASSUME counters \in CounterType, ledger \in CounterType, CallsAccounted,
           "sync" \in Entries, NEW y \in Counts,
           counters' = counters,
           ledger' = [ledger EXCEPT !["passed"]["sync"] = Add(@, y)]
    PROVE  ledger' \in CounterType /\ CallsAccounted'
<1>1. ledger["passed"]["sync"] \in Counts
  BY SidesAre DEF CounterType
<1>2. Add(ledger["passed"]["sync"], y) \in Counts
  BY <1>1, AddIs
<1>3. ledger' \in CounterType
  BY <1>2 DEF CounterType
<1>4. \A u \in Sides, d \in Entries :
        d # "sync" \/ u # "passed" => ledger'[u][d] = ledger[u][d]
  BY DEF CounterType
<1>5. ASSUME NEW u \in Sides
      PROVE  Together(counters'[u]) = Together(ledger'[u])
  <2>1. Part(ledger'[u], "open64") = Part(ledger[u], "open64")
    BY <1>4 DEF Part
  <2>2. Part(ledger'[u], "open64_variadic") = Part(ledger[u], "open64_variadic")
    BY <1>4 DEF Part
  <2> QED
    BY <2>1, <2>2 DEF CallsAccounted, Together
<1>6. ASSUME NEW u \in Sides, NEW d \in Entries \ Shared, NEW c \in Columns \ Omitted(u, d)
      PROVE  counters'[u][d][c] = ledger'[u][d][c]
  <2>1. ~(d = "sync" /\ u = "passed")
    <3>1. c \in Columns /\ c \notin Omitted(u, d)
      OBVIOUS
    <3> QED
      BY <3>1 DEF Omitted, Unaccounted
  <2>2. ledger'[u][d] = ledger[u][d]
    BY <1>4, <2>1
  <2> QED
    BY <2>2 DEF CallsAccounted, Agree
<1> QED
  BY <1>3, <1>5, <1>6
     DEF CallsAccounted, Agree, Omitted, Unaccounted, ExtAttrEntries, Shared,
     Together, Part

\* What a step may do to the counters and the ledger.
Accounted ==
    \/ UNCHANGED <<counters, ledger>>
    \/ \E s \in Sides, e \in Entries, f \in Entries, x \in Counts, y \in Counts :
            Counted(s, e, f, x, y) /\ Justified(s, e, f, x, y)
    \/ \E y \in Counts :
            /\ "sync" \in Entries /\ counters' = counters
            /\ ledger' = [ledger EXCEPT !["passed"]["sync"] = Add(@, y)]

LEMMA FinishPassedAccounts ==
    ASSUME AccountInv, NEW t \in Threads, FinishPassed(t)
    PROVE  Accounted
<1>1. PICK f, r : /\ f = call[t].function /\ r = call[t].result
                  /\ f \in Functions /\ r \in Results(f)
  BY DEF AccountInv, LoadInv, CallsOK, CallsAccountable, FinishPassed
<1>2. f \in PassedFunctions /\ f # "fcntl"
  BY <1>1, RoutedArePassed DEF AccountInv, CallsAccountable, FinishPassed
<1>3. f \in Entries /\ passed_entry(f) \in Entries
  BY <1>1, <1>2 DEF Entries
<1>4. PICK y \in Counts : y = Expected(f, r, FALSE)
  BY <1>1, ExpectedType DEF Counts
<1>5. PICK x \in Counts : x = passed_adds(f, r)
  BY <1>1, <1>2, PassedAddsExpected DEF Counts
<1>6. call[t].side = "passed"
  BY DEF FinishPassed
<1>7. CASE ~Collects("passed")
  BY <1>6, <1>7 DEF FinishPassed, AccountPassed, Note, Accounted
<1>8. CASE Collects("passed")
  <2>1. ledger' = [ledger EXCEPT !["passed"][f] = Add(@, y)]
    BY <1>1, <1>4, <1>6, <1>8 DEF FinishPassed, Note
  <2>2. CASE f = "sync"
    <3>1. counters' = counters
      BY <1>1, <2>2 DEF FinishPassed, AccountPassed, Unaccounted
    <3> QED
      BY <1>3, <2>1, <2>2, <3>1, SidesAre DEF Accounted
  <2>3. CASE f # "sync"
    <3>1. counters' = [counters EXCEPT !["passed"][passed_entry(f)] = Add(@, x)]
      BY <1>1, <1>5, <1>8, <2>3 DEF FinishPassed, AccountPassed, Unaccounted
    <3>2. Justified("passed", passed_entry(f), f, x, y)
      <4>1. CASE x = y
        BY <4>1 DEF Justified, passed_entry
      <4>2. CASE /\ Class(f) = "ext_attr_calls"
                 /\ \A c \in Columns \ {"byte"} : x[c] = y[c]
        <5>1. /\ Class("open64") # "ext_attr_calls" /\ Class("open64_variadic") # "ext_attr_calls"
              /\ Class("sync") # "ext_attr_calls"
          BY TableTests, DomainsAre DEF Has, Class
        <5> QED
          BY <4>2, <5>1 DEF Justified, passed_entry, Shared, Unaccounted
      <4> QED
        BY <1>1, <1>2, <1>4, <1>5, <4>1, <4>2, PassedAddsExpected
    <3>3. Counted("passed", passed_entry(f), f, x, y)
      BY <2>1, <3>1 DEF Counted
    <3> QED
      BY <1>3, <3>2, <3>3, SidesAre DEF Accounted
  <2> QED
    BY <2>2, <2>3
<1> QED
  BY <1>7, <1>8

LEMMA FinishHandledAccounts ==
    ASSUME AccountInv, NEW t \in Threads, FinishHandled(t)
    PROVE  Accounted
<1>1. PICK f, r, enforced :
        /\ f = call[t].function /\ r = call[t].result /\ enforced = call[t].enforced
        /\ f \in Functions /\ r \in Results(f) /\ enforced \in MayBeEnforced(f)
  BY DEF AccountInv, LoadInv, CallsOK, CallsAccountable, FinishHandled
<1>2. f \in AllFunctions /\ f \in Entries
  BY <1>1, PosixFileSystemAssumption DEF Entries
<1>3. PICK y \in Counts : y = Expected(f, r, ~enforced)
  BY <1>1, ExpectedType DEF Counts
<1>4. PICK x \in Counts : x = handled_adds(f, r, enforced)
  BY <1>1, <1>2, HandledAddsExpected DEF Counts
<1>5. call[t].side = "handled"
  BY DEF FinishHandled
<1>6. CASE ~Collects("handled")
  BY <1>5, <1>6 DEF FinishHandled, AccountHandled, Note, Accounted
<1>7. CASE Collects("handled")
  <2>1. ledger' = [ledger EXCEPT !["handled"][f] = Add(@, y)]
    BY <1>1, <1>3, <1>5, <1>7 DEF FinishHandled, Note
  <2>2. counters' = [counters EXCEPT !["handled"][f] = Add(@, x)]
    BY <1>1, <1>4, <1>7 DEF FinishHandled, AccountHandled
  <2>3. Counted("handled", f, f, x, y)
    BY <2>1, <2>2 DEF Counted
  <2>4. Justified("handled", f, f, x, y)
    BY <1>1, <1>2, <1>3, <1>4, HandledAddsExpected DEF Justified
  <2> QED
    BY <1>2, <2>3, <2>4, SidesAre DEF Accounted
<1> QED
  BY <1>6, <1>7

LEMMA AccountedKeeps ==
    ASSUME counters \in CounterType, ledger \in CounterType, CallsAccounted, Accounted
    PROVE  counters' \in CounterType /\ ledger' \in CounterType /\ CallsAccounted'
<1>1. CASE UNCHANGED <<counters, ledger>>
  BY <1>1 DEF CallsAccounted, Agree, Omitted, Unaccounted, Together, Part,
     ExtAttrEntries, Shared
<1>2. CASE \E s \in Sides, e \in Entries, f \in Entries, x \in Counts, y \in Counts :
            Counted(s, e, f, x, y) /\ Justified(s, e, f, x, y)
  BY <1>2, CountedIs, CountedAgrees
<1>3. CASE \E y \in Counts :
            /\ "sync" \in Entries /\ counters' = counters
            /\ ledger' = [ledger EXCEPT !["passed"]["sync"] = Add(@, y)]
  BY <1>3, SyncIsLeftOut
<1> QED
  BY <1>1, <1>2, <1>3 DEF Accounted

ReportType == [Sides -> [Entries -> Nat \cup {-1}]]
RequestType == [operation : Functions, size : Sizes \cup {0}, cost : 0 .. SizeModulus - 1]

LEMMA TypeFrom ==
    ASSUME TypeOK, LoadInv', flags' = flags, requests' \subseteq RequestType,
           counters' \in CounterType, ledger' \in CounterType,
           reports' \in ReportType, due' \in ReportType,
           calls' \in [Threads -> 0 .. MaxCalls]
    PROVE  TypeOK'
BY GlobalsAre DEF TypeOK, LoadInv, CallsOK, LifeOK, CallType, CounterType, Counts,
   ReportType, RequestType

LEMMA TypeNow ==
    ASSUME TypeOK
    PROVE  /\ requests \subseteq RequestType
           /\ counters \in CounterType /\ ledger \in CounterType
           /\ reports \in ReportType /\ due \in ReportType
           /\ calls \in [Threads -> 0 .. MaxCalls]
BY DEF TypeOK, CounterType, Counts, ReportType, RequestType

LEMMA OperationsAre ==
    ASSUME counters \in CounterType, NEW s \in Sides
    PROVE  /\ Operations(s) \in [Entries -> Nat]
           /\ \A e \in Entries : Operations(s)[e] = counters[s][e]["operation"]
                                                    + counters[s][e]["bypass"]
BY DEF Operations, CounterType, Counts, Columns

LEMMA AccountRoute ==
    ASSUME AccountInv, NEW t \in Threads, NEW f \in Callers[t], Route(t, f)
    PROVE  AccountInv'
<1>1. LoadInv'
  BY RouteKeepsLoad DEF AccountInv
<1>2. TypeOK /\ UNCHANGED <<flags, requests, counters, ledger, reports, due>>
  BY DEF AccountInv, Route, lifeVars, historyVars
<1>3. calls' \in [Threads -> 0 .. MaxCalls]
  BY <1>2, TypeNow, PosixFileSystemAssumption DEF Route
<1>4. TypeOK'
  BY <1>1, <1>2, <1>3, TypeNow, TypeFrom
<1>5. PICK side \in Routes(f), size \in SizesOf(f) :
        /\ call' = [call EXCEPT ![t] = Call(f, side, size)]
        /\ at' = [at EXCEPT ![t] = IF side = "handled" THEN "enforce" ELSE "libc"]
  BY DEF Route
<1>6. side \in Sides /\ (side = "passed" => f \in RoutedWrappers)
  BY DEF Routes, Sides
<1>7. /\ call'[t].function = f /\ call'[t].side = side
      /\ at'[t] = IF side = "handled" THEN "enforce" ELSE "libc"
      /\ \A u \in Threads \ {t} : call'[u] = call[u] /\ at'[u] = at[u]
  BY <1>5 DEF AccountInv, LoadInv, CallsOK, Call
<1>8. CallsAccountable'
  BY <1>6, <1>7 DEF AccountInv, CallsAccountable, Sides
<1>9. CallsAccounted'
  BY <1>2, TypeNow, AccountedKeeps DEF AccountInv, Accounted
<1> QED
  BY <1>1, <1>4, <1>8, <1>9 DEF AccountInv

LEMMA AccountEnforce ==
    ASSUME AccountInv, NEW t \in Threads, Enforce(t)
    PROVE  AccountInv'
<1>1. LoadInv'
  BY CallKeepsLoad DEF AccountInv
<1>2. TypeOK /\ UNCHANGED <<flags, counters, ledger, reports, due, calls>>
  BY DEF AccountInv, Enforce, lifeVars, historyVars
<1>f. PICK f \in Functions : f = call[t].function
  BY DEF Enforce, AccountInv, LoadInv, CallsOK
<1>3. PICK b \in MayBeEnforced(f) :
        /\ call' = [call EXCEPT ![t].enforced = b]
        /\ requests' = IF b THEN requests \cup {[operation |-> f, size |-> call[t].size,
                                                 cost |-> cost(f, call[t].size)]}
                       ELSE requests
  BY <1>f DEF Enforce
<1>4. call[t] \in CallType
  BY DEF AccountInv, LoadInv, CallsOK
<1>5. call[t].size \in Sizes \cup {0}
  BY <1>4 DEF CallType
<1>6. [operation |-> f, size |-> call[t].size, cost |-> cost(f, call[t].size)]
        \in RequestType
  BY <1>5, CostIs DEF RequestType
<1>7. requests' \subseteq RequestType
  BY <1>2, <1>3, <1>6, TypeNow
<1>8. TypeOK'
  BY <1>1, <1>2, <1>7, TypeNow, TypeFrom
<1>9. /\ call'[t].function = f /\ call'[t].side = call[t].side /\ call'[t].enforced = b
      /\ at[t] = "enforce" /\ at'[t] = "libc"
      /\ \A u \in Threads \ {t} : call'[u] = call[u] /\ at'[u] = at[u]
  BY <1>f, <1>3, <1>4 DEF Enforce, AccountInv, LoadInv, CallsOK, CallType
<1>10. CallsAccountable'
  BY <1>3, <1>9 DEF AccountInv, CallsAccountable
<1>11. CallsAccounted'
  BY <1>2, TypeNow, AccountedKeeps DEF AccountInv, Accounted
<1> QED
  BY <1>1, <1>8, <1>10, <1>11 DEF AccountInv

LEMMA AccountLibc ==
    ASSUME AccountInv, NEW t \in Threads, Libc(t)
    PROVE  AccountInv'
<1>1. LoadInv'
  BY CallKeepsLoad DEF AccountInv
<1>2. TypeOK /\ UNCHANGED <<flags, requests, counters, ledger, reports, due, calls>>
  BY DEF AccountInv, Libc, lifeVars, historyVars
<1>3. TypeOK'
  BY <1>1, <1>2, TypeNow, TypeFrom
<1>4. PICK r \in Results(call[t].function) : call' = [call EXCEPT ![t].result = r]
  BY DEF Libc
<1>5. call[t] \in CallType
  BY DEF AccountInv, LoadInv, CallsOK
<1>6. /\ call'[t].function = call[t].function /\ call'[t].side = call[t].side
      /\ call'[t].enforced = call[t].enforced /\ call'[t].result = r
      /\ at[t] = "libc" /\ at'[t] = "account"
      /\ \A u \in Threads \ {t} : call'[u] = call[u] /\ at'[u] = at[u]
  BY <1>4, <1>5 DEF Libc, AccountInv, LoadInv, CallsOK, CallType
<1>7. CallsAccountable'
  BY <1>6 DEF AccountInv, CallsAccountable
<1>8. CallsAccounted'
  BY <1>2, TypeNow, AccountedKeeps DEF AccountInv, Accounted
<1> QED
  BY <1>1, <1>3, <1>7, <1>8 DEF AccountInv

LEMMA AccountFinish ==
    ASSUME AccountInv, NEW t \in Threads, FinishPassed(t) \/ FinishHandled(t)
    PROVE  AccountInv'
<1>1. LoadInv'
  BY CallKeepsLoad DEF AccountInv
<1>2. TypeOK /\ UNCHANGED <<flags, requests, reports, due, calls>>
  BY DEF AccountInv, FinishPassed, FinishHandled, Return, lifeVars, historyVars
<1>3. counters' \in CounterType /\ ledger' \in CounterType /\ CallsAccounted'
  BY <1>2, FinishPassedAccounts, FinishHandledAccounts, TypeNow, AccountedKeeps
     DEF AccountInv
<1>4. TypeOK'
  BY <1>1, <1>2, <1>3, TypeNow, TypeFrom
<1>5. /\ at'[t] = "idle"
      /\ \A u \in Threads \ {t} : call'[u] = call[u] /\ at'[u] = at[u]
  BY DEF FinishPassed, FinishHandled, Return, AccountInv, LoadInv, CallsOK
<1>6. CallsAccountable'
  BY <1>5 DEF AccountInv, CallsAccountable
<1> QED
  BY <1>1, <1>3, <1>4, <1>6 DEF AccountInv

LEMMA AccountLife ==
    ASSUME AccountInv, Life
    PROVE  AccountInv'
<1>1. LoadInv'
  BY LifeKeepsLoad DEF AccountInv
<1>2. TypeOK /\ UNCHANGED <<flags, at, call, requests, counters, ledger, calls>>
  BY DEF AccountInv, Life, BeginConstruction, EndConstruction, Exit, BeginDestruction,
     EndDestruction, historyVars
<1>3. /\ Operations("handled") \in [Entries -> Nat \cup {-1}]
      /\ Operations("passed") \in [Entries -> Nat \cup {-1}]
  BY <1>2, TypeNow, SidesAre, OperationsAre
<1>4. reports \in ReportType /\ due \in ReportType
  BY <1>2, TypeNow
<1>5. reports' \in ReportType /\ due' \in ReportType
  <2>1. \A r \in ReportType, o \in [Entries -> Nat \cup {-1}] :
            /\ [r EXCEPT !["handled"] = o] \in ReportType
            /\ [r EXCEPT !["passed"] = o] \in ReportType
    BY SidesAre DEF ReportType
  <2>2. CASE BeginConstruction \/ EndConstruction
    BY <1>4, <2>2 DEF BeginConstruction, EndConstruction, historyVars
  <2>3. CASE Exit
    BY <1>3, <1>4, <2>1, <2>3 DEF Exit
  <2>4. CASE BeginDestruction
    BY <1>3, <1>4, <2>1, <2>4 DEF BeginDestruction
  <2>5. CASE EndDestruction
    BY <1>3, <1>4, <2>1, <2>5 DEF EndDestruction
  <2> QED
    BY <2>2, <2>3, <2>4, <2>5 DEF Life
<1>6. TypeOK'
  BY <1>1, <1>2, <1>5, TypeNow, TypeFrom
<1>7. CallsAccountable'
  BY <1>2 DEF AccountInv, CallsAccountable
<1>8. CallsAccounted'
  BY <1>2, TypeNow, AccountedKeeps DEF AccountInv, Accounted
<1> QED
  BY <1>1, <1>6, <1>7, <1>8 DEF AccountInv

LEMMA AccountInit == Init => AccountInv
<1> SUFFICES ASSUME Init PROVE AccountInv
  OBVIOUS
<1>1. LoadInv /\ TypeOK
  BY LoadInit, TypeAtStart
<1>2. CallsAccountable
  BY DEF Init, CallsAccountable
<1>3. counters = ledger
  BY DEF Init
<1>4. CallsAccounted
  BY <1>3 DEF CallsAccounted, Agree
<1> QED
  BY <1>1, <1>2, <1>4 DEF AccountInv

LEMMA AccountNext == AccountInv /\ [Next]_vars => AccountInv'
<1> SUFFICES ASSUME AccountInv, [Next]_vars PROVE AccountInv'
  OBVIOUS
<1>1. CASE UNCHANGED <<at, call, requests, counters, reports, ledger, due, calls, flags>>
  <2>1. LoadInv'
    BY LoadNext DEF AccountInv
  <2>2. TypeOK'
    BY <1>1, <2>1, TypeNow, TypeFrom DEF AccountInv
  <2>3. CallsAccountable'
    BY <1>1 DEF AccountInv, CallsAccountable
  <2>4. CallsAccounted'
    BY <1>1, TypeNow, AccountedKeeps DEF AccountInv, Accounted
  <2> QED
    BY <2>1, <2>2, <2>3, <2>4 DEF AccountInv
<1>2. ASSUME NEW t \in Threads, NEW f \in Callers[t], RouteCrashes(t, f)
      PROVE  AccountInv'
  BY <1>1, <1>2 DEF RouteCrashes, historyVars
<1>3. CASE UNCHANGED vars
  BY <1>1, <1>3 DEF vars
<1> QED
  BY <1>2, <1>3, AccountRoute, AccountEnforce, AccountLibc, AccountFinish, AccountLife
     DEF Next

--------------------------------------------------------------------------------
(* The reports miss no call that was in time.                              *)

LEMMA CountersGrow ==
    ASSUME counters \in CounterType, ledger \in CounterType, CallsAccounted, Accounted,
           NEW s \in Sides, NEW e \in Entries
    PROVE  Operations(s)[e] <= Operations(s)'[e]
<1>1. counters' \in CounterType
  BY AccountedKeeps
<1>2. /\ counters[s][e]["operation"] \in Nat /\ counters[s][e]["bypass"] \in Nat
      /\ counters'[s][e]["operation"] \in Nat /\ counters'[s][e]["bypass"] \in Nat
  BY <1>1 DEF CounterType, Counts, Columns
<1>3. /\ Operations(s)[e] = counters[s][e]["operation"] + counters[s][e]["bypass"]
      /\ Operations(s)'[e] = counters'[s][e]["operation"] + counters'[s][e]["bypass"]
  BY DEF Operations
<1>4. \A c \in {"operation", "bypass"} : counters[s][e][c] <= counters'[s][e][c]
  <2>1. CASE counters' = counters
    BY <1>2, <2>1
  <2>2. ASSUME NEW u \in Sides, NEW d \in Entries, NEW f \in Entries,
               NEW x \in Counts, NEW y \in Counts, Counted(u, d, f, x, y)
        PROVE  \A c \in {"operation", "bypass"} : counters[s][e][c] <= counters'[s][e][c]
    <3>1. \A c \in Columns : counters'[s][e][c] = IF s = u /\ e = d
                                                  THEN counters[s][e][c] + x[c]
                                                  ELSE counters[s][e][c]
      BY <2>2, CountedIs
    <3>2. x["operation"] \in Nat /\ x["bypass"] \in Nat
      BY DEF Counts, Columns
    <3> QED
      BY <1>2, <3>1, <3>2 DEF Columns
  <2> QED
    BY <2>1, <2>2 DEF Accounted
<1> QED
  BY <1>2, <1>3, <1>4

\* What a step does to a snapshot of the operations of one side.
LEMMA DueGrows ==
    ASSUME AccountInv, Accounted, NEW s \in Sides, NEW e \in Entries,
           NEW n \in Nat \cup {-1}, n <= Operations(s)[e]
    PROVE  n <= Operations(s)'[e]
<1>1. Operations(s)[e] \in Nat
  BY TypeNow, OperationsAre DEF AccountInv
<1>2. counters' \in CounterType
  BY TypeNow, AccountedKeeps DEF AccountInv
<1>3. Operations(s)'[e] \in Nat
  BY <1>2 DEF Operations, CounterType, Counts, Columns
<1>4. Operations(s)[e] <= Operations(s)'[e]
  BY TypeNow, CountersGrow DEF AccountInv
<1> QED
  BY <1>1, <1>3, <1>4

LEMMA ReportsInit == Init => ReportsInv
<1> SUFFICES ASSUME Init PROVE ReportsInv
  OBVIOUS
<1>1. AccountInv
  BY AccountInit
<1>2. \A e \in Entries, s \in Sides : due[s][e] = -1 /\ Operations(s)[e] \in Nat
  BY <1>1, TypeNow, OperationsAre DEF AccountInv, Init, NoReport
<1>3. stage = "loading"
  BY DEF Init
<1>4. DueCounted
  BY <1>2, <1>3, SidesAre DEF DueCounted, HandledReported, PassedReported
<1> QED
  BY <1>1, <1>3, <1>4 DEF ReportsInv

\* A step of a call leaves the reports as they are.
LEMMA ReportsCall ==
    ASSUME ReportsInv, AccountInv', Accounted,
           UNCHANGED <<stage, alive, busy, reports, due>>
    PROVE  ReportsInv'
<1>1. \A e \in Entries, s \in Sides : due[s][e] \in Nat \cup {-1}
  BY TypeNow DEF ReportsInv, AccountInv, ReportType
<1>2. ASSUME NEW e \in Entries
      PROVE  /\ due["handled"][e] <= Operations("handled")'[e]
             /\ due["passed"][e] <= Operations("passed")'[e]
  BY <1>1, SidesAre, DueGrows DEF ReportsInv, DueCounted
<1> QED
  BY <1>2 DEF ReportsInv, DueCounted, HandledReported, PassedReported

LEMMA ReportsLife ==
    ASSUME ReportsInv, AccountInv', Life
    PROVE  ReportsInv'
<1>1. /\ counters' = counters
      /\ Operations("handled")' = Operations("handled")
      /\ Operations("passed")' = Operations("passed")
  BY DEF Life, BeginConstruction, EndConstruction, Exit, BeginDestruction,
     EndDestruction, Operations
<1>2. /\ Operations("handled") \in [Entries -> Nat]
      /\ Operations("passed") \in [Entries -> Nat]
  BY TypeNow, SidesAre, OperationsAre DEF ReportsInv, AccountInv
<1>3. reports \in ReportType /\ due \in ReportType
  BY TypeNow DEF ReportsInv, AccountInv
<1>4. alive \in 0 .. 4 /\ busy \in BOOLEAN
  BY DEF ReportsInv, AccountInv, LoadInv, LifeOK
<1>5. /\ stage = "loading" => alive < 4
      /\ stage = "main" => alive = 4 /\ ~busy
      /\ stage = "exiting" => alive > 0
  BY DEF ReportsInv, AccountInv, LoadInv, LifeOK
<1>6. CASE BeginConstruction
  BY <1>1, <1>6 DEF BeginConstruction, Lives, ReportsInv, DueCounted, HandledReported,
     PassedReported, historyVars
<1>7. CASE EndConstruction
  <2>1. stage = "loading" /\ stage' \in {"loading", "main"} /\ ~busy'
    BY <1>7 DEF EndConstruction, Lives
  <2> QED
    BY <1>1, <1>7, <2>1 DEF EndConstruction, ReportsInv, DueCounted, HandledReported,
       PassedReported, historyVars
<1>8. CASE Exit
  <2>1. /\ stage = "main" /\ stage' = "exiting" /\ alive' = 4 /\ ~busy'
        /\ due' = [due EXCEPT !["handled"] = Operations("handled")]
    BY <1>5, <1>8 DEF Exit, Lives
  <2>2. due'["handled"] = Operations("handled") /\ due'["passed"] = due["passed"]
    BY <1>3, <2>1, SidesAre DEF ReportType
  <2> QED
    BY <1>1, <1>2, <2>1, <2>2 DEF ReportsInv, DueCounted, HandledReported,
       PassedReported
<1>9. CASE BeginDestruction
  <2>1. stage = "exiting" /\ stage' = "exiting" /\ alive' = alive /\ ~busy /\ busy'
        /\ due' = due /\ alive \in 1 .. 4
    BY <1>4, <1>9 DEF BeginDestruction, Lives
  <2>2. alive = 4 => /\ reports'["handled"] = Operations("handled")
                     /\ reports'["passed"] = reports["passed"]
    <3>1. ASSUME alive = 4
          PROVE  reports' = [reports EXCEPT !["handled"] = Operations("handled")]
      <4>1. Globals[alive] = "m_ld_preloaded_posix"
        BY <3>1, GlobalsAre
      <4>2. Globals[alive] # "m_posix_passthrough"
        BY <3>1, GlobalsAre
      <4> QED
        BY <1>9, <4>1, <4>2 DEF BeginDestruction
    <3> QED
      BY <1>3, <3>1, SidesAre DEF ReportType
  <2>3. alive = 2 => /\ reports'["passed"] = Operations("passed")
                     /\ reports'["handled"] = reports["handled"]
    <3>1. ASSUME alive = 2
          PROVE  reports' = [reports EXCEPT !["passed"] = Operations("passed")]
      <4>1. Globals[alive] = "m_posix_passthrough"
        BY <3>1, GlobalsAre
      <4>2. Globals[alive] # "m_ld_preloaded_posix"
        BY <3>1, GlobalsAre
      <4> QED
        BY <1>9, <4>1, <4>2 DEF BeginDestruction
    <3> QED
      BY <1>3, <3>1, SidesAre DEF ReportType
  <2>4. alive \notin {2, 4} => reports' = reports
    <3>1. ASSUME alive \notin {2, 4}
          PROVE  Globals[alive] \notin {"m_posix_passthrough", "m_ld_preloaded_posix"}
      BY <2>1, <3>1, GlobalsAre
    <3> QED
      BY <1>9, <3>1 DEF BeginDestruction
  <2>5. ASSUME NEW e \in Entries
        PROVE  /\ HandledReported' => reports'["handled"][e] >= due["handled"][e]
               /\ PassedReported' => reports'["passed"][e] >= due["passed"][e]
    <3>1. /\ due["handled"][e] <= Operations("handled")[e]
          /\ due["passed"][e] <= Operations("passed")[e]
          /\ HandledReported => reports["handled"][e] >= due["handled"][e]
          /\ PassedReported => reports["passed"][e] >= due["passed"][e]
      BY DEF ReportsInv, DueCounted
    <3>2. /\ due["handled"][e] \in Int /\ due["passed"][e] \in Int
          /\ Operations("handled")[e] \in Int /\ Operations("passed")[e] \in Int
      BY <1>2, <1>3, SidesAre DEF ReportType
    <3>3. CASE alive = 4
      BY <2>1, <2>2, <3>1, <3>2, <3>3 DEF HandledReported, PassedReported
    <3>4. CASE alive = 3
      BY <2>1, <2>4, <3>1, <3>4 DEF HandledReported, PassedReported
    <3>5. CASE alive = 2
      BY <2>1, <2>3, <3>1, <3>2, <3>5 DEF HandledReported, PassedReported
    <3>6. CASE alive = 1
      BY <2>1, <2>4, <3>1, <3>6 DEF HandledReported, PassedReported
    <3> QED
      BY <2>1, <3>3, <3>4, <3>5, <3>6
  <2> QED
    BY <1>1, <2>1, <2>5 DEF ReportsInv, DueCounted
<1>10. CASE EndDestruction
  <2>1. /\ stage = "exiting" /\ stage' \in {"exiting", "exited"} /\ busy /\ ~busy'
        /\ alive' = alive - 1 /\ reports' = reports /\ alive \in 1 .. 4
        /\ stage' = "exited" => alive = 1
    BY <1>4, <1>5, <1>10 DEF EndDestruction, Lives
  <2>2. alive = 4 => /\ due'["passed"] = Operations("passed")
                     /\ due'["handled"] = due["handled"]
    BY <1>3, <1>10, SidesAre, GlobalsAre DEF EndDestruction, ReportType
  <2>3. alive # 4 => due' = due
    BY <1>10, <2>1, GlobalsAre DEF EndDestruction
  <2>4. HandledReported /\ (PassedReported' => PassedReported /\ alive # 4)
    BY <2>1 DEF HandledReported, PassedReported
  <2>5. ASSUME NEW e \in Entries
        PROVE  /\ due'["handled"][e] <= Operations("handled")[e]
               /\ due'["passed"][e] <= Operations("passed")[e]
               /\ HandledReported' => reports'["handled"][e] >= due'["handled"][e]
               /\ PassedReported' => reports'["passed"][e] >= due'["passed"][e]
    <3>1. /\ due["handled"][e] <= Operations("handled")[e]
          /\ due["passed"][e] <= Operations("passed")[e]
          /\ reports["handled"][e] >= due["handled"][e]
          /\ PassedReported => reports["passed"][e] >= due["passed"][e]
      BY <2>4 DEF ReportsInv, DueCounted
    <3>2. Operations("passed")[e] <= Operations("passed")[e]
      BY <1>2
    <3>3. CASE alive = 4
      BY <2>1, <2>2, <2>4, <3>1, <3>2, <3>3
    <3>4. CASE alive # 4
      BY <2>1, <2>3, <2>4, <3>1, <3>4
    <3> QED
      BY <3>3, <3>4
  <2> QED
    BY <1>1, <2>1, <2>5 DEF ReportsInv, DueCounted
<1> QED
  BY <1>6, <1>7, <1>8, <1>9, <1>10 DEF Life

LEMMA ReportsNext == ReportsInv /\ [Next]_vars => ReportsInv'
<1> SUFFICES ASSUME ReportsInv, [Next]_vars PROVE ReportsInv'
  OBVIOUS
<1>1. AccountInv /\ AccountInv'
  BY AccountNext DEF ReportsInv
<1>2. CASE Life
  BY <1>1, <1>2, ReportsLife
<1>3. ASSUME NEW t \in Threads,
             \/ \E f \in Callers[t] : Route(t, f)
             \/ Enforce(t) \/ Libc(t)
      PROVE  ReportsInv'
  <2>1. UNCHANGED <<stage, alive, busy, reports, due, counters, ledger>>
    BY <1>3 DEF Route, Enforce, Libc, lifeVars, historyVars
  <2> QED
    BY <1>1, <2>1, ReportsCall DEF Accounted
<1>4. ASSUME NEW t \in Threads, FinishPassed(t) \/ FinishHandled(t)
      PROVE  ReportsInv'
  <2>1. UNCHANGED <<stage, alive, busy, reports, due>>
    BY <1>4 DEF FinishPassed, FinishHandled, Return, lifeVars, historyVars
  <2>2. Accounted
    BY <1>1, <1>4, FinishPassedAccounts, FinishHandledAccounts
  <2> QED
    BY <1>1, <2>1, <2>2, ReportsCall
<1>5. ASSUME NEW t \in Threads, NEW f \in Callers[t], RouteCrashes(t, f)
      PROVE  ReportsInv'
  BY <1>1, <1>5 DEF RouteCrashes, ReportsInv, DueCounted, HandledReported,
     PassedReported, Operations, historyVars
<1>6. CASE UNCHANGED vars
  <2>1. UNCHANGED <<stage, alive, busy, reports, due, counters, ledger>>
    BY <1>6 DEF vars
  <2> QED
    BY <1>1, <2>1, ReportsCall DEF Accounted
<1> QED
  BY <1>2, <1>3, <1>4, <1>5, <1>6 DEF Next

--------------------------------------------------------------------------------
(* The conversions of a payload.                                           *)

\* A request costs its size if an int can hold the size, or if the size is so large
\* that cutting it off and extending the sign gives it back; otherwise it does not.
CostsKnown ==
    \A r \in requests :
        IF r.operation \in DataOperations
        THEN (r.cost = r.size) <=> \/ r.size <= MaxInt
                                   \/ r.size >= SizeModulus - IntModulus \div 2
        ELSE r.cost = 1

LEMMA Remainder ==
    ASSUME NEW M \in Nat, M > 0, NEW q \in Int, NEW r \in 0 .. M - 1
    PROVE  (M * q + r) % M = r
BY SMTT(30)

LEMMA NegativeRemainder ==
    ASSUME NEW M \in Nat, M > 0, NEW d \in 1 .. M
    PROVE  (-d) % M = M - d
BY SMTT(30)

LEMMA Halves ==
    /\ MaxInt \in Nat /\ IntModulus = 2 * MaxInt + 2 /\ IntModulus \div 2 = MaxInt + 1
    /\ IntModulus <= SizeModulus /\ SizeModulus \in Nat /\ MaxInt >= 1
BY DataPlaneStageAssumption DEF MaxInt

\* What is left of a size in an int, and what the int becomes.
LEMMA Conversions ==
    ASSUME NEW n \in 0 .. SizeModulus - 1
    PROVE  /\ AsInt(n) \in -(MaxInt + 1) .. MaxInt
           /\ n <= MaxInt => AsInt(n) = n
           /\ n >= SizeModulus - (MaxInt + 1) => AsInt(n) = n - SizeModulus
<1>1. /\ MaxInt \in Nat /\ IntModulus = 2 * MaxInt + 2 /\ MaxInt >= 1
      /\ IntModulus <= SizeModulus /\ SizeModulus \in Nat
  BY Halves
<1>2. PICK low \in 0 .. IntModulus - 1 : low = n % IntModulus
  BY <1>1
<1>3. AsInt(n) = IF low > MaxInt THEN low - IntModulus ELSE low
  BY <1>2 DEF AsInt
<1>4. n <= MaxInt => low = n
  BY <1>1, <1>2, SmallModulo
<1>5. ASSUME n >= SizeModulus - (MaxInt + 1)
      PROVE  low = n - SizeModulus + IntModulus
  <2>1. PICK q \in Int : SizeModulus = IntModulus * q
    <3>1. IntModulus \in Nat /\ IntModulus > 0 /\ SizeModulus % IntModulus = 0
      BY <1>1, DataPlaneStageAssumption
    <3>2. \A M \in Nat, S \in Nat : M > 0 /\ S % M = 0 => S = M * (S \div M)
      BY SMTT(30)
    <3>3. SizeModulus \div IntModulus \in Int
      BY <1>1, <3>1
    <3> QED
      BY <1>1, <3>1, <3>2, <3>3
  <2>2. PICK r \in 0 .. IntModulus - 1 : r = n - SizeModulus + IntModulus
    BY <1>1, <1>5
  <2>3. IntModulus * (q - 1) = SizeModulus - IntModulus
    BY <1>1, <2>1
  <2>4. n = IntModulus * (q - 1) + r
    BY <1>1, <2>2, <2>3
  <2>5. (IntModulus * (q - 1) + r) % IntModulus = r
    BY <1>1, <2>1, Remainder
  <2> QED
    BY <1>2, <2>2, <2>4, <2>5
<1> QED
  BY <1>1, <1>3, <1>4, <1>5

LEMMA DataCosts ==
    ASSUME NEW f \in DataOperations, NEW n \in 0 .. SizeModulus - 1
    PROVE  (cost(f, n) = n) <=> \/ n <= MaxInt
                                \/ n >= SizeModulus - IntModulus \div 2
<1>1. /\ MaxInt \in Nat /\ IntModulus = 2 * MaxInt + 2 /\ IntModulus \div 2 = MaxInt + 1
      /\ IntModulus <= SizeModulus /\ SizeModulus \in Nat
  BY Halves
<1>2. PICK m \in -(MaxInt + 1) .. MaxInt : m = AsInt(n)
  BY Conversions
<1>3. cost(f, n) = m % SizeModulus
  BY <1>2 DEF cost, payload, AsUnsigned
<1>4. m >= 0 => m % SizeModulus = m
  BY <1>1, SmallModulo
<1>5. ASSUME m < 0
      PROVE  m % SizeModulus = SizeModulus + m
  <2>1. PICK d \in 1 .. SizeModulus : d = -m
    BY <1>1, <1>5
  <2>2. SizeModulus \in Nat /\ SizeModulus > 0
    BY <1>1
  <2>3. (-d) % SizeModulus = SizeModulus - d
    BY <2>2, NegativeRemainder, Zenon
  <2>4. -d = m
    BY <2>1
  <2> QED
    BY <1>1, <2>1, <2>3, <2>4
<1>6. /\ n <= MaxInt => m = n
      /\ n >= SizeModulus - (MaxInt + 1) => m = n - SizeModulus
  BY <1>2, Conversions
<1> QED
  BY <1>1, <1>3, <1>4, <1>5, <1>6

LEMMA OtherCosts ==
    ASSUME NEW f, f \notin DataOperations, NEW n
    PROVE  cost(f, n) = 1
<1>1. /\ MaxInt >= 1 /\ SizeModulus \in Nat /\ SizeModulus >= 2
      /\ 1 \in 0 .. SizeModulus - 1
  BY Halves
<1>2. AsInt(1) = 1
  BY <1>1, Conversions
<1>3. 1 % SizeModulus = 1
  BY <1>1, SmallModulo
<1> QED
  BY <1>2, <1>3 DEF cost, payload, AsUnsigned

LEMMA CostNext ==
    ASSUME AccountInv, CostsKnown, [Next]_vars
    PROVE  CostsKnown'
<1>1. CASE UNCHANGED requests
  BY <1>1 DEF CostsKnown
<1>2. ASSUME NEW t \in Threads, Enforce(t)
      PROVE  CostsKnown'
  <2>1. PICK f, n, e :
          /\ f = call[t].function /\ n = call[t].size /\ n \in 0 .. SizeModulus - 1
          /\ requests' = IF e THEN requests \cup {[operation |-> f, size |-> n,
                                                   cost |-> cost(f, n)]}
                         ELSE requests
    <3>1. call[t].size \in Sizes \cup {0}
      BY <1>2 DEF AccountInv, LoadInv, CallsOK, CallType
    <3>2. call[t].size \in 0 .. SizeModulus - 1
      <4>1. 0 \in 0 .. SizeModulus - 1
        BY DataPlaneStageAssumption
      <4>2. Sizes \subseteq 0 .. SizeModulus - 1
        BY PosixFileSystemAssumption
      <4> QED
        BY <3>1, <4>1, <4>2
    <3> QED
      BY <1>2, <3>2 DEF Enforce
  <2>2. /\ f \in DataOperations =>
              ((cost(f, n) = n) <=> \/ n <= MaxInt
                                    \/ n >= SizeModulus - IntModulus \div 2)
        /\ f \notin DataOperations => cost(f, n) = 1
    BY <2>1, DataCosts, OtherCosts
  <2>3. ASSUME NEW r \in requests'
        PROVE  r \in requests
                    \/ r = [operation |-> f, size |-> n, cost |-> cost(f, n)]
    BY <2>1
  <2> QED
    BY <2>2, <2>3 DEF CostsKnown
<1>3. CASE \A t \in Threads : ~Enforce(t)
  BY <1>1, <1>3 DEF Next, Life, BeginConstruction, EndConstruction, Exit,
     BeginDestruction, EndDestruction, Route, RouteCrashes, Libc, FinishPassed,
     FinishHandled, Return, vars
<1> QED
  BY <1>2, <1>3

--------------------------------------------------------------------------------
(* The theorems.                                                           *)

\* However many threads call functions while the library is being loaded: a
\* wrapper that asks m_ldp_loaded runs no handler before the constructor is done.
THEOREM HandlersAfterConstructionCorrect == Spec => []HandlersAfterConstruction
<1>1. Spec => []LoadInv
  BY LoadInit, LoadNext, PTL DEF Spec
<1>2. LoadInv => HandlersAfterConstruction
  BY DEF LoadInv, LifeOK, HandlersAfterConstruction
<1> QED
  BY <1>1, <1>2, PTL

\* AccountInv is an inductive invariant, and with it the type of every variable.
THEOREM AccountInvCorrect == Spec => []AccountInv
BY AccountInit, AccountNext, PTL DEF Spec

\* Every variable keeps its type; the counters, the reports and the costs of the
\* requests among them.
THEOREM TypeOKCorrect == Spec => []TypeOK
<1>1. AccountInv => TypeOK
  BY DEF AccountInv
<1> QED
  BY <1>1, AccountInvCorrect, PTL

\* Whatever functions are called, by how many threads, at whatever moment of the
\* process: each call that returned is in the statistics once, as what it was.
THEOREM CallsAccountedCorrect == Spec => []CallsAccounted
<1>1. AccountInv => CallsAccounted
  BY DEF AccountInv
<1> QED
  BY <1>1, AccountInvCorrect, PTL

\* Whoever calls while the process goes down, and however far the destructors are:
\* the two reports fall short of no call that returned in time for them.
THEOREM ReportsCoverCallsCorrect == Spec => []ReportsCoverCalls
<1>1. Spec => []ReportsInv
  BY ReportsInit, ReportsNext, PTL DEF Spec
<1>2. ReportsInv => ReportsCoverCalls
  BY DEF ReportsInv, DueCounted, HandledReported, PassedReported, ReportsCoverCalls, Sides
<1> QED
  BY <1>1, <1>2, PTL

\* For every width of size_t and int: which buffer sizes a request for a read or a
\* write asks for, after the conversions to int and to uint64_t, and which it does
\* not; a request for any other function asks for one token.
THEOREM CostsKnownCorrect == Spec => []CostsKnown
<1>1. Init => CostsKnown
  BY DEF Init, CostsKnown
<1>2. AccountInv /\ CostsKnown /\ [Next]_vars => CostsKnown'
  BY CostNext
<1> QED
  BY <1>1, <1>2, AccountInvCorrect, PTL DEF Spec

================================================================================
