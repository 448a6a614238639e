---------------------------- MODULE LdPreloadedPosix ---------------------------
(***************************************************************************)
(* The handlers of LdPreloadedPosix, run by the threads of the application *)
(* PADLL is preloaded into.  Every handler has the same skeleton           *)
(*                                                                         *)
(*   pick a workflow -> enforce -> libc call -> mount point table          *)
(*                   -> statistics -> return                               *)
(*                                                                         *)
(* and takes no lock across its steps: between any two of them other       *)
(* threads run, and the kernel may hand the same descriptor number (libc   *)
(* the same FILE address) to somebody else.                                *)
(*                                                                         *)
(* The kernel, libc and the PAIO stage are external.  A path is known by   *)
(* the mount point PADLL extracts from it, a result by whether it failed   *)
(* and, for the calls that open something, by the handle it returns.       *)
(***************************************************************************)
EXTENDS MountPointTable, FiniteSets

CONSTANTS
    Threads,
    Handlers,       \* the kinds of handler the threads run (see AllHandlers)
    HardRemove,     \* option_hard_remove
    Collect,        \* m_collect: option_default_statistic_collection
    CounterModulus, \* statistic counters wrap at this value (2^64 in the code)
    Disciplined,    \* the application passes only descriptors it holds and
                    \* closes none that another of its calls is using
    Unhandled,      \* of {"open", "close"}: what may also be done by calls that
                    \* do not reach PADLL (libc_calls flag off, pipe, dup2...)
    Foreign         \* a file PADLL has not seen being opened

Classes == {"data_calls", "metadata_calls", "directory_calls", "ext_attr_calls",
            "special_calls"}

--------------------------------------------------------------------------------
(* The handlers: how each picks its workflow, what its libc call does to   *)
(* the handles of the process (and so which table operation follows), and  *)
(* the statistics object it is accounted in.  "minus_one" is               *)
(* pick_workflow_id(-1); "none" is a handler that picks no workflow.       *)

Handler(pick, libc, class) == [pick |-> pick, libc |-> libc, class |-> class]

ReadWriteHandlers ==
    [read   |-> Handler("fd", "io", "data_calls"),
     write  |-> Handler("fd", "io", "data_calls"),
     pread  |-> Handler("fd", "io", "data_calls"),
     pwrite |-> Handler("fd", "io", "data_calls")]

ReadWrite64Handlers ==
    [pread64  |-> Handler("fd", "io", "data_calls"),
     pwrite64 |-> Handler("fd", "io", "data_calls")]

MapHandlers ==
    [mmap   |-> Handler("fd", "io", "data_calls"),
     munmap |-> Handler("minus_one", "io", "data_calls")]

OpenHandlers ==
    [open_variadic |-> Handler("path", "open", "metadata_calls"),
     open          |-> Handler("path", "open", "metadata_calls"),
     creat         |-> Handler("path", "open", "metadata_calls"),
     creat64       |-> Handler("path", "open", "metadata_calls")]

\* The directory descriptor of openat plays no part.
OpenatHandlers ==
    [openat_variadic |-> Handler("path", "open", "metadata_calls"),
     openat          |-> Handler("path", "open", "metadata_calls"),
     open64_variadic |-> Handler("path", "open", "metadata_calls"),
     open64          |-> Handler("path", "open", "metadata_calls")]

CloseHandler == [close |-> Handler("fd", "close", "metadata_calls")]

SyncHandler == [sync |-> Handler("none", "sync", "metadata_calls")]

StatfsHandlers ==
    [statfs    |-> Handler("path", "io", "metadata_calls"),
     fstatfs   |-> Handler("fd",   "io", "metadata_calls"),
     statfs64  |-> Handler("path", "io", "metadata_calls"),
     fstatfs64 |-> Handler("fd",   "io", "metadata_calls")]

\* The path of rename and renameat is the new path: the old one plays no part.
NamespaceHandlers ==
    [unlink   |-> Handler("path", "io", "metadata_calls"),
     unlinkat |-> Handler("path", "io", "metadata_calls"),
     rename   |-> Handler("path", "io", "metadata_calls"),
     renameat |-> Handler("path", "io", "metadata_calls")]

FopenHandlers ==
    [fopen   |-> Handler("path", "fopen", "metadata_calls"),
     fopen64 |-> Handler("path", "fopen", "metadata_calls")]

FcloseHandler == [fclose |-> Handler("stream", "fclose", "metadata_calls")]

DirectoryHandlers ==
    [mkdir   |-> Handler("path", "io", "directory_calls"),
     mkdirat |-> Handler("path", "io", "directory_calls"),
     mknod   |-> Handler("path", "io", "directory_calls"),
     mknodat |-> Handler("path", "io", "directory_calls"),
     rmdir   |-> Handler("path", "io", "directory_calls")]

GetSetxattrHandlers ==
    [getxattr  |-> Handler("path", "io", "ext_attr_calls"),
     lgetxattr |-> Handler("path", "io", "ext_attr_calls"),
     fgetxattr |-> Handler("fd",   "io", "ext_attr_calls"),
     setxattr  |-> Handler("path", "io", "ext_attr_calls")]

ListxattrHandlers ==
    [lsetxattr  |-> Handler("path", "io", "ext_attr_calls"),
     fsetxattr  |-> Handler("fd",   "io", "ext_attr_calls"),
     listxattr  |-> Handler("path", "io", "ext_attr_calls"),
     llistxattr |-> Handler("path", "io", "ext_attr_calls"),
     flistxattr |-> Handler("fd",   "io", "ext_attr_calls")]

SocketHandler == [socket |-> Handler("none", "socket", "special_calls")]

\* F_DUPFD and F_DUPFD_CLOEXEC duplicate; every other command is just passed on.
FcntlHandler ==
    [fcntl_dupfd |-> Handler("none", "dup", "special_calls"),
     fcntl       |-> Handler("none", "io", "special_calls")]

\* Handlers with the same behaviour are one element here.
AllHandlers ==
    UNION {{f[n] : n \in DOMAIN f} :
        f \in {ReadWriteHandlers, ReadWrite64Handlers, MapHandlers, OpenHandlers,
               OpenatHandlers, CloseHandler, SyncHandler, StatfsHandlers,
               NamespaceHandlers, FopenHandlers, FcloseHandler, DirectoryHandlers,
               GetSetxattrHandlers, ListxattrHandlers, SocketHandler, FcntlHandler}}

PickKinds == {"path", "fd", "stream", "minus_one", "none"}
LibcKinds == {"io", "sync", "open", "fopen", "close", "fclose", "socket", "dup"}

\* The second part follows from the first; the proofs rest on it alone.
ASSUME HandlersAssumption ==
    /\ Handlers \subseteq AllHandlers
    /\ \A h \in Handlers :
        /\ h \in [pick : PickKinds, libc : LibcKinds, class : Classes]
        /\ h.libc = "close" => h.pick = "fd"
        /\ h.libc \in {"open", "fopen"} <=> h.pick = "path" /\ h.libc # "io"
        /\ h.libc = "fclose" <=> h.pick = "stream"
        /\ h.libc \in {"socket", "dup", "sync"} => h.pick = "none"
        /\ h.libc = "dup" => h.class = "special_calls"

ASSUME OptionsAssumption ==
    /\ HardRemove \in BOOLEAN
    /\ Collect \in BOOLEAN
    /\ Disciplined \in BOOLEAN
    /\ Unhandled \subseteq {"open", "close"}
    /\ CounterModulus \in Nat \ {0}
    /\ Foreign \notin MountPoints

--------------------------------------------------------------------------------

VARIABLES
    pc,     \* the step each thread is about to take
    call,   \* the arguments and local variables of its handler
    stats,  \* m_data_stats, m_metadata_stats...: the counters of each class
    open,   \* external: the handles the kernel and libc have allocated
    held,   \* external: those the application holds: returned to it and not
            \* yet passed to a close
    file,   \* external: what each open handle was opened on
    shared, \* external: open handles that were duplicated, and their duplicates
    ledger  \* history: what really happened to the calls of each class

callVars == <<pc, call>>
osVars == <<open, held, file, shared>>
vars == <<table, heap, pc, call, stats, open, held, file, shared, ledger>>

Steps == {"idle", "use", "enforce", "libc", "table", "stats"}

Handles == Keys \cup {-1}
Results == Keys \cup {-1, 0, NullPtr}

\* Locals of a handler: its argument, the mount point of its path, the entry
\* pointer and workflow it picked, whether it was enforced, libc's result.  (The
\* pointer and the workflow are reset after their last use.)
Call(h, key, mp, ptr, wf, enforced) ==
    [h |-> h, key |-> key, mp |-> mp, ptr |-> ptr, wf |-> wf, enforced |-> enforced,
     res |-> 0]

NoCall == Call(Handler("none", "io", "data_calls"), -1, "kNone", NoEntry,
               InvalidWorkflow, FALSE)

\* What the five update functions test, each in its own words (>= 0, == 0, a null
\* pointer; sync() has no result).  The tests themselves, function by function, are
\* told apart in PosixPassthrough.
Failed(res) == res \in {-1, NullPtr}

Closers == {"close", "fclose"}

\* A call in progress, other than one that closes it, was given this handle.
InUse(k) ==
    \E t \in Threads : pc[t] # "idle" /\ call[t].key = k /\ call[t].h.libc \notin Closers

\* Handles the calls of a kind make, and the pool they take them from.
Allocates == {"open", "fopen", "socket", "dup"}
FreeHandles(libc) == (IF libc = "fopen" THEN FilePtrs ELSE Fds) \ open

\* Incrementing a counter, an unsigned integer.
Add(counter, n) == (counter + n) % CounterModulus

--------------------------------------------------------------------------------
(* The start of a handler, up to the pick of a workflow.                   *)

Start(t, step, c) ==
    /\ pc[t] = "idle"
    /\ pc' = [pc EXCEPT ![t] = step]
    /\ call' = [call EXCEPT ![t] = c]

\* A path names the mount point itself: the workflow is picked at once.
CallOnPath(t, h, path) ==
    LET mp == extract_mount_point(path)
    IN  /\ h.pick = "path"
        /\ \E wf \in pick_workflow_id(mp) :
                Start(t, "enforce", Call(h, -1, mp, NoEntry, wf, FALSE))
        /\ UNCHANGED <<tableVars, osVars, stats, ledger>>

\* The handles an application may pass to a handler that picks by descriptor or
\* stream.  (Passing a stream one does not hold is undefined in libc itself.)
Arguments(h) ==
    CASE h.pick = "stream"    -> held \cap FilePtrs
      [] h.pick = "minus_one" -> {-1}
      [] OTHER -> IF Disciplined
                  THEN {k \in held \cap Fds : h.libc = "close" => ~InUse(k)}
                  ELSE Fds \cup {-1}

\* pick_workflow_id(fd) and (FILE*) first look the entry up and keep a pointer
\* to it.  An application that starts to close a handle has given it up.
CallOnKey(t, h, k) ==
    /\ h.pick \in {"fd", "stream", "minus_one"}
    /\ k \in Arguments(h)
    /\ Start(t, "use", Call(h, k, "kNone", get_mount_point_entry(k),
                            InvalidWorkflow, FALSE))
    /\ held' = IF h.libc \in Closers THEN held \ {k} ELSE held
    /\ UNCHANGED <<tableVars, open, file, shared, stats, ledger>>

\* sync, socket and fcntl pick nothing; sync reports itself as enforced.
CallUnpicked(t, h, k) ==
    /\ h.pick = "none"
    /\ k \in (IF h.class = "special_calls" /\ h.libc # "socket" THEN Arguments(h)
              ELSE {-1})
    /\ Start(t, "libc", Call(h, k, "kNone", NoEntry, InvalidWorkflow, h.libc = "sync"))
    /\ UNCHANGED <<tableVars, osVars, stats, ledger>>

\* The rest of pick_workflow_id: read the entry through the pointer, outside the
\* table's lock.
WorkflowsOfEntry(e) ==
    IF e = NoEntry THEN {InvalidWorkflow}
    ELSE UNION {pick_workflow_id(mp) : mp \in get_mount_point(e)}

\* Mutant: the fallback of close taken by every handler.
always_fallback(h, wf) ==
    IF wf = InvalidWorkflow THEN pick_workflow_id_by_force ELSE {wf}

\* close retries by force when it got no workflow.
close_fallback(h, wf) ==
    IF h.libc = "close" /\ wf = InvalidWorkflow THEN pick_workflow_id_by_force ELSE {wf}

UseEntry(t) ==
    /\ pc[t] = "use"
    /\ pc' = [pc EXCEPT ![t] = "enforce"]
    /\ \E picked \in WorkflowsOfEntry(call[t].ptr) :
         \E wf \in close_fallback(call[t].h, picked) :
            call' = [call EXCEPT ![t].wf = wf, ![t].ptr = NoEntry]
    /\ UNCHANGED <<tableVars, osVars, stats, ledger>>

--------------------------------------------------------------------------------
(* Enforcement and the libc call.                                          *)

\* Mutant: the check of the workflow identifier is missing.
enforce_without_check(t) ==
    /\ pc[t] = "enforce"
    /\ pc' = [pc EXCEPT ![t] = "libc"]
    /\ call' = [call EXCEPT ![t].enforced = TRUE]
    /\ ledger' = [ledger EXCEPT ![call[t].h.class].submitted = Add(@, 1)]
    /\ UNCHANGED <<tableVars, osVars, stats>>

\* A request with a workflow goes to the PAIO stage and comes back when it may
\* proceed; one without is bypassed.
enforce_request(t) ==
    LET is_valid == call[t].wf # InvalidWorkflow
    IN  /\ pc[t] = "enforce"
        /\ pc' = [pc EXCEPT ![t] = "libc"]
        /\ call' = [call EXCEPT ![t].enforced = is_valid]
        /\ ledger' = IF is_valid
                     THEN [ledger EXCEPT ![call[t].h.class].submitted = Add(@, 1)]
                     ELSE ledger
        /\ UNCHANGED <<tableVars, osVars, stats>>

\* Common to the libc steps: the call returns res.
Executed(t, res) ==
    LET c == call[t]
        l == ledger[c.h.class]
    IN  /\ pc[t] = "libc"
        /\ pc' = [pc EXCEPT ![t] = IF c.h.libc \in {"io", "sync", "socket"}
                                   THEN "stats" ELSE "table"]
        /\ call' = [call EXCEPT ![t].res = res, ![t].wf = InvalidWorkflow]
        /\ ledger' = [ledger EXCEPT ![c.h.class] =
                [l EXCEPT !.executed = Add(@, 1),
                          !.synced = Add(@, IF c.h.libc = "sync" THEN 1 ELSE 0),
                          !.failed = Add(@, IF c.enforced /\ Failed(res) THEN 1 ELSE 0)]]
        /\ UNCHANGED <<tableVars, stats>>

\* A call that leaves the handles of the process alone; sync() cannot fail.
LibcIo(t) ==
    /\ call[t].h.libc \in {"io", "sync"}
    /\ \E res \in {0, -1} :
            /\ call[t].h.libc = "sync" => res = 0
            /\ Executed(t, res)
    /\ UNCHANGED osVars

\* A call that returns a new handle; a duplicate refers to the same file.
LibcAllocate(t) ==
    LET c == call[t]
        new == CASE c.h.libc \in {"open", "fopen"} -> c.mp
                 [] c.h.libc = "socket" -> Foreign
                 [] OTHER -> file[c.key]
    IN  /\ c.h.libc \in Allocates
        /\ c.h.libc = "dup" => c.key \in open
        /\ \E k \in FreeHandles(c.h.libc) :
            /\ Executed(t, k)
            /\ open' = open \cup {k}
            /\ file' = [file EXCEPT ![k] = new]
            /\ shared' = IF c.h.libc = "dup" THEN shared \cup {k, c.key} ELSE shared
            /\ UNCHANGED held

\* A failed allocation: -1, or a null FILE pointer.
LibcAllocateFails(t) ==
    /\ call[t].h.libc \in Allocates
    /\ Executed(t, IF call[t].h.libc = "fopen" THEN NullPtr ELSE -1)
    /\ UNCHANGED osVars

\* Closing releases the handle even when it reports an error; a descriptor that
\* is not open is an error.
LibcClose(t) ==
    LET k == call[t].key
    IN  /\ call[t].h.libc \in Closers
        /\ \E res \in {0, -1} :
                /\ k \notin open => res = -1
                /\ Executed(t, res)
        /\ open' = open \ {k}
        /\ file' = [x \in Keys |-> IF x = k THEN Foreign ELSE file[x]]
        /\ shared' = shared \ {k}
        /\ UNCHANGED held

--------------------------------------------------------------------------------
(* After the libc call.                                                    *)

UpdateTable(t) ==
    LET c == call[t]
    IN  /\ pc[t] = "table"
        /\ pc' = [pc EXCEPT ![t] = "stats"]
        /\ \/ /\ c.h.libc \in {"open", "fopen"}
              /\ create_mount_point_entry(c.res, c.mp)
           \/ /\ c.h.libc = "fclose" \/ (c.h.libc = "close" /\ HardRemove)
              /\ remove_mount_point_entry(c.key)
           \/ /\ c.h.libc = "close" /\ ~HardRemove
              /\ UNCHANGED tableVars
           \/ /\ c.h.libc = "dup"
              /\ replace_file_descriptor(c.key, c.res)
        /\ UNCHANGED <<call, osVars, stats, ledger>>

\* Mutant: a failed call is accounted as an error and not as an operation.
count_errors_apart(s, enforced, failed) ==
    CASE enforced /\ ~failed -> [s EXCEPT !.operations = Add(@, 1)]
      [] enforced /\ failed  -> [s EXCEPT !.errors = Add(@, 1)]
      [] OTHER               -> [s EXCEPT !.bypassed = Add(@, 1)]

\* update_statistic_entry_data, _metadata, _dir, _ext_attr and _special: what
\* one call adds to the counters of its class.
update_statistic_entry(s, enforced, failed) ==
    CASE enforced /\ ~failed -> [s EXCEPT !.operations = Add(@, 1)]
      [] enforced /\ failed  -> [s EXCEPT !.operations = Add(@, 1), !.errors = Add(@, 1)]
      [] OTHER               -> [s EXCEPT !.bypassed = Add(@, 1)]

\* The last thing a handler does before it returns libc's result; from then on
\* the application holds the handle the call made.
update_statistics(t) ==
    LET c == call[t]
    IN  /\ pc[t] = "stats"
        /\ stats' = IF Collect
                    THEN [stats EXCEPT ![c.h.class] =
                              update_statistic_entry(@, c.enforced, Failed(c.res))]
                    ELSE stats
        /\ held' = IF c.h.libc \in Allocates /\ c.res \in Keys
                   THEN held \cup {c.res} ELSE held
        /\ pc' = [pc EXCEPT ![t] = "idle"]
        /\ call' = [call EXCEPT ![t] = NoCall]
        /\ UNCHANGED <<tableVars, open, file, shared, ledger>>

--------------------------------------------------------------------------------
(* Calls of the process that do not come through PADLL.                    *)

UnhandledOpen(k) ==
    /\ "open" \in Unhandled
    /\ k \in Keys \ open
    /\ open' = open \cup {k}
    /\ held' = held \cup {k}
    /\ UNCHANGED <<tableVars, callVars, file, shared, stats, ledger>>

UnhandledClose(k) ==
    /\ "close" \in Unhandled
    /\ k \in held
    /\ ~InUse(k)
    /\ open' = open \ {k}
    /\ held' = held \ {k}
    /\ file' = [file EXCEPT ![k] = Foreign]
    /\ shared' = shared \ {k}
    /\ UNCHANGED <<tableVars, callVars, stats, ledger>>

--------------------------------------------------------------------------------

\* PADLL starts in a process that has its standard handles and possibly others.
Init ==
    /\ TableInit
    /\ pc = [t \in Threads |-> "idle"]
    /\ call = [t \in Threads |-> NoCall]
    /\ stats = [c \in Classes |-> [operations |-> 0, errors |-> 0, bypassed |-> 0]]
    /\ open \in {S \in SUBSET Keys : {k \in Keys : ~IsValidKey(k)} \subseteq S}
    /\ held = open
    /\ file = [k \in Keys |-> Foreign]
    /\ shared = {}
    /\ ledger = [c \in Classes |->
                    [submitted |-> 0, executed |-> 0, synced |-> 0, failed |-> 0]]

Begin(t) ==
    \E h \in Handlers :
        \/ \E p \in Paths : CallOnPath(t, h, p)
        \/ \E k \in Handles : CallOnKey(t, h, k)
        \/ \E k \in Handles : CallUnpicked(t, h, k)

Continue(t) ==
    \/ UseEntry(t)
    \/ enforce_request(t)
    \/ LibcIo(t)
    \/ LibcAllocate(t)
    \/ LibcAllocateFails(t)
    \/ LibcClose(t)
    \/ UpdateTable(t)
    \/ update_statistics(t)

Next ==
    \/ \E t \in Threads : Begin(t) \/ Continue(t)
    \/ \E k \in Keys : UnhandledOpen(k) \/ UnhandledClose(k)

Spec == Init /\ [][Next]_vars

--------------------------------------------------------------------------------

CallType ==
    [h : [pick : PickKinds, libc : LibcKinds, class : Classes], key : Handles,
     mp : MountPoints, ptr : EntryIds \cup {NoEntry}, wf : Int, enforced : BOOLEAN,
     res : Results]

Counter == 0 .. CounterModulus - 1
StatsType == [operations : Counter, errors : Counter, bypassed : Counter]
LedgerType == [submitted : Counter, executed : Counter, synced : Counter, failed : Counter]

\* The type of every variable.
TypeOK ==
    /\ TableTypeOK
    /\ pc \in [Threads -> Steps]
    /\ call \in [Threads -> CallType]
    /\ stats \in [Classes -> StatsType]
    /\ open \subseteq Keys
    /\ held \subseteq Keys
    /\ file \in [Keys -> MountPoints \cup {Foreign}]
    /\ shared \subseteq Keys
    /\ ledger \in [Classes -> LedgerType]

--------------------------------------------------------------------------------
(* Properties.                                                             *)

\* The unique_ptrs of the tables: every entry a table refers to exists, no two
\* keys share one, and no entry outlives its key (create, remove and the node
\* surgery of replace_file_descriptor neither leak nor free twice).
EntryOwnership ==
    /\ \A k \in Keys : table[k] # NoEntry => heap[table[k]] # Freed
    /\ \A j, k \in Keys : table[j] = table[k] /\ table[j] # NoEntry => j = k
    /\ \A e \in EntryIds : heap[e] # Freed => \E k \in Keys : table[k] = e

\* k is registered, on the mount point of the file it was really opened on.
RegisteredAs(k, mp) == table[k] # NoEntry /\ heap[table[k]] = mp

\* A descriptor PADLL vouches for: opened through it and never duplicated.
Tracked(k) == k \in Fds /\ is_file_descriptor_valid(k) /\ file[k] # Foreign /\ k \notin shared

\* With lazy removal (option_hard_remove off) entries of closed descriptors stay
\* in the table and their numbers are reused.  Still, whenever the application
\* holds a descriptor that open, creat or openat gave it, the table maps it to
\* the mount point of that file and not of a former owner of the number.
HeldFilesRegistered ==
    \A k \in held : Tracked(k) => RegisteredAs(k, file[k])

\* The end-to-end promise: a read, write, fstatfs... on a file opened through
\* PADLL goes to libc after enforcement exactly if the file's mount point has
\* workflows, although the pick and the enforcement are separate, unlocked steps.
DecisionFollowsFile ==
    \A t \in Threads :
        LET c == call[t]
        IN  pc[t] = "libc" /\ c.h.pick = "fd" /\ c.h.libc = "io" /\ Tracked(c.key)
                => (c.enforced <=> pick_workflow_id(file[c.key]) # {InvalidWorkflow})

\* Whatever a handler read through a pointer to a destroyed entry, a request it
\* submits to the stage names a workflow that was registered.
OnlyRegisteredWorkflows ==
    \A t \in Threads :
        pc[t] = "libc" /\ call[t].enforced /\ call[t].h.libc # "sync"
            => \E mp \in MountPoints : call[t].wf \in registered_workflows(mp)

\* A call in progress was given this handle or got it from libc.
Concerns(t, k) == pc[t] # "idle" /\ k \in {call[t].key, call[t].res}

\* Where closing removes entries (streams always, descriptors with
\* option_hard_remove), no entry survives the handle: once it is closed and no
\* call is working on it, the table has forgotten it.
ClosedHandlesForgotten ==
    \A k \in Keys \ open :
        (k \in FilePtrs \/ HardRemove) /\ (\A t \in Threads : ~Concerns(t, k))
            => table[k] = NoEntry

\* Every call is accounted once and in the right column: when no handler of a
\* class is between its first step and its statistics, operations are the requests
\* submitted to the stage (and the syncs), operations and bypassed together are
\* the libc calls made, and errors are the enforced calls that failed.
CallsCountedOnce ==
    \A c \in Classes :
        Collect /\ (\A t \in Threads : pc[t] # "idle" => call[t].h.class # c)
            => /\ stats[c].operations = Add(ledger[c].submitted, ledger[c].synced)
               /\ Add(stats[c].operations, stats[c].bypassed) = ledger[c].executed
               /\ stats[c].errors = ledger[c].failed

\* What the documentation of MountPointTable says of FILE pointers: every stream
\* fopen registered is managed through the table while it is open.  fclose removes
\* the entry after libc released the stream, so a concurrent fopen that got the
\* same address loses its registration.
HeldStreamsRegistered ==
    \A k \in held \cap FilePtrs :
        is_file_pointer_valid(k) /\ file[k] # Foreign => RegisteredAs(k, file[k])

\* What notes/limitations.md says of descriptors PADLL has not seen being opened:
\* no operation on them is enforced.  close is, by its fallback.
UnseenFilesNotEnforced ==
    \A t \in Threads :
        pc[t] = "libc" /\ call[t].h.pick = "fd" /\ file[call[t].key] = Foreign
            => ~call[t].enforced

\* replace_file_descriptor answers true in this step.
ReplaceAnswersTrue(t) ==
    LET c == call[t]
    IN  /\ pc[t] = "table" /\ pc'[t] = "stats" /\ c.h.libc = "dup"
        /\ IsValidKey(c.key) /\ IsValidKey(c.res) /\ table[c.key] # NoEntry

\* What its documentation says that answer means: the entry is now the new
\* descriptor's.  It is not if the new number still has an entry of a former file.
TrueMeansReplaced ==
    [][\A t \in Threads :
        ReplaceAnswersTrue(t) => table'[call[t].res] = table[call[t].key]]_vars

================================================================================
