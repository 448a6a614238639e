# PADLL in TLA+

PADLL is a shared library that is preloaded into an application. It intercepts
POSIX calls, decides from the mount point of the file each call is about whether
the call is rate limited, submits it to a PAIO data plane stage if so, runs the
original libc call, and keeps statistics. This project models that decision and
the shared state behind it, checks the model with TLC and proves its central
results with TLAPS.

## 1. Inventory

| Component | State | Operations | Interacts with |
|---|---|---|---|
| `PosixFileSystem` (`include/padll/interface/native/posix_file_system.hpp`) | globals: logger, `m_posix_passthrough`, `m_ldp_loaded`, `m_ld_preloaded_posix` | one wrapper per libc symbol: route to the handler if its `libc_calls` flag is set and the library is loaded, else to the passthrough; constructor and destructor at load and exit | both below |
| `LdPreloadedPosix` (`src/interface/ldpreloaded/ld_preloaded_posix.cpp`) | libc pointers, `m_collect`, five `Statistics`, `m_stage`, `m_mount_point_table`, `m_loaded` | 45 handlers, `enforce_request`, `update_statistics`, reports | `MountPointTable`, `DlsymHookLibc`, `DataPlaneStage`, `Statistics` |
| `MountPointTable`, `MountPointEntry` (`src/stage/mount_point_*.cpp`) | two hash tables of owned entries, each with a shared mutex; workflows per mount point type; an unlocked pseudo-random generator | create, get, remove and replace an entry; extract the mount point of a path; pick a workflow by path, descriptor, stream or force; `to_string` | called by every handler, from any thread |
| `Statistics`, `StatisticEntry` (`src/statistics/`) | per operation: four counters, a mutex per entry | increment, copy, aggregate, print | handlers, reports |
| `DlsymHookLibc` (`include/padll/interface/ldpreloaded/dlsym_hook_libc.hpp`) | `m_lib_handle` | resolve a libc symbol at its first use | handlers |
| `PosixPassthrough` (`src/interface/passthrough/`) | statistics, libc pointers | one passthrough per libc symbol | wrappers |
| `DataPlaneStage` (`src/stage/data_plane_stage.cpp`) | PAIO stage and its POSIX instance, initialisation flag | construct (connects to the controller), `enforce_request` | PAIO, external |
| options, `libc_calls` (`include/padll/options`, `configurations`) | compile-time constants and an environment variable | - | everything |
| `Log` (`src/utils/log.cpp`) | files | - | everything |

What is hard here:

* **No lock spans a handler.** Pick, enforcement, the libc call, the table and the
  statistics are separate steps; the kernel hands out the same number again as
  soon as a descriptor is closed.
* **Lazy removal.** By default (`option_hard_remove` off) `close` leaves the entry
  of the descriptor in the table.
* **Calls nobody sees.** Handles are also opened and closed by calls whose flag is
  off or which PADLL does not wrap (`pipe`, `dup2`...).
* **Ownership.** Entries are owned by the tables but read through raw pointers
  after the lock was released.
* **Accounting.** Five functions with different tests of the result, counters that
  wrap, several lock acquisitions per update.
* **Life cycle.** Wrappers run before the globals are constructed and after they
  are destroyed; libc symbols are resolved without a lock.

`PROJECT.json` lists these as hazards, each at its line, with the properties that
would catch it going wrong or the reason none does yet. What makes each component
correct: entries are owned by exactly one key, and the table says of every
descriptor the application holds what was opened (`MountPointTable`); a call is
enforced exactly if its file is on a mount point with workflows, and only with a
registered workflow (`LdPreloadedPosix`); each call is counted once, in the right
column, and each number in a report is a value its counter had (`Statistics`); a pointer is
resolved before it is called (`DlsymHookLibc`); no wrapper reaches an object that
does not exist (`PosixFileSystem`).

## 2. The modules

| Module | Models |
|---|---|
| `MountPointTable` | the two tables and the objects they own; workflow selection. One operator per operation, the body of one critical section |
| `MountPointTableLocks` | the same operations step by step, with the two shared mutexes |
| `MountPointTableLocksProofs` | the invariant of the locks, that nobody keeps one, and the refinement of `AtomicTable`, proved |
| `AtomicTable` | abstract specification: each operation in one step |
| `LdPreloadedPosix` | the handlers, run step by step by threads; the libc calls and the handles of the process; statistics; the properties |
| `LdPreloadedPosixInv` | the inductive invariants `IInv`, `ClosedInv` and `CountsInv` |
| `LdPreloadedPosixProofs` | type correctness and ownership, proved |
| `LdPreloadedPosixInvProofs` | these are inductive, and what follows, proved |
| `ThrottledFiles` | abstract specification: what PADLL promises an application |
| `ThrottledFilesRefinement` | the mapping from `LdPreloadedPosix` to `ThrottledFiles` |
| `ThrottledFilesProofs` | the refinement of `ThrottledFiles`, proved |
| `Statistics` | updates, copies and reports as sequences of locked and unlocked accesses |
| `StatisticsSnapshots` | `Statistics` with the history a copy is compared with |
| `AtomicCounters` | abstract specification: every counter is an atomic register |
| `StatisticsProofs` | the invariant, the refinement of `AtomicCounters`, and that mutexes are not nested, proved |
| `StatisticsOrderProofs` | errors never exceed operations, every active entry is printed, totals cover rows, proved |
| `PosixPassthrough` | what a call of each function adds to the statistics, handled or passed through |
| `DataPlaneStage` | what a request to the stage costs |
| `PosixFileSystem` | the wrappers and the life of the globals; extends the previous two |
| `PosixFileSystemProofs` | no handler before the constructor is done, every call in the statistics and in the reports, costs; proved |
| `DlsymHookLibc` | the first use of every libc pointer |
| `DlsymHookLibcProofs` | what the hooks resolve, proved |
| `MCLdPreloadedPosix`, `MCThrottledFiles`, `MCMountPointTableLocks`, `MCStatistics`, `MCStatisticsSnapshots`, `MCPosixFileSystem`, `MCDlsymHookLibc` | small instances |

How they fit: `LdPreloadedPosix` takes a table operation to be one step;
`MountPointTableLocks` shows that it may, because it implements `AtomicTable`, whose
steps are the operators of `MountPointTable` that the handlers use. It also takes an
update of the statistics to be one step per handler, and `AtomicCounters` says how
much of that the code promises: each counter is atomic, the counters of an entry
together are not. What a handler counts by its class only there is spelled out for
every function in `PosixPassthrough`, and `PosixFileSystem` adds which calls become
handlers at all.

**`MountPointTable`.** `table` is both hash tables (descriptors are integers, FILE
addresses model values, so one function serves); its values are the addresses of
entries, and `heap` says what is at each address. They are apart because
`get_mount_point_entry` hands out the raw pointer: `get_mount_point` of an address
that holds no entry any more is any value, one that is no mount point included.
An address can be allocated again. A path is known by whether the remote mount
point occurs in it, which is all `extract_mount_point_from_path` looks at. The
random choice of a workflow is nondeterministic. `replace_file_descriptor` onto the
same number extracts the node and inserts it again: nothing changes.

**`LdPreloadedPosix`.** Handlers with the same skeleton differ in three things, and
a handler is a record of them: how it picks its workflow (`path`, `fd`, `stream`,
`minus_one`, `none`), what its libc call does to the handles (`io`, `open`,
`fopen`, `close`, `fclose`, `socket`, `dup`, `sync`) and the statistics class.
Every handler of the source is in one of the tables `ReadWriteHandlers` ...
`FcntlHandler`. `pc` and `call` are a thread's position and locals:

| `pc` | the handler is about to | action |
|---|---|---|
| `idle` | start: extract the mount point of its path and pick, or look its descriptor up | `CallOnPath`, `CallOnKey`, `CallUnpicked` |
| `use` | read the entry through the pointer and pick; `close` falls back | `UseEntry` |
| `enforce` | submit or bypass | `enforce_request` |
| `libc` | run libc's function | `LibcIo`, `LibcAllocate`, `LibcAllocateFails`, `LibcClose` |
| `table` | create, remove or replace the entry | `UpdateTable` |
| `stats` | count and return | `update_statistics` |

`open`, `held`, `file` and `shared` are the world outside: what the kernel and libc
have allocated, what the application was given and has not passed to a close,
the mount point each open handle was opened on, which descriptors were duplicated. They
never influence a PADLL step; the properties compare PADLL's state with them.
`ledger` counts what really happened to the calls of a class, with the same
wrap-around as the counters it is compared with.

What the abstraction leaves out: payload sizes, bytes counted and per-operation
counters (one per class here; `PosixFileSystem` has them), log messages, the symbol
hook at the start of a handler (`DlsymHookLibc`). `LibcAllocate` and the like are
external and modelled from their use.

**The application.** With `Disciplined` the application passes only descriptors it
holds and does not close one another of its calls is using. That is what POSIX
asks of a correct program, and without it no call has a definite file. The runs suppose it, the
theorems `TypeCorrect`, `OwnershipCorrect`, `OnlyRegisteredWorkflowsCorrect` and
`CallsCountedOnceCorrect` do without.

**`ThrottledFiles`.** A call is about a handle, or a path on a mount point, or
nothing the promise speaks of; it is decided once and then runs: admitted only if
its mount point is throttled, bypassed only if it is not. No tables, no pointers,
no accounting. A handle whose file PADLL does not know is promised nothing.

**`MountPointTableLocks`.** `at` is the position of a thread in its operation: it
waits for the lock, does its steps inside and releases it. Where the code does two
things to a table there are two steps: `emplace`, then the assignment if the key was
there; `extract`, then `insert` under the new key; one step per entry a report
visits. The refinement maps an extracted node back to its old key until it is
inserted. Operations on invalid keys return before the lock and are left out, as is
`fp_table_to_string`: it takes the lock of the other table, but only a test with one
thread calls it.

**`Statistics`.** A call is the sequence of accesses it makes, in `work`, and a locked
access is two steps: take the mutex and load, then store or use and release. The
sequences are those of the code: operations, bytes and errors under three mutex
acquisitions; for a report three counters looked at, then a copy; rows first and
totals, column by column, after them. The copy constructor takes no mutex, which is a
data race in C++: of the four words it reads the build may choose the order, since
nothing synchronises them, and `CopyOrders` is the set of orders it may choose. One
word is still read in one step (aligned 64-bit loads of the platforms PADLL is built
for). The totals of a table are kept in a `signed long`; here they are natural
numbers, which differs only beyond 2^63 calls.
`m_stats_mutex` is taken by `get_statistic_entry` alone and serialises nothing else.

**`PosixPassthrough`, `DataPlaneStage`, `PosixFileSystem`.** Every wrapped function is
a row of a table with the test its passthrough makes of the result; `handled_adds`
has the five update functions of the handlers, with the conversions handlers make of
pointers first. A call is routed (`Route`), submitted or bypassed (`Enforce`), runs
(`Libc`) and is accounted (`FinishPassed`, `FinishHandled`); in between, the thread
`Main` constructs the four globals in the order of their definitions, runs main,
exits and destroys them in reverse, the two objects with their reports first.
Constructors and destructors may make calls of their own. `m_collect` of an object
is zero before its constructor begins (globals are zero initialised) and stays set
after the destructor; `m_ldp_loaded` is null before its construction, and may read
as anything once freed. `ledger` is history: what each call should have added, from
libc's result alone. `due` is history too: what a report must hold.
`cost` is the buffer size through two conversions, `size_t` to `int` to `uint64_t`.

**`DlsymHookLibc`.** All hooks have one skeleton, and the two variables it reads are
read in steps of their own: the pointer, the handle, the pointer again, the mutex,
`dlopen`, the handle again, `dlsym`. The hooks and the symbols they look up (the
variadic forms share one) are in tables. `dlsym` through a null handle or the handle
of the program itself finds the wrapper PADLL exports, since PADLL is preloaded.

## 3. The runs

| Run | Instance | Checks |
|---|---|---|
| `throttled_files` | 2 threads, descriptors 3 and 4, 2 paths; read, open, close, F_DUPFD, statfs, sync; unseen opens and closes | `IInv`, `EntryOwnership`, `HeldFilesRegistered`, `DecisionFollowsFile`, `ImplementsThrottledFiles` (refinement) |
| `hard_remove` | 2 threads, 1 descriptor, 1 stream; open, close, fopen, fclose, sync; hard removal; counters modulo 3 | `TypeOK`, `ClosedHandlesForgotten`, `EntryOwnership`, `OnlyRegisteredWorkflows`, `CallsCountedOnce` |
| `table_locks` | 3 threads: one creates and replaces, one looks up and prints, one removes and prints; 2 descriptors | `LocksInv`, `HoldersInside`, `ImplementsAtomicTable` (refinement), `ReadersReturn`, `WritersReturn` (liveness) |
| `reports` | 2 threads that count one call each, one that prints, tabulates or copies; 2 entries | `StatisticsInv`, `ErrorsFollowOperations`, `TotalsCoverRows`, `ActiveEntriesPrinted`, `HoldersNeverWait`, `ImplementsAtomicCounters` (refinement), `CallsReturn` (liveness) |
| `every_call` | `Main` calls any one of the 45 functions at any time, another thread opens a file; only open handled, or everything; 2 buffer sizes | `TypeOK`, `CallsAccounted`, `HandlersAfterConstruction`, `ReportsCoverCalls` |
| `hooks` | 3 threads, 2 hooks each, 2 pointers; libc opens, never, or only after the constructor | `CalledIsLibc`, `HooksReturn` (liveness) |
| `stream_race` | 2 threads, 1 stream | finds `HeldStreamsRegistered` violated |
| `duplicate` | 1 thread, 2 descriptors | finds `TrueMeansReplaced` violated |
| `unseen_files` | 1 thread, 1 descriptor, no open handled | finds `UnseenFilesNotEnforced` violated |
| `exit_race` | 1 thread through its life | finds `LoadedMeansInitialized` violated |
| `torn_copy` | 2 threads that count one call each, one that copies or prints the entry, in the order of the source | finds `CopiesAreSnapshots` violated |
| `cost` | 1 thread that reads, with sizes around the largest `int` | finds `CostIsSize` violated |

**Bounds.** The hazards of the handlers need two handlers that interleave and a
number that is reused: two threads and two descriptors have every such case (one
handler races one other; a duplicate needs a second number). `hard_remove` asks what
becomes of a handle that is closed and reused, for which one descriptor and one
stream are enough. Two paths, one on each
side of the differentiation, give a reused number a former file on the other mount
point. `EntryIds` has one address per key and one more, so an address is reused
while another thread still points to it, and an allocation never waits. Counters
wrap at 3 in `hard_remove`, more often than a class has calls in flight, and at 1 (no
counting) where no property is about them.

In `table_locks` three threads are a writer, a reader and one that is both, so a
lock has two readers at once, two writers that exclude each other, and readers that
overlap; two descriptors let a replacement collide. The tables and their locks are
independent and alike, and a stream would make the run too long, so `FilePtrs` is
empty. In `reports` two updaters can collide in one entry and a report can be
overtaken at every step; a second update of each adds nothing but another value. Copies read
the counters in the order of the source and in the reverse.
`every_call` has one call per thread, at every moment of the process and for every
function, result and side: the accounting of a call depends on no other call. `SizeModulus`
and `IntModulus` are the numbers of values of `size_t` and `int`, 16 and 8 in the runs; the sizes
lie on both sides of the largest `int`. In `hooks` two pointers sharing one handle and a
second handler per thread give each order of first and later use. Threads and entry
addresses are symmetric, and symmetry is used where only safety is checked. The
theorems below hold without these bounds.

**Deadlock** is checked wherever the system does not stop: in every run of the
handlers and of the tables some thread can always start or continue. In `reports`,
`torn_copy`, `every_call`, `exit_race`, `cost` and `hooks` the number of calls is bounded or the process ends, and
`CallsReturn` and `HooksReturn` say instead that nobody waits forever.

**Fairness.** The handlers of `LdPreloadedPosix` take no lock across steps and claim
no liveness. A thread inside a lock, a report or a hook is scheduled until it is out
(`WF` of its steps): nothing inside blocks. A thread that waits for a table lock gets it
if it is available again and again (`SF` of `Acquire`): the rwlock under
`shared_timed_mutex` wakes its waiters when it becomes free. It prefers readers, so
readers that overlap keep the lock from a writer for good; that is why
`WritersReturn` supposes that the lock is free of readers again and again, while
`ReadersReturn` supposes nothing. For the mutexes of `StatisticEntry` `WF` is enough,
because a run has finitely many calls; `m_lock` of `DlsymHookLibc` gets `SF`. Nothing
makes a thread begin a call.

## 4. What the runs that find a violation show

* **A late removal** (`stream_race`). `fclose` removes the entry after libc has
  freed the FILE. Another thread's `fopen` may get the address and register it
  before the removal, which then erases the new registration: the stream is open
  and unknown, and its `fclose` is bypassed.
* **A replacement that is none** (`duplicate`). `open` 3, `fcntl(3, F_DUPFD)`
  onto a number whose closed former file still has an entry (lazy removal):
  `insert` of the extracted node does nothing, the entry is destroyed,
  `replace_file_descriptor` returns true, and the duplicate has the mount point of
  the former file.
* **An enforced close** (`unseen_files`). `notes/limitations.md` says operations on
  descriptors are not enforced when `open` is not handled; `close` always is, by
  `pick_workflow_id_by_force`.
* **A handler without an object** (`exit_race`). `m_ldp_loaded` is set when
  `m_ld_preloaded_posix` has been constructed and never reset: while it is being
  destroyed, and after, wrappers still hand calls to it.

* **A copy of no state** (`torn_copy`). `statistics.hpp:74` calls `get_statistic_entry`
  thread-safe, and `statistic_entry.hpp:18-19` all reads of counters. The copy
  constructor reads the four counters without the mutex of its source: a call counted
  meanwhile leaves a copy with its bytes and without its operation. The counters are
  read in the order of the source here; no reordering by the build is needed.
* **A cost that is not the size** (`cost`). `ld_preloaded_posix.hpp:68-70` says the cost
  of a read or a write is directly proportional to its buffer size. The payload goes
  through an `int`: above the largest `int` it loses its high bits, or becomes negative
  and then, as a `uint64_t`, huge. `CostsKnownCorrect` says exactly which sizes are
  asked for.

What else the models show of the code, without a run of its own. Against a document,
but a single step that ignores a flag, visible in the routing itself:

* `fcntl` looks at neither its flag nor `m_ldp_loaded`, although
  `posix_file_system.hpp:959-961` says that it is passed through or handled "depending
  on the SpecialCalls configurations", and `ld_preloaded_posix.hpp:32` that only
  operations set to true are handled (`Routes`). Called before the constructor
  (`Early` of `DlsymHookLibc`), its hook would open the program itself and find
  PADLL's own `fcntl`.

Where no document says otherwise:

* `CallsAccounted` leaves out what the passthroughs omit: a passed sync is never
  counted (`passthrough_posix_sync` returns first), and they do not add the result of a
  getxattr to the bytes, as the handlers do (`ld_preloaded_posix.hpp:107-108`). Of the
  handlers it leaves out nothing. `open64` with a mode has its own entry when it is
  handled and that of `open64` when it is not, so the two are taken together.
* A flagged function called before `m_ldp_loaded` is constructed dereferences a null
  pointer (`RouteCrashes`).
* A hook reads the library handle again after it released `m_lock`. If `dlopen` of
  libc changed its answer from one hook to the next (`"varies"`), that may be null.
* After `F_DUPFD` the original descriptor has no entry any more and its calls are
  bypassed; `shared` keeps such descriptors out of the promise.
* The entry of a tabulated row is read counter by counter: a row may show an
  error of a call whose operation it does not show.

## 5. The proofs

All are checked by TLAPS, for any number of threads, descriptors, streams, paths,
workflows and any counter width, from the `ASSUME`s of the modules alone.

Of the handlers (`LdPreloadedPosix`):

* `TypeCorrect`: `Spec => []TypeOK`.
* `OwnershipCorrect`: `Spec => []EntryOwnership`, for every application and every
  setting of the options. One lemma per table operation.
* `OnlyRegisteredWorkflowsCorrect` and `CallsCountedOnceCorrect`, likewise without an
  assumption on the application or the options.
* `InvariantCorrect`: `Spec => []IInv`, if the application is disciplined and
  removal is lazy. `HeldFilesRegisteredCorrect`, `DecisionFollowsFileCorrect` and
  `ImplementsThrottledFilesCorrect` follow.
* `ClosedHandlesForgottenCorrect`, if the application is disciplined and its closes
  are handled, for either kind of removal.

Of the parts around them:

* `LocksInvCorrect` and `ImplementsAtomicTableCorrect`: the operations of the table,
  step by step under their locks, implement the one-step operations that the
  handlers' model uses, for any number of threads, keys and addresses.
* `StatisticsInvCorrect`: `Spec => []StatisticsInv`, and from it
  `ImplementsAtomicCountersCorrect`: `Statistics` implements `AtomicCounters`.
* `ErrorsFollowOperationsCorrect`, `ActiveEntriesPrintedCorrect` and
  `TotalsCoverRowsCorrect`, for any finite set of threads and any number of entries.
* `HoldersNeverWaitCorrect` and `HoldersInsideCorrect`: whoever holds a mutex of the
  statistics, or a lock of the table, is past waiting, and no call returns with one.
  So threads cannot wait for each other in a circle; that a thread which waits gets
  its turn in the end is the liveness the runs check.
* `CalledIsLibcCorrect`, under `Usual`: libc is opened by its name, nothing is called
  before the constructor, and `dlopen` of libc gives every hook the same answer.
  Section 4 says what happens otherwise.
* `CalledIsSetCorrect`: if nothing is called before the constructor, and whatever
  libc's name is and `dlopen` answers, no handler calls through a null pointer.
* `HandlersAfterConstructionCorrect`, `TypeOKCorrect`, `CallsAccountedCorrect`,
  `ReportsCoverCallsCorrect` and `CostsKnownCorrect` of `PosixFileSystem`, for every
  set of functions, flags, buffer sizes and widths of `size_t` and `int`, and whatever
  threads call at whatever moment of the process.

`HeldFilesRegistered` is not inductive: that the descriptor a handler is about to
return is registered depends on what other handlers may do to its entry between
the registration and the return, hence on who owns the number. `IInv` adds
`HandleOwnership` (every open handle is with the application, with one handler that
made it or with one that closes it), `StepOK` (what a step knows of its own
call), `ClosedUnknown` (nothing is known of handles that are not open),
`MadeRegistered` (a handle on its way to the application is on the file it was
opened on, and registered once the table step is done) and `PickFollowsFile` (the
pointer and the workflow of a call in progress belong to the file of its
descriptor). The argument: `UpdateTable` changes the entry of the handle its
handler made, of a stream, or of two duplicated descriptors, and no other
(`UpdateKeepsTracked`); a handle that stays open keeps its file
(`OpenHandlesKeepFile`); so what is registered stays so (`OpenHandlesStay`), and a
pick on it yields only valid workflows or only the invalid one (`PickIsUniform`).
The lemmas `BeginEffect` ... `StatisticsEffect` say once what each step does to its
own call, so the later proofs do not expand the actions again.

`OnlyRegisteredWorkflows` needs to know what a handler has picked (`PicksOK`): between
the pick and the request it holds a registered workflow or the invalid one, since
even a pick by whatever is read through a pointer to a destroyed entry selects among
the workflows of a mount point, or none; what is enforced is then registered.

`ClosedHandlesForgotten` speaks of handles no call works on; `ClosedInv` says of every
closed handle why it may have an entry (`EntriesJustified`): lazy removal leaves it,
or the handler that closed the handle is at its table step. That a number cannot be
opened, registered and closed again unnoticed in between is `HandleOwnership`.

`CallsCountedOnce` speaks of classes at rest. `CountsInv` counts what handlers in
progress owe their class, as sets of threads: executions, failures, operations
(`OwedExecuted`, `OwedFailed`, `OwedOperations`). Counters and debts add up to the
ledger, not as numbers but modulo the width of the counters (`Congruent`), so an
overflow between two steps does no harm; only in a class nobody is in are the debts
zero and the counters equal. `SyncsClaim` is there because a sync claims to be
enforced and never asked. The sets are finite because only finitely many threads can
have begun a call.

`ThrottledFilesProofs` takes each step of a handler to a step of the promise or to a
stutter: picking stutters or decides, the table and the statistics are after the
call and stutter. `IInv` is needed twice: a decision on a descriptor is the one its
file calls for (`DecisionFollowsFile`), and what the promise calls the mount of a
handle changes only with the call that opens or closes it (`HeldFilesRegistered`).

`LocksInv` started as mutual exclusion and had to be told three more things: a thread
is at a step of the operation it called, and its arguments passed the checks
(`OperationsOK`); an entry has one owner, a key or the thread that extracted its
node, for which the old key stays free until it inserts it (`EntriesOwned`); and
what a report has seen is still there (`SeenCurrent`), because no writer runs
meanwhile. In the refinement `extract` stutters, since the abstract table still
shows the node at its old key, and `insert` is the whole replacement.

`StatisticsInv` is inductive as it stands: a thread between its load and its store
holds the entry's mutex, and what it loaded is still what the counter holds, since
nobody stores without the mutex. That is all the refinement needs: a store adds to the value of that instant, a load used
later is of an instant inside the call, and every other step stutters.

`ErrorsFollowOperations` is not: it does not say why an error added later finds its
operation counted. `OrderInv` says what a thread may still have to do
(`UpdateShape`: one of the updates of the source or a rest of one) and counts
debts: the errors of an entry and the threads that still owe it one are together at
most its operations (`ErrorsOwed`). Counting an operation may begin a debt, counting
the error pays it.

`PrintInv` says of every entry that had a count when `to_string` was called that it has
been copied, or that the rest of the call will copy it (`WillPrint`): the rest
contains the copy, or a test of the entry that will find a count, because the sum of
what it has looked at is positive already or because one of the counters it will
still look at is. Counters only grow, so other threads cannot undo it; an access
of the report moves the witness from the counter to the sum, and the test from the
sum to the copy.

`TotalsCoverRows` compares a total, read one counter at a time after the rows, with the
sum of the rows. `TotalsInv` says of a table that is being made that each total lies
between two sums over the entries already added to it: what the rows show of them and
what the counters hold of them now (`Between`). Counters only grow, so other threads
move the upper sum up; a step of the report adds one entry, which the rest of the
call names exactly once (`TableRest`), to all three. When the call is done every
entry has been added. The sums are folds of the community modules, and what a fold
computes takes an induction. The induction theorems of the library have operators as
parameters, but that the strict subsets of a finite set are well founded is a fact
about sets: `NumberInduction` and `SubsetInduction` are derived from it with a set in
the place of the predicate, and with them that a sum exists at every size
(`IterationsExist`), is monotone (`SumMonotone`) and grows by what one summand grows
(`SumWithMore`).

`HoldersNeverWait` needs to know that a call takes at most one mutex before the rest of
its accesses, and what is left of `get_statistic_entry` while `m_stats_mutex` is held:
the copy and the release, neither of which takes a mutex (`HolderInv`). If the copy
constructor took the mutex of its source, as the torn copy suggests, this is the
property to look at again. `HoldersInside` is inductive next to `LocksInv`.

`HookInv` of `DlsymHookLibcProofs` says that a pointer or the library handle is null or
libc's, and what a thread knows at each step of its hook: if it looks the symbol up
through the handle, because it saw one or because its `dlopen` succeeded, the handle
is libc's and stays so, whoever writes it again; otherwise it looks the symbol up with
`RTLD_NEXT`. `PointersInv` does without the handle: a lookup always finds something, a
call is reached only past a pointer that is set, and the constructor, which resets
the pointers, runs before any hook.

`LoadInv` of `PosixFileSystemProofs` ties `m_ldp_loaded` to the stage of the process:
while the globals are constructed it is false, or null before its own construction,
where a routed wrapper does not return. So no call is routed to a handler
(`RouteWhileLoading`), and a call keeps the side it was routed to.

`AccountInv` adds that what a call in progress has done so far is something its
function does (`CallsAccountable`): enforced only where the handler submits, a result
the function can have. The lemmas before it work through the tables of
`PosixPassthrough`: the test each function makes of its result is the test of its
failure (`TestsAreRight`), so what a passthrough and an update function add is what
the call was (`PassedAddsExpected`, `HandledAddsExpected`), but for the exceptions of
section 4. An entry then changes by as much as the ledger does, `open64` with its
variadic form taken together. `ReportsInv` adds that what a report must hold (for the handlers what was
counted when the process began to exit, for the passthrough when the destructor
before its own returned) is in the counters, and, once the destructor of the object
has begun, in its report (`DueCounted`): counters are natural numbers and only grow.

`CostsKnown` states where the documented cost holds and where it does not, since
`CostIsSize` itself is false. A size keeps its value through both conversions exactly if
it is at most the largest `int`, or so close to the largest `size_t` that the sign
extension gives back the bits that were cut off, which needs the width of `int` to
divide that of `size_t` (`Conversions`, `DataCosts`).

Only model-checked:

* `ReadersReturn`, `WritersReturn`, `CallsReturn` and `HooksReturn`: liveness under
  fairness, and `ENABLED`, are out of the prover's reach.
* The six violations of section 4.

## 6. The plan

Done: all modules above, the abstract specifications and their refinements,
liveness of the locks, and the theorems of section 5. Every safety property,
action property and refinement that a passing run checks is stated by a theorem; its liveness
properties are not. Worth doing if the code changes:

1. A fix of the torn copy (`get_statistic_entry` under the mutex of the entry): the
   refinement of `AtomicCounters` can then promise the counters of an entry together.
2. A fix of the late removal in `fclose`: `HeldStreamsRegistered` joins `IInv`.

## Not modelled

* `Log`, and the wording and layout of reports: output only.
* PAIO and the controller: external; a request to the stage is a step that returns.
  The constructors of `DataPlaneStage` try to reach the controller and then mark the
  stage ready; `m_ldp_loaded` is set after that, which `PosixFileSystem` has. The
  default constructor, which creates no PAIO instance, is used by nothing in the
  library.
* `set_statistic_collection` and the library handle of `PosixPassthrough`: nothing
  calls or reads them.
* Names of stages and report files, and the arguments of calls beyond the handle, the
  path and the buffer size.
* The vendored headers, and the benchmarks and tests (drivers of the library).
