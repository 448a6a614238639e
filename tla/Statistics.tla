------------------------------- MODULE Statistics ------------------------------
(***************************************************************************)
(* A Statistics object and its StatisticEntry objects, used by several     *)
(* threads.  Every entry has a mutex (m_lock) that each increment and each *)
(* read of one counter takes and releases again; m_stats_mutex is taken by *)
(* get_statistic_entry alone.  No lock spans the counters of an entry, and *)
(* the copy constructor of StatisticEntry takes none at all: its reads     *)
(* race with the increments.  Each of them is one aligned 64-bit load, so  *)
(* it yields the value before or after a store, but a build may make the   *)
(* four loads in any order (CopyOrders).                                   *)
(*                                                                         *)
(* A call is the sequence of accesses it makes.  A locked access is two    *)
(* steps, Enter (take the mutex, load the counter) and Leave (store the    *)
(* sum or use the value, release), so another thread may run in between.   *)
(***************************************************************************)
EXTENDS Integers, Sequences, FiniteSetsExt

CONSTANTS
    Threads,
    Updaters,   \* threads that run handlers
    Printers,   \* threads that call to_string or get_statistic_entry
    Tabulators, \* threads that call tabulate (the destructors do)
    Size,       \* m_stats_size
    Bytes,      \* byte counts of calls
    CopyOrders, \* the orders in which a build may load the counters it copies
    MaxUpdates, \* how many calls each updater accounts
    MaxReports, \* how many reports each other thread makes
    Nobody      \* owner of a free mutex

\* A value no counter has: nothing loaded, nothing read.
Unread == -1

Columns == {"operation", "byte", "error", "bypass"}

ASSUME StatisticsAssumption ==
    /\ Updaters \cup Printers \cup Tabulators = Threads
    /\ IsFiniteSet(Threads)
    /\ Size \in Nat \ {0}
    /\ Bytes \subseteq Nat
    /\ Updaters \cap (Printers \cup Tabulators) = {}
    /\ MaxUpdates \in Nat /\ MaxReports \in Nat
    /\ Nobody \notin Threads
    /\ CopyOrders \subseteq [1 .. 4 -> Columns]
    /\ \A o \in CopyOrders : Columns \subseteq {o[i] : i \in 1 .. 4}

Entries == 0 .. Size - 1
StatsMutex == Size
Mutexes == 0 .. Size

VARIABLES
    counters,   \* m_statistic_entries: the four counters of each entry
    owner,      \* who holds each m_lock, and m_stats_mutex
    work,       \* the accesses a thread still has to make to finish its call
    loaded,     \* the value a thread loaded, while it is inside a locked access
    probe,      \* to_string: the sum of the counters it has looked at
    rows,       \* the values a report or a copy has taken
    totals,     \* the totals of tabulate
    active,     \* history: entries with a count when to_string was called
    calls       \* how many calls each thread has made

vars == <<counters, owner, work, loaded, probe, rows, totals, active, calls>>

--------------------------------------------------------------------------------
(* The calls, as sequences of accesses.                                    *)

Access(do, e, c, n) == [do |-> do, entry |-> e, column |-> c, by |-> n]

Increment(e, c, n) == Access("increment", e, c, n)

\* The position of an operation in m_statistic_entries.
position(operation) == operation % Size

\* Mutant: the error is counted before the operation it belongs to.
update_error_first(e, operations, bytes, errors) ==
    <<Increment(e, "error", errors), Increment(e, "operation", operations),
      Increment(e, "byte", bytes)>>

\* update_statistic_entry with an error, without one, and for a bypassed call.
update_statistic_entry_error(e, operations, bytes, errors) ==
    <<Increment(e, "operation", operations), Increment(e, "byte", bytes),
      Increment(e, "error", errors)>>

update_statistic_entry(e, operations, bytes) ==
    <<Increment(e, "operation", operations), Increment(e, "byte", bytes)>>

update_bypassed_statistic_entry(e, n) == <<Increment(e, "bypass", n)>>

\* The copy constructor: the four counters, loaded in the order o of the build.
StatisticEntry_copy(e, o) == [i \in 1 .. 4 |-> Access("copy", e, o[i], 0)]

\* Mutant: the copy takes the mutex of the entry while m_stats_mutex is held.
copy_locked(e, o) ==
    <<Access("lock", StatsMutex, "operation", 0), Access("row", e, "operation", 0),
      Access("row", e, "byte", 0), Access("unlock", StatsMutex, "operation", 0)>>

get_statistic_entry(e, o) ==
    <<Access("lock", StatsMutex, "operation", 0)>> \o StatisticEntry_copy(e, o)
        \o <<Access("unlock", StatsMutex, "operation", 0)>>

\* Mutant: an entry without handled calls is left out.
probe_operations_only(e) ==
    <<Access("probe", e, "operation", 0), Access("probe", e, "operation", 0),
      Access("probe", e, "operation", 0), Access("keep", e, "operation", 0)>>

\* What to_string reads of an entry to decide whether to print it.
probe_entry(e) ==
    <<Access("probe", e, "operation", 0), Access("probe", e, "error", 0),
      Access("probe", e, "bypass", 0), Access("keep", e, "operation", 0)>>

\* One entry after the other, each with four accesses.
EachEntry(accesses(_)) ==
    [i \in 1 .. 4 * Size |-> accesses((i - 1) \div 4)[((i - 1) % 4) + 1]]

to_string == EachEntry(probe_entry)

\* The sums are of unbounded numbers here: the code adds uint64_t to a signed long,
\* which is the same below 2^63.
aggregate_counters(c) == [i \in 1 .. Size |-> Access("sum", i - 1, c, 0)]

table_row(e) ==
    <<Access("row", e, "operation", 0), Access("row", e, "byte", 0),
      Access("row", e, "error", 0), Access("row", e, "bypass", 0)>>

table_totals ==
    aggregate_counters("operation") \o aggregate_counters("byte")
        \o aggregate_counters("error") \o aggregate_counters("bypass")

\* Mutant: the totals are computed before the rows.
totals_first == table_totals \o EachEntry(table_row)

tabulate == EachEntry(table_row) \o table_totals

--------------------------------------------------------------------------------
(* Calling.                                                                *)

MaxCalls(t) == IF t \in Updaters THEN MaxUpdates ELSE MaxReports

Call(t, accesses) ==
    /\ work[t] = <<>>
    /\ calls[t] < MaxCalls(t)
    /\ calls' = [calls EXCEPT ![t] = @ + 1]
    /\ work' = [work EXCEPT ![t] = accesses]

NoRow == [e \in Entries |-> [c \in Columns |-> Unread]]

Report(t, accesses, sum, tested) ==
    /\ Call(t, accesses)
    /\ rows' = [rows EXCEPT ![t] = NoRow]
    /\ totals' = [totals EXCEPT ![t] = [c \in Columns |-> sum]]
    /\ probe' = [probe EXCEPT ![t] = 0]
    /\ active' = [active EXCEPT ![t] = tested]
    /\ UNCHANGED <<counters, owner, loaded>>

\* A handler accounts a call: enforced, enforced and failed (0 bytes), bypassed.
Update(t) ==
    /\ t \in Updaters
    /\ \E e \in Entries :
        \/ \E b \in Bytes : Call(t, update_statistic_entry(position(e), 1, b))
        \/ Call(t, update_statistic_entry_error(position(e), 1, 0, 1))
        \/ Call(t, update_bypassed_statistic_entry(position(e), 1))
    /\ UNCHANGED <<counters, owner, loaded, probe, rows, totals, active>>

CallGetEntry(t) ==
    /\ t \in Printers
    /\ \E e \in Entries, o \in CopyOrders :
        Report(t, get_statistic_entry(position(e), o), Unread, {})

CallToString(t) ==
    /\ t \in Printers
    /\ Report(t, to_string, Unread,
              {e \in Entries : \E c \in Columns \ {"byte"} : counters[e][c] > 0})

CallTabulate(t) == t \in Tabulators /\ Report(t, tabulate, 0, {})

--------------------------------------------------------------------------------
(* The accesses.                                                           *)

Pending(t, do) == work[t] # <<>> /\ Head(work[t]).do \in do

\* Mutant: the increments do not take the mutex.
lock_reads_only(a) == a.do \in {"probe", "row", "sum"}

\* The accesses that hold the mutex of their entry.
Locks(a) == a.do \in {"increment", "probe", "row", "sum"}

Enter(t) ==
    LET a == Head(work[t])
    IN  /\ Pending(t, {"increment", "probe", "row", "sum"})
        /\ loaded[t] = Unread
        /\ Locks(a) => owner[a.entry] = Nobody
        /\ owner' = IF Locks(a) THEN [owner EXCEPT ![a.entry] = t] ELSE owner
        /\ loaded' = [loaded EXCEPT ![t] = counters[a.entry][a.column]]
        /\ UNCHANGED <<counters, work, probe, rows, totals, active, calls>>

Done(t) == work' = [work EXCEPT ![t] = Tail(@)]

\* Mutant: a report never gets past a counter that is still zero.
retry_zero(t) ==
    work' = IF loaded[t] = 0 /\ Pending(t, {"probe", "row", "sum"}) THEN work
            ELSE [work EXCEPT ![t] = Tail(@)]

\* The iteration goes on with the next access.
Advance(t) == Done(t)

Leave(t) ==
    LET a == Head(work[t])
    IN  /\ Pending(t, {"increment", "probe", "row", "sum"})
        /\ loaded[t] # Unread
        /\ counters' = IF a.do = "increment"
                       THEN [counters EXCEPT ![a.entry][a.column] = loaded[t] + a.by]
                       ELSE counters
        /\ probe' = IF a.do = "probe" THEN [probe EXCEPT ![t] = @ + loaded[t]] ELSE probe
        /\ rows' = IF a.do = "row" THEN [rows EXCEPT ![t][a.entry][a.column] = loaded[t]]
                   ELSE rows
        /\ totals' = IF a.do = "sum" THEN [totals EXCEPT ![t][a.column] = @ + loaded[t]]
                     ELSE totals
        /\ loaded' = [loaded EXCEPT ![t] = Unread]
        /\ owner' = IF Locks(a) THEN [owner EXCEPT ![a.entry] = Nobody] ELSE owner
        /\ Advance(t)
        /\ UNCHANGED <<active, calls>>

\* One counter of an entry that is being copied, loaded without its mutex: what it
\* holds now, even if another thread is between its load and its store.
Copy(t) ==
    LET a == Head(work[t])
    IN  /\ Pending(t, {"copy"})
        /\ rows' = [rows EXCEPT ![t][a.entry][a.column] = counters[a.entry][a.column]]
        /\ Done(t)
        /\ UNCHANGED <<counters, owner, loaded, probe, totals, active, calls>>

\* to_string copies the entry it has looked at if any of its counters was positive.
Keep(t) ==
    LET e == Head(work[t]).entry
    IN  /\ Pending(t, {"keep"})
        /\ \/ /\ probe[t] > 0
              /\ \E o \in CopyOrders :
                    work' = [work EXCEPT ![t] = StatisticEntry_copy(e, o) \o Tail(@)]
           \/ probe[t] = 0 /\ Done(t)
        /\ probe' = [probe EXCEPT ![t] = 0]
        /\ UNCHANGED <<counters, owner, loaded, rows, totals, active, calls>>

\* The unique_lock of get_statistic_entry.
LockStatistics(t) ==
    /\ Pending(t, {"lock"})
    /\ owner[StatsMutex] = Nobody
    /\ owner' = [owner EXCEPT ![StatsMutex] = t]
    /\ Done(t)
    /\ UNCHANGED <<counters, loaded, probe, rows, totals, active, calls>>

UnlockStatistics(t) ==
    /\ Pending(t, {"unlock"})
    /\ owner' = [owner EXCEPT ![StatsMutex] = Nobody]
    /\ Done(t)
    /\ UNCHANGED <<counters, loaded, probe, rows, totals, active, calls>>

--------------------------------------------------------------------------------

Init ==
    /\ counters = [e \in Entries |-> [c \in Columns |-> 0]]
    /\ owner = [m \in Mutexes |-> Nobody]
    /\ work = [t \in Threads |-> <<>>]
    /\ loaded = [t \in Threads |-> Unread]
    /\ probe = [t \in Threads |-> 0]
    /\ rows = [t \in Threads |-> NoRow]
    /\ totals = [t \in Threads |-> [c \in Columns |-> Unread]]
    /\ active = [t \in Threads |-> {}]
    /\ calls = [t \in Threads |-> 0]

Begin(t) == Update(t) \/ CallGetEntry(t) \/ CallToString(t) \/ CallTabulate(t)

Continue(t) ==
    \/ Enter(t)
    \/ Leave(t)
    \/ Copy(t)
    \/ Keep(t)
    \/ LockStatistics(t)
    \/ UnlockStatistics(t)

Next == \E t \in Threads : Begin(t) \/ Continue(t)

\* A thread that has begun a call is scheduled until it returns.
Fairness == \A t \in Threads : WF_vars(Continue(t))

Spec == Init /\ [][Next]_vars /\ Fairness

--------------------------------------------------------------------------------

Amounts == Bytes \cup {1, 0}
AccessType ==
    [do : {"increment", "probe", "keep", "copy", "row", "sum"},
     entry : Entries, column : Columns, by : Amounts]
        \cup [do : {"lock", "unlock"}, entry : {StatsMutex}, column : Columns, by : Amounts]

\* The type of every variable.
TypeOK ==
    /\ counters \in [Entries -> [Columns -> Nat]]
    /\ owner \in [Mutexes -> Threads \cup {Nobody}]
    /\ work \in [Threads -> Seq(AccessType)]
    /\ loaded \in [Threads -> Nat \cup {Unread}]
    /\ probe \in [Threads -> Nat]
    /\ rows \in [Threads -> [Entries -> [Columns -> Nat \cup {Unread}]]]
    /\ totals \in [Threads -> [Columns -> Nat \cup {Unread}]]
    /\ active \in [Threads -> SUBSET Entries]
    /\ calls \in [Threads -> Nat]
    /\ \A t \in Threads : calls[t] <= MaxCalls(t)

Inside(t) == loaded[t] # Unread

\* Between its load and its store a thread holds the mutex of the entry, and what
\* it loaded is still what the counter holds: what the mutexes are for.
LoadedIsCurrent ==
    \A t \in Threads :
        Inside(t) =>
            LET a == Head(work[t])
            IN  /\ Pending(t, {"increment", "probe", "row", "sum"})
                /\ owner[a.entry] = t
                /\ loaded[t] = counters[a.entry][a.column]

\* The inductive invariant.
StatisticsInv == TypeOK /\ LoadedIsCurrent

--------------------------------------------------------------------------------
(* Properties.                                                             *)

Atomic == INSTANCE AtomicCounters

\* Although a call takes and releases a mutex per counter and copies take none,
\* every counter by itself is an atomic register: no increment is lost, and each
\* number of a report is the value its counter had in one instant of that report.
\* (The four numbers of a copy together are another matter: StatisticsSnapshots.)
ImplementsAtomicCounters == Atomic!Spec

\* A call is accounted under three separate acquisitions of the mutex: still, in
\* no state do the counters of an entry show more errors than operations, because
\* every call counts its operation first.
ErrorsFollowOperations ==
    \A e \in Entries : counters[e]["error"] <= counters[e]["operation"]

Sum(f) == MapThenSumSet(LAMBDA e : f[e], Entries)

\* A table printed while handlers run: each total is at least the sum of the rows
\* above it and at most what has been counted by now, because the totals are read
\* after the rows.
TotalsCoverRows ==
    \A t \in Threads, c \in Columns :
        work[t] = <<>> /\ totals[t][c] # Unread =>
            /\ Sum([e \in Entries |-> rows[t][e][c]]) <= totals[t][c]
            /\ totals[t][c] <= Sum([e \in Entries |-> counters[e][c]])

\* Every entry that had a call, an error or a bypassed call when to_string was
\* called is printed, although the test reads three counters under three
\* acquisitions while other threads count.
ActiveEntriesPrinted ==
    \A t \in Threads :
        work[t] = <<>> => \A e \in active[t] : rows[t][e]["operation"] # Unread

\* Whoever holds a mutex, that of an entry or m_stats_mutex, is past waiting: its
\* next step takes none, and no call ends with a mutex it has not released.  So
\* threads never wait for each other in a circle.
HoldersNeverWait ==
    \A m \in Mutexes, t \in Threads : owner[m] = t =>
        Inside(t) \/ Pending(t, {"copy", "unlock"})

\* Every update and every report returns: no thread waits for a mutex forever,
\* whatever the others do, once those have made their calls.
CallsReturn == \A t \in Threads : work[t] # <<>> ~> work[t] = <<>>

================================================================================
