-------------------------- MODULE MountPointTableLocks -------------------------
(***************************************************************************)
(* The operations of MountPointTable with their locks: m_fd_shared_lock    *)
(* and m_fptr_shared_lock, two shared_timed_mutexes, taken exclusively by  *)
(* create, remove and replace and shared by get and fd_table_to_string.    *)
(* The body of an operation is not atomic here: a replacement is an        *)
(* extraction and an insertion, a creation may be two steps, and a report  *)
(* visits one entry at a time.                                             *)
(*                                                                         *)
(* An operation on a key that is not valid returns before it takes a lock  *)
(* and is left out.  So is fp_table_to_string, which takes the lock of the *)
(* other table and is called by nothing in the library.                    *)
(***************************************************************************)
EXTENDS MountPointTable, FiniteSets

CONSTANTS
    Threads,
    Operations, \* what each thread calls
    Nobody      \* no exclusive owner

Names == {"create", "get", "remove", "replace", "print_fds"}

ASSUME LocksAssumption ==
    /\ Operations \in [Threads -> SUBSET Names]
    /\ Nobody \notin Threads

VARIABLES
    writer,     \* the exclusive owner of each lock
    readers,    \* its shared owners
    op,         \* the operation each thread has called
    at,         \* the step it is about to take
    node,       \* replace: the entry it has extracted
    seen,       \* to_string: the entries it has visited
    answer,     \* what get_mount_point_entry found
    report      \* what fd_table_to_string returns

lockVars == <<writer, readers>>
vars == <<table, heap, writer, readers, op, at, node, seen, answer, report>>

Locks == {"m_fd_shared_lock", "m_fptr_shared_lock"}

TableOf(k) == IF k \in Fds THEN Fds ELSE FilePtrs

\* The lock an operation takes: that of the table of its key.
LockOf(o) == IF o.key \in Fds THEN "m_fd_shared_lock" ELSE "m_fptr_shared_lock"

\* Mutant: replace takes its lock shared.
replace_is_reader(o) == o.do \in {"create", "remove"}

\* The operations that take it exclusively.
IsWriter(o) == o.do \in {"create", "remove", "replace"}

Operation(do, key, new, mp) == [do |-> do, key |-> key, new |-> new, mp |-> mp]

NoOperation == Operation("get", -1, -1, "kNone")

--------------------------------------------------------------------------------

\* A thread calls an operation; streams are never replaced.
Begin(t) ==
    /\ at[t] = "idle"
    /\ at' = [at EXCEPT ![t] = "acquire"]
    /\ \E do \in Operations[t], k \in {j \in Keys : IsValidKey(j)},
          new \in {j \in Fds : IsValidKey(j)}, mp \in {"kNone", "kRemote"} :
        /\ do \in {"replace", "print_fds"} => k \in Fds
        /\ do # "replace" => new = CHOOSE j \in Fds : IsValidKey(j)
        /\ do # "create" => mp = "kNone"
        /\ op' = [op EXCEPT ![t] = Operation(do, k, new, mp)]
    /\ UNCHANGED <<tableVars, lockVars, node, seen, answer, report>>

\* The first step inside the lock.
FirstStep(o) ==
    CASE o.do = "create"  -> "emplace"
      [] o.do = "get"     -> "find"
      [] o.do = "remove"  -> "erase"
      [] o.do = "replace" -> "extract"
      [] OTHER            -> "walk"

\* Mutant: a writer does not wait for the readers.
available_to_writer(o, l) == writer[l] = Nobody

\* An exclusive owner excludes everybody, shared owners only writers.
Available(o, l) == writer[l] = Nobody /\ (IsWriter(o) => readers[l] = {})

Acquire(t) ==
    LET l == LockOf(op[t])
    IN  /\ at[t] = "acquire"
        /\ Available(op[t], l)
        /\ IF IsWriter(op[t])
           THEN /\ writer' = [writer EXCEPT ![l] = t]
                /\ UNCHANGED readers
           ELSE /\ readers' = [readers EXCEPT ![l] = @ \cup {t}]
                /\ UNCHANGED writer
        /\ at' = [at EXCEPT ![t] = FirstStep(op[t])]
        /\ UNCHANGED <<tableVars, op, node, seen, answer, report>>

Step(t, from, to) ==
    /\ at[t] = from
    /\ at' = [at EXCEPT ![t] = to]
    /\ UNCHANGED <<lockVars, op>>

\* Mutant: a creation tries again until the key is free.
emplace_until_inserted(t) ==
    /\ at[t] = "emplace"
    /\ \/ /\ table[op[t].key] = NoEntry
          /\ Step(t, "emplace", "release")
          /\ \E e \in FreeEntries :
                /\ table' = [table EXCEPT ![op[t].key] = e]
                /\ heap' = [heap EXCEPT ![e] = op[t].mp]
       \/ /\ table[op[t].key] # NoEntry
          /\ Step(t, "emplace", "emplace")
          /\ UNCHANGED tableVars
    /\ UNCHANGED <<node, seen, answer, report>>

\* emplace: the new entry goes into the table.  If the key is present it is thrown
\* away again within this step: its unique_ptr never leaves the thread, and it is not
\* modelled.
Emplace(t) ==
    /\ at[t] = "emplace"
    /\ \/ /\ table[op[t].key] = NoEntry
          /\ Step(t, "emplace", "release")
          /\ \E e \in FreeEntries :
                /\ table' = [table EXCEPT ![op[t].key] = e]
                /\ heap' = [heap EXCEPT ![e] = op[t].mp]
       \/ /\ table[op[t].key] # NoEntry
          /\ Step(t, "emplace", "assign")
          /\ UNCHANGED tableVars
    /\ UNCHANGED <<node, seen, answer, report>>

\* The assignment that follows: a second new entry replaces the old one.
Assign(t) ==
    /\ Step(t, "assign", "release")
    /\ \E e \in FreeEntries :
        /\ table' = [table EXCEPT ![op[t].key] = e]
        /\ heap' = [Destroy(heap, table[op[t].key]) EXCEPT ![e] = op[t].mp]
    /\ UNCHANGED <<node, seen, answer, report>>

Find(t) ==
    /\ Step(t, "find", "release")
    /\ answer' = [answer EXCEPT ![t] = table[op[t].key]]
    /\ UNCHANGED <<tableVars, node, seen, report>>

Erase(t) ==
    /\ Step(t, "erase", "release")
    /\ table' = [table EXCEPT ![op[t].key] = NoEntry]
    /\ heap' = Destroy(heap, table[op[t].key])
    /\ UNCHANGED <<node, seen, answer, report>>

\* Mutant: a replacement whose key is absent returns with its lock.
extract_keeps_lock(t) ==
    LET old == op[t].key
    IN  /\ Step(t, "extract", IF table[old] = NoEntry THEN "idle" ELSE "insert")
        /\ node' = [node EXCEPT ![t] = table[old]]
        /\ table' = [table EXCEPT ![old] = NoEntry]
        /\ UNCHANGED <<heap, seen, answer, report>>

\* extract takes the node out of the table; a key that is absent ends the call.
Extract(t) ==
    LET old == op[t].key
    IN  /\ Step(t, "extract", IF table[old] = NoEntry THEN "release" ELSE "insert")
        /\ node' = [node EXCEPT ![t] = table[old]]
        /\ table' = [table EXCEPT ![old] = NoEntry]
        /\ UNCHANGED <<heap, seen, answer, report>>

\* insert under the new key, or destroy the node if that key is present.
Insert(t) ==
    LET new == op[t].new
    IN  /\ Step(t, "insert", "release")
        /\ IF table[new] = NoEntry
           THEN table' = [table EXCEPT ![new] = node[t]] /\ UNCHANGED heap
           ELSE heap' = Destroy(heap, node[t]) /\ UNCHANGED table
        /\ node' = [node EXCEPT ![t] = NoEntry]
        /\ UNCHANGED <<seen, answer, report>>

Unvisited(t) ==
    {k \in TableOf(op[t].key) : table[k] # NoEntry /\ \A s \in seen[t] : s[1] # k}

\* Mutant: the walk does not get past an entry of the remote mount point.
visit_forgets_remote(t) ==
    /\ Step(t, "walk", "walk")
    /\ \E k \in Unvisited(t) :
         seen' = IF heap[table[k]] = "kRemote" THEN seen
                 ELSE [seen EXCEPT ![t] = @ \cup {<<k, heap[table[k]]>>}]
    /\ UNCHANGED <<tableVars, node, answer, report>>

\* One entry of the table, in whatever order the hash table has them.
Visit(t) ==
    /\ Step(t, "walk", "walk")
    /\ \E k \in Unvisited(t) :
         seen' = [seen EXCEPT ![t] = @ \cup {<<k, heap[table[k]]>>}]
    /\ UNCHANGED <<tableVars, node, answer, report>>

\* The end of the table.
Finish(t) ==
    /\ Step(t, "walk", "release")
    /\ Unvisited(t) = {}
    /\ report' = [report EXCEPT ![t] = seen[t]]
    /\ seen' = [seen EXCEPT ![t] = {}]
    /\ UNCHANGED <<tableVars, node, answer>>

\* The guard releases the lock and the operation returns.
Release(t) ==
    LET l == LockOf(op[t])
    IN  /\ at[t] = "release"
        /\ at' = [at EXCEPT ![t] = "idle"]
        /\ op' = [op EXCEPT ![t] = NoOperation]
        /\ writer' = IF writer[l] = t THEN [writer EXCEPT ![l] = Nobody] ELSE writer
        /\ readers' = [readers EXCEPT ![l] = @ \ {t}]
        /\ answer' = [answer EXCEPT ![t] = NoEntry]
        /\ report' = [report EXCEPT ![t] = {}]
        /\ UNCHANGED <<tableVars, node, seen>>

--------------------------------------------------------------------------------

Init ==
    /\ TableInit
    /\ writer = [l \in Locks |-> Nobody]
    /\ readers = [l \in Locks |-> {}]
    /\ op = [t \in Threads |-> NoOperation]
    /\ at = [t \in Threads |-> "idle"]
    /\ node = [t \in Threads |-> NoEntry]
    /\ seen = [t \in Threads |-> {}]
    /\ answer = [t \in Threads |-> NoEntry]
    /\ report = [t \in Threads |-> {}]

\* What a thread does inside its lock.
Body(t) ==
    \/ Emplace(t)
    \/ Assign(t)
    \/ Find(t)
    \/ Erase(t)
    \/ Extract(t)
    \/ Insert(t)
    \/ Visit(t)
    \/ Finish(t)
    \/ Release(t)

Next == \E t \in Threads : Begin(t) \/ Acquire(t) \/ Body(t)

\* A thread inside a lock is scheduled until it releases it.  A thread that waits
\* gets the lock if it is available again and again: the rwlock below
\* shared_timed_mutex hands over to waiting readers when a writer leaves, and wakes
\* writers when the last reader leaves.  Nothing is assumed of threads that are idle.
Fairness == \A t \in Threads : WF_vars(Body(t)) /\ SF_vars(Acquire(t))

Spec == Init /\ [][Next]_vars /\ Fairness

--------------------------------------------------------------------------------

Positions ==
    {"idle", "acquire", "emplace", "assign", "find", "erase", "extract", "insert", "walk",
     "release"}

OperationType == [do : Names, key : Keys \cup {-1}, new : Fds \cup {-1}, mp : MountPoints]

\* The type of every variable.
TypeOK ==
    /\ TableTypeOK
    /\ writer \in [Locks -> Threads \cup {Nobody}]
    /\ readers \in [Locks -> SUBSET Threads]
    /\ op \in [Threads -> OperationType]
    /\ at \in [Threads -> Positions]
    /\ node \in [Threads -> EntryIds \cup {NoEntry}]
    /\ seen \in [Threads -> SUBSET (Keys \X MountPoints)]
    /\ answer \in [Threads -> EntryIds \cup {NoEntry}]
    /\ report \in [Threads -> SUBSET (Keys \X MountPoints)]

Inside(t) == at[t] \notin {"idle", "acquire"}

\* The locks: a writer is alone, and whoever is inside an operation holds its lock
\* in the mode the operation takes it.
LocksHeld ==
    /\ \A l \in Locks : writer[l] # Nobody => readers[l] = {}
    /\ \A t \in Threads : Inside(t) =>
        IF IsWriter(op[t]) THEN writer[LockOf(op[t])] = t ELSE t \in readers[LockOf(op[t])]

\* A thread inside an operation is at a step of that operation, and the arguments
\* have passed the checks the operation starts with.
StepOf ==
    [create |-> {"emplace", "assign"}, get |-> {"find"}, remove |-> {"erase"},
     replace |-> {"extract", "insert"}, print_fds |-> {"walk"}]

OperationsOK ==
    \A t \in Threads : at[t] # "idle" =>
        LET o == op[t]
        IN  /\ o.key \in Keys /\ IsValidKey(o.key)
            /\ o.do \in {"replace", "print_fds"} => o.key \in Fds
            /\ o.do = "replace" => o.new \in Fds /\ IsValidKey(o.new)
            /\ at[t] \in StepOf[o.do] \cup {"acquire", "release"}

\* Every entry has one owner: a key, or the thread that extracted it, which puts it
\* nowhere else while the old key is free.
EntriesOwned ==
    /\ \A k \in Keys : table[k] # NoEntry => heap[table[k]] # Freed
    /\ \A j, k \in Keys : table[j] = table[k] /\ table[j] # NoEntry => j = k
    /\ \A t \in Threads : at[t] = "insert" =>
        /\ node[t] # NoEntry /\ heap[node[t]] # Freed
        /\ table[op[t].key] = NoEntry
        /\ \A k \in Keys : table[k] # node[t]

\* What a report has seen so far is still in the table.
SeenCurrent ==
    \A t \in Threads : \A s \in seen[t] :
        /\ at[t] = "walk"
        /\ \E k \in Fds : table[k] # NoEntry /\ s = <<k, heap[table[k]]>>

\* The inductive invariant.
LocksInv == TypeOK /\ LocksHeld /\ OperationsOK /\ EntriesOwned /\ SeenCurrent

--------------------------------------------------------------------------------
(* Properties.                                                             *)

\* The table as it is for everybody else: an extracted node still counts as the
\* entry of its old key, until it is inserted.
SettledTable ==
    [k \in Keys |->
        IF \E t \in Threads : at[t] = "insert" /\ op[t].key = k
        THEN node[CHOOSE t \in Threads : at[t] = "insert" /\ op[t].key = k]
        ELSE table[k]]

Atomic == INSTANCE AtomicTable WITH table <- SettledTable

\* The operations are atomic, as MountPointTable models them, although their bodies
\* are several steps: no lookup sees a descriptor missing while it is being moved
\* and no printed table mixes two states.
ImplementsAtomicTable == Atomic!Spec

\* A lock is held by nobody but the threads inside an operation on its table: no
\* early return keeps one, a thread that waits for a lock holds none, not even that of
\* the other table, and so whoever waits does so for a thread that can go on.
HoldersInside ==
    \A l \in Locks, t \in Threads :
        writer[l] = t \/ t \in readers[l] => Inside(t) /\ LockOf(op[t]) = l

Reading(t) == at[t] # "idle" /\ ~IsWriter(op[t])
Writing(t) == at[t] # "idle" /\ IsWriter(op[t])

\* A lookup or a report always returns, however many writers there are.
ReadersReturn == \A t \in Threads : Reading(t) ~> at[t] = "idle"

\* An operation that changes a table returns if its lock is free of readers again
\* and again; overlapping readers may keep a writer waiting forever.
WritersReturn ==
    (\A l \in Locks : []<>(readers[l] = {}))
        => \A t \in Threads : Writing(t) ~> at[t] = "idle"

================================================================================
