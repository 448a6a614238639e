---------------------------- MODULE MountPointTable ----------------------------
(***************************************************************************)
(* The stage's MountPointTable: which workflows are registered for which   *)
(* mount point, how a request picks one, and the two hash tables that      *)
(* remember on which mount point an open file descriptor or FILE* lives.   *)
(*                                                                         *)
(* The values of the tables are unique_ptrs.  The model keeps the pointer  *)
(* (table) apart from the object it owns (heap), because                   *)
(* get_mount_point_entry hands the raw pointer out and releases its lock:  *)
(* the object may be destroyed, and its address reused, before the caller  *)
(* looks at it.                                                            *)
(*                                                                         *)
(* Each operator below is the body of one critical section of              *)
(* m_fd_shared_lock or m_fptr_shared_lock, hence one atomic step.          *)
(***************************************************************************)
EXTENDS Integers

CONSTANTS
    Fds,            \* file descriptor numbers the kernel can hand out
    FilePtrs,       \* addresses of FILE objects
    StdStreams,     \* the addresses of stdin, stdout and stderr
    NullPtr,        \* nullptr
    EntryIds,       \* addresses a MountPointEntry can be allocated at
    NoEntry,        \* no such key in a table
    Freed,          \* an address that holds no MountPointEntry
    Paths,          \* path names
    RemotePaths,    \* those in which option_default_remote_mount_point occurs
    NumWorkflows,   \* option_padll_workflows(): the padll_workflows variable
    Differentiation,     \* option_mount_point_differentiation_enabled
    SelectByMetadataUnit \* option_select_workflow_by_metadata_unit

Keys == Fds \cup FilePtrs

\* The largest number of workflows whose identifiers, computed in an int as
\* i * 1000, do not overflow.
MaxWorkflows == 2147483

\* The number of workflows is positive: option_padll_workflows throws otherwise.
ASSUME TableAssumption ==
    /\ Fds \subseteq Nat
    /\ Fds \cap FilePtrs = {}
    /\ StdStreams \subseteq FilePtrs
    /\ NullPtr \notin Keys \cup {-1, 0}
    /\ FilePtrs \cap {-1, 0} = {}
    /\ NoEntry \notin EntryIds
    /\ RemotePaths \subseteq Paths
    /\ NumWorkflows \in 1 .. MaxWorkflows
    /\ Differentiation \in BOOLEAN
    /\ SelectByMetadataUnit \in BOOLEAN

MountPoints == {"kNone", "kLocal", "kRemote"}

ASSUME FreedAssumption == Freed \notin MountPoints

VARIABLES
    table,  \* m_file_descriptors_table and m_file_ptr_table: key -> unique_ptr
    heap    \* the MountPointEntry (its m_mount_point) at each address

tableVars == <<table, heap>>

--------------------------------------------------------------------------------
(* Workflows.                                                              *)

\* static_cast<uint32_t>(-1), "no workflow".
InvalidWorkflow == -1

\* The vectors MountPointWorkflows fills in.
default_mount_point_workflows == {1000, 2000, 3000, 4000, 5000, 6000}
default_remote_mount_point_workflows == {i * 1000 : i \in 1 .. NumWorkflows}

\* m_mount_point_workflows once initialize() ran: only one of the mount point
\* types is ever registered; an unregistered one has no workflow.
registered_workflows(mountPoint) ==
    IF mountPoint # (IF Differentiation THEN "kRemote" ELSE "kNone") THEN {}
    ELSE IF Differentiation THEN default_remote_mount_point_workflows
         ELSE default_mount_point_workflows

\* The identifiers the call may return: any registered one (m_prng chooses, and
\* whatever a racing m_prng yields is reduced modulo the number of workflows),
\* or the invalid one if the type is not registered.
select_workflow_from_mountpoint(mountPoint) ==
    IF registered_workflows(mountPoint) = {} THEN {InvalidWorkflow}
    ELSE registered_workflows(mountPoint)

\* Not implemented in the code: always the invalid identifier.
select_workflow_from_metadata_unit == {InvalidWorkflow}

\* A substring search for the remote mount point, nothing else.
extract_mount_point_from_path(path) ==
    IF path \in RemotePaths THEN "kRemote" ELSE "kNone"

extract_mount_point(path) ==
    IF Differentiation THEN extract_mount_point_from_path(path) ELSE "kNone"

\* pick_workflow_id of a path and, once its mount point is known, of an entry.
pick_workflow_id(mountPoint) ==
    IF SelectByMetadataUnit THEN select_workflow_from_metadata_unit
    ELSE select_workflow_from_mountpoint(mountPoint)

\* The identifier close() falls back to: it ignores the metadata unit option.
pick_workflow_id_by_force ==
    select_workflow_from_mountpoint(IF Differentiation THEN "kRemote" ELSE "kNone")

--------------------------------------------------------------------------------
(* The tables.                                                             *)

is_file_descriptor_valid(fd) == fd > 2

is_file_pointer_valid(fptr) == fptr \notin {NullPtr} \cup StdStreams

\* The check each operation on a table starts with.
IsValidKey(k) ==
    IF k \in FilePtrs \cup {NullPtr} THEN is_file_pointer_valid(k)
    ELSE is_file_descriptor_valid(k)

\* make_unique: an address that holds no entry.
FreeEntries == {e \in EntryIds : heap[e] = Freed}

\* Destroying the object a unique_ptr owns (nothing to do for an empty one).
Destroy(h, e) == [a \in EntryIds |-> IF a = e THEN Freed ELSE h[a]]

\* Mutant: emplace alone, without the assignment that follows a failed insertion.
create_without_replacing(k, mountPoint) ==
    IF ~IsValidKey(k) \/ table[k] # NoEntry THEN UNCHANGED tableVars
    ELSE \E e \in FreeEntries :
            /\ table' = [table EXCEPT ![k] = e]
            /\ heap' = [heap EXCEPT ![e] = mountPoint]

\* Mutant: whatever libc returned is registered, the -1 of a failed open as well.
register_unchecked(k, mountPoint) ==
    \E e \in FreeEntries :
        /\ table' = [x \in Keys \cup {k} |-> IF x = k THEN e ELSE table[x]]
        /\ heap' = [IF k \in Keys THEN Destroy(heap, table[k]) ELSE heap EXCEPT ![e] = mountPoint]

\* Emplace the entry; if the key is present, assign a new object over the old
\* one, which is destroyed after the new one was allocated.  (The object emplace
\* built in vain is gone by then: it never leaves its unique_ptr and is not modelled.)
create_mount_point_entry(k, mountPoint) ==
    IF ~IsValidKey(k) THEN UNCHANGED tableVars
    ELSE \E e \in FreeEntries :
            /\ table' = [table EXCEPT ![k] = e]
            /\ heap' = [Destroy(heap, table[k]) EXCEPT ![e] = mountPoint]

\* Mutant: descriptors are looked up in the table of the streams.
get_in_wrong_table(k) == IF IsValidKey(k) /\ k \in FilePtrs THEN table[k] ELSE NoEntry

\* The raw pointer the caller gets, NoEntry if the key is not registered.
get_mount_point_entry(k) == IF IsValidKey(k) THEN table[k] ELSE NoEntry

\* What dereferencing that pointer later yields: the mount point of the object
\* that is there now, or anything (no member of the enumeration included) once
\* the object was destroyed.
get_mount_point(e) ==
    IF heap[e] # Freed THEN {heap[e]} ELSE MountPoints \cup {"garbage"}

\* Mutant: the removal is skipped.
remove_nothing(k) == UNCHANGED tableVars

remove_mount_point_entry(k) ==
    IF ~IsValidKey(k) THEN UNCHANGED tableVars
    ELSE /\ table' = [table EXCEPT ![k] = NoEntry]
         /\ heap' = Destroy(heap, table[k])

\* Mutant: the entry is copied to the new key and kept under the old one.
replace_by_copying(old, new) ==
    IF ~IsValidKey(old) \/ ~IsValidKey(new) \/ table[old] = NoEntry
    THEN UNCHANGED tableVars
    ELSE /\ table' = [table EXCEPT ![new] = table[old]]
         /\ UNCHANGED heap

\* Extract the node of the old key, rename it, insert it.  Insertion into an
\* unordered_map does nothing if the key is present: the node is then destroyed
\* and the entry of the new key stays what it was.  (The old key, extracted, is not.)
replace_file_descriptor(old, new) ==
    IF ~IsValidKey(old) \/ ~IsValidKey(new) \/ table[old] = NoEntry
    THEN UNCHANGED tableVars
    ELSE IF new = old \/ table[new] = NoEntry
         THEN /\ table' = [table EXCEPT ![old] = NoEntry, ![new] = table[old]]
              /\ UNCHANGED heap
         ELSE /\ table' = [table EXCEPT ![old] = NoEntry]
              /\ heap' = Destroy(heap, table[old])

--------------------------------------------------------------------------------

TableInit ==
    /\ table = [k \in Keys |-> NoEntry]
    /\ heap = [e \in EntryIds |-> Freed]

TableTypeOK ==
    /\ table \in [Keys -> EntryIds \cup {NoEntry}]
    /\ heap \in [EntryIds -> MountPoints \cup {Freed}]

================================================================================
