------------------------- MODULE LdPreloadedPosixProofs ------------------------
(***************************************************************************)
(* Proofs about LdPreloadedPosix, for any number of threads, descriptors,  *)
(* streams, paths and workflows.                                           *)
(***************************************************************************)
EXTENDS LdPreloadedPosixInv, TLAPS

--------------------------------------------------------------------------------
(* The picks and the table operations.                                     *)

\* Whatever is picked, for any mount point or a garbage one, is an identifier.
LEMMA PicksAreIntegers ==
    ASSUME NEW mp
    PROVE  pick_workflow_id(mp) \subseteq Int /\ pick_workflow_id_by_force \subseteq Int
<1>1. \A m : registered_workflows(m) \subseteq Int
  <2> SUFFICES ASSUME NEW m PROVE registered_workflows(m) \subseteq Int
    OBVIOUS
  <2>1. default_remote_mount_point_workflows \subseteq Int
    BY TableAssumption, SMT DEF default_remote_mount_point_workflows
  <2>2. default_mount_point_workflows \subseteq Int
    BY SMT DEF default_mount_point_workflows
  <2> QED
    BY <2>1, <2>2 DEF registered_workflows
<1>2. \A m : select_workflow_from_mountpoint(m) \subseteq Int
  BY <1>1 DEF select_workflow_from_mountpoint, InvalidWorkflow
<1> QED
  BY <1>2 DEF pick_workflow_id, pick_workflow_id_by_force,
              select_workflow_from_metadata_unit, InvalidWorkflow

LEMMA CreateType ==
    ASSUME TableTypeOK, NEW k, NEW mp \in MountPoints, create_mount_point_entry(k, mp)
    PROVE  TableTypeOK'
BY DEF TableTypeOK, create_mount_point_entry, tableVars, FreeEntries, Destroy

LEMMA RemoveType ==
    ASSUME TableTypeOK, NEW k, remove_mount_point_entry(k)
    PROVE  TableTypeOK'
BY DEF TableTypeOK, remove_mount_point_entry, tableVars, Destroy

\* A key that passes the check is a key of a table.
LEMMA ValidKeysAreKeys ==
    ASSUME NEW k \in Results, IsValidKey(k)
    PROVE  k \in Keys
BY TableAssumption DEF Results, IsValidKey, is_file_pointer_valid,
    is_file_descriptor_valid, Keys

LEMMA ReplaceType ==
    ASSUME TableTypeOK, NEW old \in Results, NEW new, replace_file_descriptor(old, new)
    PROVE  TableTypeOK'
<1>1. CASE UNCHANGED tableVars
  BY <1>1 DEF TableTypeOK, tableVars
<1>2. CASE ~UNCHANGED tableVars
  <2>1. old \in Keys
    BY <1>2, ValidKeysAreKeys DEF replace_file_descriptor
  <2> QED
    BY <1>2, <2>1 DEF TableTypeOK, replace_file_descriptor, tableVars, Destroy
<1> QED
  BY <1>1, <1>2

--------------------------------------------------------------------------------
(* Type correctness.                                                       *)

LEMMA AddType == \A m \in Counter, n \in {0, 1} : Add(m, n) \in Counter
BY OptionsAssumption DEF Add, Counter

LEMMA NoCallType == NoCall \in CallType
BY DEF NoCall, Call, Handler, CallType, PickKinds, LibcKinds, Classes, Handles,
       MountPoints, Results, InvalidWorkflow

LEMMA TypeInit == Init => TypeOK
BY NoCallType, OptionsAssumption
   DEF Init, TypeOK, TableInit, TableTypeOK, Steps, Counter, StatsType, LedgerType

LEMMA TypeBegin ==
    ASSUME TypeOK, NEW t \in Threads, Begin(t)
    PROVE  TypeOK'
<1> USE DEF TypeOK
<1> PICK h \in Handlers : \/ \E p \in Paths : CallOnPath(t, h, p)
                          \/ \E k \in Handles : CallOnKey(t, h, k)
                          \/ \E k \in Handles : CallUnpicked(t, h, k)
  BY DEF Begin
<1>h. h \in [pick : PickKinds, libc : LibcKinds, class : Classes]
  BY HandlersAssumption
<1>1. CASE \E p \in Paths : CallOnPath(t, h, p)
  <2> PICK p \in Paths : CallOnPath(t, h, p)
    BY <1>1
  <2> DEFINE mp == extract_mount_point(p)
  <2>1. mp \in MountPoints
    BY DEF extract_mount_point, extract_mount_point_from_path, MountPoints
  <2>2. PICK wf \in pick_workflow_id(mp) :
            Start(t, "enforce", Call(h, -1, mp, NoEntry, wf, FALSE))
    BY DEF CallOnPath
  <2>3. Call(h, -1, mp, NoEntry, wf, FALSE) \in CallType
    <3> wf \in Int
      BY <2>2, PicksAreIntegers
    <3> QED
      BY <1>h, <2>1 DEF Call, CallType, Handles, Results
  <2> QED
    BY <2>2, <2>3 DEF CallOnPath, Start, Steps, tableVars, osVars, TableTypeOK
<1>2. CASE \E k \in Handles : CallOnKey(t, h, k)
  <2> PICK k \in Handles : CallOnKey(t, h, k)
    BY <1>2
  <2>1. get_mount_point_entry(k) \in EntryIds \cup {NoEntry}
    BY ValidKeysAreKeys DEF get_mount_point_entry, TableTypeOK, Handles, Results
  <2>2. Call(h, k, "kNone", get_mount_point_entry(k), InvalidWorkflow, FALSE) \in CallType
    BY <1>h, <2>1 DEF Call, CallType, Handles, Results, MountPoints, InvalidWorkflow
  <2> QED
    BY <2>2 DEF CallOnKey, Start, Steps, tableVars, TableTypeOK
<1>3. CASE \E k \in Handles : CallUnpicked(t, h, k)
  <2> PICK k \in Handles : CallUnpicked(t, h, k)
    BY <1>3
  <2>1. Call(h, k, "kNone", NoEntry, InvalidWorkflow, h.libc = "sync") \in CallType
    BY <1>h DEF Call, CallType, Handles, Results, MountPoints, InvalidWorkflow
  <2> QED
    BY <2>1 DEF CallUnpicked, Start, Steps, tableVars, osVars, TableTypeOK
<1> QED
  BY <1>1, <1>2, <1>3

\* What the steps after the first one do to the type of the state.
LEMMA TypeContinue ==
    ASSUME TypeOK, NEW t \in Threads, Continue(t)
    PROVE  TypeOK'
<1> USE DEF TypeOK
<1>c. call[t] \in CallType
  OBVIOUS
<1>h. /\ call[t].h \in [pick : PickKinds, libc : LibcKinds, class : Classes]
      /\ call[t].key \in Handles /\ call[t].mp \in MountPoints /\ call[t].res \in Results
  BY <1>c DEF CallType
<1>k. /\ call[t].h.class \in Classes /\ call[t].h.libc \in LibcKinds
      /\ call[t].key \in Results
  BY <1>h DEF Handles, Results
<1>1. CASE UseEntry(t)
  <2>1. \A wf \in Int : [call[t] EXCEPT !.wf = wf, !.ptr = NoEntry] \in CallType
    BY <1>c DEF CallType
  <2>2. \A picked \in WorkflowsOfEntry(call[t].ptr) : picked \in Int
    <3>1. \A e : UNION {pick_workflow_id(mp) : mp \in get_mount_point(e)} \subseteq Int
      BY PicksAreIntegers
    <3> QED
      BY <3>1 DEF WorkflowsOfEntry, InvalidWorkflow
  <2>3. \A wf : \A picked \in Int : wf \in close_fallback(call[t].h, picked) => wf \in Int
    BY PicksAreIntegers DEF close_fallback
  <2>4. PICK wf \in Int : call' = [call EXCEPT ![t].wf = wf, ![t].ptr = NoEntry]
    BY <1>1, <2>2, <2>3 DEF UseEntry
  <2> QED
    BY <1>1, <2>1, <2>4 DEF UseEntry, Steps, tableVars, osVars, TableTypeOK
<1>2. CASE enforce_request(t)
  <2>1. [call[t] EXCEPT !.enforced = (call[t].wf # InvalidWorkflow)] \in CallType
    BY <1>c DEF CallType
  <2>2. ledger' \in [Classes -> LedgerType]
    <3>1. [ledger[call[t].h.class] EXCEPT !.submitted = Add(@, 1)] \in LedgerType
      BY <1>k, AddType DEF LedgerType
    <3> QED
      BY <1>2, <1>k, <3>1 DEF enforce_request
  <2> QED
    BY <1>2, <2>1, <2>2 DEF enforce_request, Steps, tableVars, osVars, TableTypeOK
<1>3. ASSUME NEW res \in Results, Executed(t, res)
      PROVE  /\ pc' \in [Threads -> Steps]
             /\ call' \in [Threads -> CallType]
             /\ ledger' \in [Classes -> LedgerType]
             /\ UNCHANGED <<table, heap, stats>>
  <2>1. [call[t] EXCEPT !.res = res, !.wf = InvalidWorkflow] \in CallType
    <3>1. res \in Results /\ InvalidWorkflow \in Int
      BY <1>3 DEF InvalidWorkflow
    <3> QED
      BY <1>c, <3>1 DEF CallType
  <2>2. ledger' \in [Classes -> LedgerType]
    <3>1. \A l \in LedgerType : \A x, y \in {0, 1} :
            [l EXCEPT !.executed = Add(@, 1), !.synced = Add(@, x), !.failed = Add(@, y)]
                \in LedgerType
      BY AddType DEF LedgerType
    <3> QED
      BY <1>3, <1>k, <3>1 DEF Executed
  <2> QED
    BY <1>3, <2>1, <2>2 DEF Executed, Steps, tableVars
<1>4. CASE LibcIo(t)
  <2>1. PICK res \in {0, -1} : Executed(t, res)
    BY <1>4 DEF LibcIo
  <2> QED
    BY <1>4, <2>1, <1>3 DEF LibcIo, Results, osVars, TableTypeOK
<1>5. CASE LibcAllocate(t)
  <2> DEFINE new == CASE call[t].h.libc \in {"open", "fopen"} -> call[t].mp
                      [] call[t].h.libc = "socket" -> Foreign
                      [] OTHER -> file[call[t].key]
  <2>1. PICK k \in FreeHandles(call[t].h.libc) :
            /\ Executed(t, k)
            /\ open' = open \cup {k}
            /\ file' = [file EXCEPT ![k] = new]
            /\ shared' = IF call[t].h.libc = "dup" THEN shared \cup {k, call[t].key}
                         ELSE shared
            /\ UNCHANGED held
    BY <1>5 DEF LibcAllocate
  <2>2. k \in Keys /\ k \in Results
    BY <2>1 DEF FreeHandles, Keys, Results
  <2>3. call[t].h.libc = "dup" => call[t].key \in Keys
    BY <1>5 DEF LibcAllocate
  <2>4. new \in MountPoints \cup {Foreign}
    <3>1. CASE call[t].h.libc \in {"open", "fopen"}
      BY <3>1, <1>h
    <3>2. CASE call[t].h.libc = "socket"
      BY <3>2
    <3>3. CASE call[t].h.libc \notin {"open", "fopen", "socket"}
      BY <3>3, <2>3, <1>5 DEF LibcAllocate, Allocates
    <3> QED
      BY <3>1, <3>2, <3>3
  <2>5. file' \in [Keys -> MountPoints \cup {Foreign}] /\ open' \subseteq Keys
        /\ shared' \subseteq Keys /\ held' \subseteq Keys
    BY <2>1, <2>2, <2>3, <2>4
  <2> QED
    BY <2>1, <2>2, <2>5, <1>3 DEF TableTypeOK
<1>6. CASE LibcAllocateFails(t)
  <2>1. PICK res \in Results : Executed(t, res)
    BY <1>6 DEF LibcAllocateFails, Results
  <2> QED
    BY <1>6, <2>1, <1>3 DEF LibcAllocateFails, osVars, TableTypeOK
<1>7. CASE LibcClose(t)
  <2>1. PICK res \in Results : Executed(t, res)
    BY <1>7 DEF LibcClose, Results
  <2> QED
    BY <1>7, <2>1, <1>3 DEF LibcClose, TableTypeOK
<1>8. CASE UpdateTable(t)
  <2>1. TableTypeOK'
    BY <1>8, <1>h, <1>k, CreateType, RemoveType, ReplaceType
       DEF UpdateTable, tableVars, TableTypeOK
  <2> QED
    BY <1>8, <2>1 DEF UpdateTable, Steps, osVars
<1>9. CASE update_statistics(t)
  <2>1. \A s \in StatsType : \A enforced, failed \in BOOLEAN :
            update_statistic_entry(s, enforced, failed) \in StatsType
    BY AddType DEF update_statistic_entry, StatsType
  <2>2. stats' \in [Classes -> StatsType]
    <3>1. call[t].enforced \in BOOLEAN /\ Failed(call[t].res) \in BOOLEAN
      BY <1>c DEF CallType, Failed
    <3>2. update_statistic_entry(stats[call[t].h.class], call[t].enforced,
                                 Failed(call[t].res)) \in StatsType
      BY <1>k, <2>1, <3>1
    <3> QED
      BY <1>9, <1>k, <3>2 DEF update_statistics
  <2>3. held' \subseteq Keys
    BY <1>9 DEF update_statistics
  <2> QED
    BY <1>9, <2>2, <2>3, NoCallType DEF update_statistics, Steps, tableVars, TableTypeOK
<1> QED
  BY <1>1, <1>2, <1>4, <1>5, <1>6, <1>7, <1>8, <1>9 DEF Continue

LEMMA TypeUnhandled ==
    ASSUME TypeOK, NEW k \in Keys, UnhandledOpen(k) \/ UnhandledClose(k)
    PROVE  TypeOK'
BY DEF TypeOK, TableTypeOK, UnhandledOpen, UnhandledClose, tableVars, callVars

LEMMA TypeStutter == TypeOK /\ UNCHANGED vars => TypeOK'
BY DEF TypeOK, TableTypeOK, vars

\* Every variable keeps its type, whatever the threads do and in whatever order:
\* the handlers of LdPreloadedPosix never leave the domain of the model.
THEOREM TypeCorrect == Spec => []TypeOK
<1>1. TypeOK /\ [Next]_vars => TypeOK'
  BY TypeBegin, TypeContinue, TypeUnhandled, TypeStutter DEF Next
<1> QED
  BY TypeInit, <1>1, PTL DEF Spec

--------------------------------------------------------------------------------
(* The ownership of the entries.                                           *)

LEMMA CreateOwnership ==
    ASSUME TableTypeOK, EntryOwnership, NEW k \in Results, NEW mp \in MountPoints,
           create_mount_point_entry(k, mp)
    PROVE  EntryOwnership'
<1>1. CASE ~IsValidKey(k)
  BY <1>1 DEF create_mount_point_entry, tableVars, EntryOwnership
<1>2. CASE IsValidKey(k)
  <2>1. k \in Keys
    BY <1>2, ValidKeysAreKeys
  <2>2. PICK e \in FreeEntries :
            /\ table' = [table EXCEPT ![k] = e]
            /\ heap' = [Destroy(heap, table[k]) EXCEPT ![e] = mp]
    BY <1>2 DEF create_mount_point_entry
  <2>3. e \in EntryIds /\ heap[e] = Freed /\ e # NoEntry /\ mp # Freed
    BY TableAssumption, FreedAssumption DEF FreeEntries
  <2>4. \A a \in EntryIds :
            heap'[a] = IF a = e THEN mp ELSE IF a = table[k] THEN Freed ELSE heap[a]
    BY <2>2, <2>3 DEF Destroy
  <2>5. \A j \in Keys : table'[j] = IF j = k THEN e ELSE table[j]
    BY <2>1, <2>2 DEF TableTypeOK
  <2>6. \A j \in Keys : table[j] # e
    BY <2>3 DEF EntryOwnership
  <2>7. \A j \in Keys : table'[j] # NoEntry => heap'[table'[j]] # Freed
    BY <2>1, <2>3, <2>4, <2>5 DEF EntryOwnership, TableTypeOK
  <2>8. \A i, j \in Keys : table'[i] = table'[j] /\ table'[i] # NoEntry => i = j
    BY <2>5, <2>6 DEF EntryOwnership
  <2>9. \A a \in EntryIds : heap'[a] # Freed => \E j \in Keys : table'[j] = a
    BY <2>1, <2>4, <2>5 DEF EntryOwnership
  <2> QED
    BY <2>7, <2>8, <2>9 DEF EntryOwnership
<1> QED
  BY <1>1, <1>2

LEMMA RemoveOwnership ==
    ASSUME TableTypeOK, EntryOwnership, NEW k \in Results, remove_mount_point_entry(k)
    PROVE  EntryOwnership'
<1>1. CASE ~IsValidKey(k)
  BY <1>1 DEF remove_mount_point_entry, tableVars, EntryOwnership
<1>2. CASE IsValidKey(k)
  <2>1. k \in Keys
    BY <1>2, ValidKeysAreKeys
  <2>2. \A a \in EntryIds : heap'[a] = IF a = table[k] THEN Freed ELSE heap[a]
    BY <1>2 DEF remove_mount_point_entry, Destroy
  <2>3. \A j \in Keys : table'[j] = IF j = k THEN NoEntry ELSE table[j]
    BY <1>2, <2>1 DEF remove_mount_point_entry, TableTypeOK
  <2> QED
    BY <2>1, <2>2, <2>3 DEF EntryOwnership, TableTypeOK
<1> QED
  BY <1>1, <1>2

LEMMA ReplaceOwnership ==
    ASSUME TableTypeOK, EntryOwnership, NEW old \in Results, NEW new \in Results,
           replace_file_descriptor(old, new)
    PROVE  EntryOwnership'
<1>1. CASE UNCHANGED tableVars
  BY <1>1 DEF tableVars, EntryOwnership
<1>2. CASE ~UNCHANGED tableVars
  <2>1. old \in Keys /\ new \in Keys /\ table[old] # NoEntry
    BY <1>2, ValidKeysAreKeys DEF replace_file_descriptor
  <2>2. CASE new = old \/ table[new] = NoEntry
    <3>1. \A j \in Keys : table'[j] = IF j = new THEN table[old]
                                      ELSE IF j = old THEN NoEntry ELSE table[j]
      BY <1>2, <2>1, <2>2 DEF replace_file_descriptor, TableTypeOK
    <3>2. heap' = heap
      BY <1>2, <2>1, <2>2 DEF replace_file_descriptor
    <3> QED
      BY <2>1, <2>2, <3>1, <3>2 DEF EntryOwnership, TableTypeOK
  <2>3. CASE new # old /\ table[new] # NoEntry
    <3>1. \A j \in Keys : table'[j] = IF j = old THEN NoEntry ELSE table[j]
      BY <1>2, <2>1, <2>3 DEF replace_file_descriptor, TableTypeOK
    <3>2. \A a \in EntryIds : heap'[a] = IF a = table[old] THEN Freed ELSE heap[a]
      BY <1>2, <2>1, <2>3 DEF replace_file_descriptor, Destroy
    <3> QED
      BY <2>1, <3>1, <3>2 DEF EntryOwnership, TableTypeOK
  <2> QED
    BY <2>2, <2>3
<1> QED
  BY <1>1, <1>2

\* Only UpdateTable touches the tables.
LEMMA OthersKeepTable ==
    ASSUME NEW t \in Threads, Begin(t) \/ Continue(t), ~UpdateTable(t)
    PROVE  UNCHANGED tableVars
<1>1. CASE Begin(t)
  BY <1>1 DEF Begin, CallOnPath, CallOnKey, CallUnpicked, tableVars
<1>2. CASE Continue(t)
  BY <1>2 DEF Continue, UseEntry, enforce_request, LibcIo, LibcAllocate,
     LibcAllocateFails, LibcClose, Executed, update_statistics, tableVars
<1> QED
  BY <1>1, <1>2

LEMMA OwnershipStep ==
    ASSUME TypeOK, EntryOwnership, [Next]_vars
    PROVE  EntryOwnership'
<1>1. ASSUME UNCHANGED tableVars PROVE EntryOwnership'
  BY <1>1 DEF tableVars, EntryOwnership
<1>2. ASSUME NEW t \in Threads, UpdateTable(t) PROVE EntryOwnership'
  <2>1. /\ call[t].key \in Results /\ call[t].res \in Results
        /\ call[t].mp \in MountPoints
    BY DEF TypeOK, CallType, Handles, Results
  <2>2. TableTypeOK
    BY DEF TypeOK
  <2> QED
    BY <1>1, <1>2, <2>1, <2>2, CreateOwnership, RemoveOwnership, ReplaceOwnership
       DEF UpdateTable
<1>3. ASSUME NEW t \in Threads, Begin(t) \/ Continue(t) PROVE EntryOwnership'
  BY <1>1, <1>2, <1>3, OthersKeepTable
<1>4. ASSUME NEW k \in Keys, UnhandledOpen(k) \/ UnhandledClose(k) PROVE EntryOwnership'
  BY <1>1, <1>4 DEF UnhandledOpen, UnhandledClose
<1>5. CASE UNCHANGED vars
  BY <1>1, <1>5 DEF vars, tableVars
<1> QED
  BY <1>3, <1>4, <1>5 DEF Next

\* The tables never leak an entry, never share one and never point to one that was
\* destroyed, for any interleaving of the handlers and any use of descriptors:
\* no assumption on the application is needed.
THEOREM OwnershipCorrect == Spec => []EntryOwnership
<1>1. Init => EntryOwnership
  BY TableAssumption DEF Init, TableInit, EntryOwnership
<1>2. TypeOK /\ EntryOwnership /\ [Next]_vars => EntryOwnership'
  BY OwnershipStep
<1> QED
  BY <1>1, <1>2, TypeCorrect, PTL DEF Spec

================================================================================
