----------------------- MODULE MountPointTableLocksProofs ----------------------
(***************************************************************************)
(* The locks of MountPointTable make its operations atomic: LocksInv is an *)
(* invariant and MountPointTableLocks implements AtomicTable, for any      *)
(* number of threads, descriptors, streams and entry addresses.  Nobody    *)
(* keeps a lock or waits for one while holding one.                        *)
(***************************************************************************)
EXTENDS MountPointTableLocks, TLAPS

LEMMA NoOperationType == NoOperation \in OperationType
BY DEF NoOperation, Operation, OperationType, Names, MountPoints

\* What Begin makes of a call.
LEMMA BeginOperation ==
    ASSUME NEW t \in Threads, Begin(t)
    PROVE  \E o \in OperationType :
            /\ op' = [op EXCEPT ![t] = o]
            /\ o.key \in Keys /\ IsValidKey(o.key)
            /\ o.do \in {"replace", "print_fds"} => o.key \in Fds
            /\ o.do = "replace" => o.new \in Fds /\ IsValidKey(o.new)
<1>1. PICK do \in Operations[t], k \in {j \in Keys : IsValidKey(j)},
           new \in {j \in Fds : IsValidKey(j)}, mp \in {"kNone", "kRemote"} :
        /\ do \in {"replace", "print_fds"} => k \in Fds
        /\ op' = [op EXCEPT ![t] = Operation(do, k, new, mp)]
  BY DEF Begin
<1>2. do \in Names
  BY LocksAssumption
<1>3. Operation(do, k, new, mp) \in OperationType
  BY <1>2 DEF Operation, OperationType, MountPoints
<1> QED
  BY <1>1, <1>3 DEF Operation

\* The steps inside a lock that leave the locks alone.
Works(t) ==
    \/ Emplace(t) \/ Assign(t) \/ Find(t) \/ Erase(t) \/ Extract(t) \/ Insert(t)
    \/ Visit(t) \/ Finish(t)

LEMMA BodyIs == ASSUME NEW t \in Threads PROVE Body(t) <=> Works(t) \/ Release(t)
BY DEF Body, Works

InsidePositions == Positions \ {"idle", "acquire"}

\* The operation a thread is in, from the step it is at.
LEMMA OperationAt ==
    ASSUME TypeOK, OperationsOK, NEW t \in Threads
    PROVE  /\ at[t] \in {"emplace", "assign"} => op[t].do = "create"
           /\ at[t] = "find" => op[t].do = "get"
           /\ at[t] = "erase" => op[t].do = "remove"
           /\ at[t] \in {"extract", "insert"} => op[t].do = "replace"
           /\ at[t] = "walk" => op[t].do = "print_fds"
<1>1. op[t].do \in Names
  BY DEF TypeOK, OperationType
<1>2. at[t] # "idle" => at[t] \in StepOf[op[t].do] \cup {"acquire", "release"}
  BY DEF OperationsOK
<1> QED
  BY <1>1, <1>2 DEF StepOf, Names

\* They stay inside, at a step of the same operation.
LEMMA WorkStaysInside ==
    ASSUME TypeOK, OperationsOK, NEW t \in Threads, Works(t)
    PROVE  /\ UNCHANGED <<lockVars, op>>
           /\ Inside(t)
           /\ \E to \in InsidePositions :
                /\ at' = [at EXCEPT ![t] = to]
                /\ to \in StepOf[op[t].do] \cup {"release"}
<1>1. /\ at[t] = "emplace" => "assign" \in StepOf[op[t].do]
      /\ at[t] = "extract" => "insert" \in StepOf[op[t].do]
      /\ at[t] = "walk" => "walk" \in StepOf[op[t].do]
  BY OperationAt DEF StepOf
<1>2. ASSUME NEW from \in InsidePositions, NEW to \in InsidePositions, Step(t, from, to)
      PROVE  /\ UNCHANGED <<lockVars, op>> /\ Inside(t)
             /\ at[t] = from /\ at' = [at EXCEPT ![t] = to]
  BY <1>2 DEF Step, Inside, InsidePositions
<1>3. CASE Emplace(t)
  BY <1>1, <1>2, <1>3 DEF Emplace, InsidePositions, Positions
<1>4. CASE Assign(t)
  BY <1>2, <1>4 DEF Assign, InsidePositions, Positions
<1>5. CASE Find(t) \/ Erase(t) \/ Insert(t) \/ Finish(t)
  BY <1>2, <1>5 DEF Find, Erase, Insert, Finish, InsidePositions, Positions
<1>6. CASE Extract(t)
  <2>1. PICK to \in {"release", "insert"} : Step(t, "extract", to)
    BY <1>6 DEF Extract
  <2>2. {"extract", "release", "insert"} \subseteq InsidePositions
    BY DEF InsidePositions, Positions
  <2> QED
    BY <1>1, <1>2, <2>1, <2>2
<1>7. CASE Visit(t)
  BY <1>1, <1>2, <1>7 DEF Visit, InsidePositions, Positions
<1> QED
  BY <1>3, <1>4, <1>5, <1>6, <1>7 DEF Works

--------------------------------------------------------------------------------
(* Types.                                                                  *)

LEMMA TypeInit == Init => TypeOK
BY NoOperationType, TableAssumption DEF Init, TypeOK, TableInit, TableTypeOK, Positions

LEMMA FirstStepPosition ==
    ASSUME NEW o \in OperationType
    PROVE  FirstStep(o) \in InsidePositions /\ FirstStep(o) \in StepOf[o.do]
BY DEF OperationType, FirstStep, Names, InsidePositions, Positions, StepOf

LEMMA TypeOutside ==
    ASSUME TypeOK, NEW t \in Threads, Begin(t) \/ Acquire(t) \/ Release(t)
    PROVE  TypeOK'
<1>1. CASE Begin(t)
  <2>1. PICK o \in OperationType : op' = [op EXCEPT ![t] = o]
    BY <1>1, BeginOperation
  <2>2. /\ at' = [at EXCEPT ![t] = "acquire"]
        /\ UNCHANGED <<table, heap, writer, readers, node, seen, answer, report>>
    BY <1>1 DEF Begin, tableVars, lockVars
  <2> QED
    BY <2>1, <2>2 DEF TypeOK, TableTypeOK, Positions
<1>2. CASE Acquire(t)
  <2>1. LockOf(op[t]) \in Locks
    BY DEF LockOf, Locks
  <2>2. FirstStep(op[t]) \in Positions
    BY FirstStepPosition DEF TypeOK, InsidePositions
  <2> QED
    BY <1>2, <2>1, <2>2 DEF Acquire, TypeOK, TableTypeOK, tableVars
<1>3. CASE Release(t)
  BY <1>3, NoOperationType DEF Release, TypeOK, TableTypeOK, tableVars, Positions
<1> QED
  BY <1>1, <1>2, <1>3

LEMMA TypeWorks ==
    ASSUME TypeOK, OperationsOK, EntriesOwned, NEW t \in Threads, Works(t)
    PROVE  TypeOK'
<1>1. /\ UNCHANGED <<writer, readers, op>>
      /\ at' \in [Threads -> Positions]
  BY WorkStaysInside DEF TypeOK, lockVars, InsidePositions
<1>2. op[t].mp \in MountPoints /\ Inside(t) /\ op[t].key \in Keys
  BY WorkStaysInside DEF TypeOK, OperationType, OperationsOK, Inside
<1>3. \A e : Destroy(heap, e) \in [EntryIds -> MountPoints \cup {Freed}]
  BY DEF Destroy, TypeOK, TableTypeOK
<1>4. TableTypeOK'
  BY <1>2, <1>3 DEF Works, Emplace, Assign, Find, Erase, Extract, Insert, Visit, Finish,
      TypeOK, TableTypeOK, tableVars, FreeEntries
<1>5. node' \in [Threads -> EntryIds \cup {NoEntry}]
      /\ answer' \in [Threads -> EntryIds \cup {NoEntry}]
  BY <1>2 DEF Works, Emplace, Assign, Find, Erase, Extract, Insert, Visit, Finish,
      TypeOK, TableTypeOK
<1>6. seen' \in [Threads -> SUBSET (Keys \X MountPoints)]
      /\ report' \in [Threads -> SUBSET (Keys \X MountPoints)]
  <2>1. CASE Visit(t)
    <3>1. PICK k \in Unvisited(t) :
            seen' = [seen EXCEPT ![t] = @ \cup {<<k, heap[table[k]]>>}]
      BY <2>1 DEF Visit
    <3>2. k \in Keys /\ table[k] # NoEntry
      BY <3>1 DEF Unvisited, TableOf, Keys
    <3>3. heap[table[k]] \in MountPoints
      BY <3>2 DEF EntriesOwned, TypeOK, TableTypeOK
    <3> QED
      BY <2>1, <3>1, <3>2, <3>3 DEF Visit, TypeOK
  <2>2. CASE Finish(t)
    BY <2>2 DEF Finish, TypeOK
  <2> QED
    BY <2>1, <2>2 DEF Works, Emplace, Assign, Find, Erase, Extract, Insert, TypeOK
<1> QED
  BY <1>1, <1>4, <1>5, <1>6 DEF TypeOK

--------------------------------------------------------------------------------
(* Mutual exclusion.                                                       *)

LEMMA LocksInit == Init => LocksHeld /\ OperationsOK
BY DEF Init, LocksHeld, OperationsOK, Inside

\* Where a lock is taken exclusively nobody else is inside.
LEMMA Exclusive ==
    ASSUME TypeOK, LocksHeld, NEW t \in Threads, NEW u \in Threads, t # u,
           Inside(t), Inside(u), IsWriter(op[t])
    PROVE  LockOf(op[u]) # LockOf(op[t])
<1>1. \A o : LockOf(o) \in Locks
  BY DEF LockOf, Locks
<1> QED
  BY <1>1, LocksAssumption DEF LocksHeld

LEMMA LocksOutside ==
    ASSUME TypeOK, LocksHeld, OperationsOK, NEW t \in Threads,
           Begin(t) \/ Acquire(t) \/ Release(t)
    PROVE  LocksHeld' /\ OperationsOK'
<1>1. \A o : LockOf(o) \in Locks
  BY DEF LockOf, Locks
<1>2. CASE Begin(t)
  <2>1. PICK o \in OperationType :
            /\ op' = [op EXCEPT ![t] = o]
            /\ o.key \in Keys /\ IsValidKey(o.key)
            /\ o.do \in {"replace", "print_fds"} => o.key \in Fds
            /\ o.do = "replace" => o.new \in Fds /\ IsValidKey(o.new)
    BY <1>2, BeginOperation
  <2>2. at' = [at EXCEPT ![t] = "acquire"] /\ UNCHANGED lockVars
    BY <1>2 DEF Begin
  <2>3. LocksHeld'
    BY <2>1, <2>2 DEF LocksHeld, Inside, TypeOK, lockVars
  <2>4. OperationsOK'
    BY <2>1, <2>2 DEF OperationsOK, TypeOK
  <2> QED
    BY <2>3, <2>4
<1>3. CASE Acquire(t)
  <2> DEFINE l == LockOf(op[t])
  <2>1. /\ at[t] = "acquire" /\ Available(op[t], l) /\ op' = op
        /\ at' = [at EXCEPT ![t] = FirstStep(op[t])]
        /\ IF IsWriter(op[t])
           THEN writer' = [writer EXCEPT ![l] = t] /\ readers' = readers
           ELSE readers' = [readers EXCEPT ![l] = @ \cup {t}] /\ writer' = writer
    BY <1>3 DEF Acquire
  <2>2. FirstStep(op[t]) \in InsidePositions /\ FirstStep(op[t]) \in StepOf[op[t].do]
    BY FirstStepPosition DEF TypeOK
  <2>3. OperationsOK'
    BY <2>1, <2>2 DEF OperationsOK, TypeOK
  <2>4. CASE IsWriter(op[t])
    <3>1. \A m \in Locks : writer'[m] # Nobody => readers'[m] = {}
      BY <1>1, <2>1, <2>4 DEF LocksHeld, Available, TypeOK
    <3>2. ASSUME NEW u \in Threads, Inside(u)'
          PROVE  IF IsWriter(op'[u]) THEN writer'[LockOf(op'[u])] = u
                 ELSE u \in readers'[LockOf(op'[u])]
      <4>1. CASE u = t
        BY <1>1, <2>1, <2>4, <4>1 DEF TypeOK
      <4>2. CASE u # t
        <5>1. Inside(u)
          BY <2>1, <3>2, <4>2 DEF Inside, TypeOK
        <5>2. LockOf(op[u]) # l
          BY <1>1, <2>1, <2>4, <5>1, LocksAssumption DEF LocksHeld, Available
        <5> QED
          BY <1>1, <2>1, <2>4, <5>1, <5>2 DEF LocksHeld, TypeOK
      <4> QED
        BY <4>1, <4>2
    <3> QED
      BY <2>3, <3>1, <3>2 DEF LocksHeld
  <2>5. CASE ~IsWriter(op[t])
    <3>1. \A m \in Locks : writer'[m] # Nobody => readers'[m] = {}
      BY <1>1, <2>1, <2>5 DEF LocksHeld, Available, TypeOK
    <3>2. ASSUME NEW u \in Threads, Inside(u)'
          PROVE  IF IsWriter(op'[u]) THEN writer'[LockOf(op'[u])] = u
                 ELSE u \in readers'[LockOf(op'[u])]
      <4>1. CASE u = t
        BY <1>1, <2>1, <2>5, <4>1 DEF TypeOK
      <4>2. CASE u # t
        <5>1. Inside(u)
          BY <2>1, <3>2, <4>2 DEF Inside, TypeOK
        <5> QED
          BY <1>1, <2>1, <2>5, <5>1 DEF LocksHeld, TypeOK
      <4> QED
        BY <4>1, <4>2
    <3> QED
      BY <2>3, <3>1, <3>2 DEF LocksHeld
  <2> QED
    BY <2>4, <2>5
<1>4. CASE Release(t)
  <2> DEFINE l == LockOf(op[t])
  <2>1. /\ at' = [at EXCEPT ![t] = "idle"]
        /\ op' = [op EXCEPT ![t] = NoOperation]
        /\ writer' = IF writer[l] = t THEN [writer EXCEPT ![l] = Nobody] ELSE writer
        /\ readers' = [readers EXCEPT ![l] = @ \ {t}]
    BY <1>4 DEF Release
  <2>2. OperationsOK'
    BY <2>1 DEF OperationsOK, TypeOK
  <2>3. \A m \in Locks : writer'[m] # Nobody => readers'[m] = {}
    BY <1>1, <2>1 DEF LocksHeld, TypeOK
  <2>4. ASSUME NEW u \in Threads, Inside(u)'
        PROVE  IF IsWriter(op'[u]) THEN writer'[LockOf(op'[u])] = u
               ELSE u \in readers'[LockOf(op'[u])]
    <3>1. u # t /\ Inside(u) /\ op'[u] = op[u]
      BY <2>1, <2>4 DEF Inside, TypeOK
    <3> QED
      BY <1>1, <2>1, <3>1 DEF LocksHeld, TypeOK
  <2> QED
    BY <2>2, <2>3, <2>4 DEF LocksHeld
<1> QED
  BY <1>2, <1>3, <1>4

LEMMA LocksWorks ==
    ASSUME TypeOK, LocksHeld, OperationsOK, NEW t \in Threads, Works(t)
    PROVE  LocksHeld' /\ OperationsOK'
<1>1. PICK to \in InsidePositions :
        /\ at' = [at EXCEPT ![t] = to]
        /\ to \in StepOf[op[t].do] \cup {"release"}
  BY WorkStaysInside
<1>2. UNCHANGED <<writer, readers, op>> /\ Inside(t)
  BY WorkStaysInside DEF lockVars
<1>3. \A u \in Threads : Inside(u)' => Inside(u)
  BY <1>1, <1>2 DEF Inside, TypeOK
<1>4. LocksHeld'
  BY <1>2, <1>3 DEF LocksHeld
<1>5. OperationsOK'
  BY <1>1, <1>2 DEF OperationsOK, Inside, TypeOK, InsidePositions
<1> QED
  BY <1>4, <1>5

--------------------------------------------------------------------------------
(* Ownership of the entries, and what reports have seen.                   *)

LEMMA OwnedInit == Init => EntriesOwned /\ SeenCurrent
BY TableAssumption DEF Init, TableInit, EntriesOwned, SeenCurrent

\* While a thread is inside an operation that changes the table of its key, no
\* other thread holds an extracted node of that table or walks through it.
LEMMA WriterIsAlone ==
    ASSUME LocksInv, NEW t \in Threads, Inside(t), IsWriter(op[t]),
           NEW u \in Threads, u # t, at[u] \in {"insert", "walk"}
    PROVE  op[u].key \in Fds /\ op[t].key \notin Fds
<1>1. Inside(u) /\ op[u].key \in Fds
  BY OperationAt DEF LocksInv, Inside, OperationsOK
<1>2. LockOf(op[u]) # LockOf(op[t])
  BY <1>1, Exclusive DEF LocksInv
<1> QED
  BY <1>1, <1>2 DEF LockOf

\* The steps that change the tables belong to operations that do.
Writes(t) == Emplace(t) \/ Assign(t) \/ Erase(t) \/ Extract(t) \/ Insert(t)

LEMMA WritersWrite ==
    ASSUME LocksInv, NEW t \in Threads, Writes(t)
    PROVE  /\ IsWriter(op[t]) /\ Inside(t)
           /\ op[t].key \in Keys
           /\ op' = op /\ seen' = seen
           /\ \A u \in Threads : u # t => at'[u] = at[u] /\ node'[u] = node[u]
<1>1. Works(t)
  BY DEF Writes, Works
<1>2. Inside(t) /\ op' = op
  BY <1>1, WorkStaysInside DEF LocksInv
<1>3. at[t] \in {"emplace", "assign", "erase", "extract", "insert"}
  BY DEF Writes, Emplace, Assign, Erase, Extract, Insert, Step
<1>4. IsWriter(op[t])
  BY <1>3, OperationAt DEF LocksInv, IsWriter
<1>5. seen' = seen
  BY DEF Writes, Emplace, Assign, Erase, Extract, Insert
<1>6. \A u \in Threads : u # t => at'[u] = at[u] /\ node'[u] = node[u]
  BY DEF Writes, Emplace, Assign, Erase, Extract, Insert, Step, LocksInv, TypeOK
<1> QED
  BY <1>2, <1>4, <1>5, <1>6 DEF LocksInv, OperationsOK, Inside

\* A creation, in one step or two: a free address for the key, which loses its entry.
LEMMA CreationIs ==
    ASSUME LocksInv, NEW t \in Threads, Emplace(t) \/ Assign(t), ~UNCHANGED tableVars
    PROVE  \E e \in FreeEntries :
            /\ e \in EntryIds /\ heap[e] = Freed /\ op[t].mp # Freed
            /\ op[t].mp \in MountPoints
            /\ at'[t] = "release" /\ node' = node
            /\ \A k \in Keys : table'[k] = IF k = op[t].key THEN e ELSE table[k]
            /\ \A a \in EntryIds :
                heap'[a] = IF a = e THEN op[t].mp
                           ELSE IF a = table[op[t].key] THEN Freed ELSE heap[a]
<1>1. op[t].mp \in MountPoints /\ op[t].mp # Freed
  BY FreedAssumption DEF LocksInv, TypeOK, OperationType
<1>2. op[t].key \in Keys
  BY WritersWrite DEF Writes
<1>3. CASE Emplace(t)
  <2>1. PICK e \in FreeEntries :
            /\ table[op[t].key] = NoEntry
            /\ table' = [table EXCEPT ![op[t].key] = e]
            /\ heap' = [heap EXCEPT ![e] = op[t].mp]
            /\ Step(t, "emplace", "release")
    BY <1>3 DEF Emplace
  <2>2. e \in EntryIds /\ heap[e] = Freed
    BY DEF FreeEntries
  <2> QED
    BY <1>1, <1>2, <1>3, <2>1, <2>2, TableAssumption
       DEF Emplace, Step, LocksInv, TypeOK, TableTypeOK
<1>4. CASE Assign(t)
  <2>1. PICK e \in FreeEntries :
            /\ table' = [table EXCEPT ![op[t].key] = e]
            /\ heap' = [Destroy(heap, table[op[t].key]) EXCEPT ![e] = op[t].mp]
    BY <1>4 DEF Assign
  <2>2. e \in EntryIds /\ heap[e] = Freed
    BY DEF FreeEntries
  <2> QED
    BY <1>1, <1>2, <1>4, <2>1, <2>2 DEF Assign, Step, Destroy, LocksInv, TypeOK, TableTypeOK
<1> QED
  BY <1>3, <1>4

LEMMA OwnedByCreation ==
    ASSUME LocksInv, NEW t \in Threads, Emplace(t) \/ Assign(t)
    PROVE  EntriesOwned'
<1>1. CASE UNCHANGED tableVars
  <2>1. at'[t] # "insert" /\ node' = node /\ op' = op
    BY WritersWrite DEF Writes, Emplace, Assign, Step, LocksInv, TypeOK
  <2> QED
    BY <1>1, <2>1, WritersWrite DEF tableVars, LocksInv, EntriesOwned, Writes
<1>2. CASE ~UNCHANGED tableVars
  <2> DEFINE c == op[t].key
  <2>1. PICK e \in FreeEntries :
            /\ e \in EntryIds /\ heap[e] = Freed /\ op[t].mp # Freed
            /\ at'[t] = "release" /\ node' = node
            /\ \A k \in Keys : table'[k] = IF k = c THEN e ELSE table[k]
            /\ \A a \in EntryIds :
                heap'[a] = IF a = e THEN op[t].mp
                           ELSE IF a = table[c] THEN Freed ELSE heap[a]
    BY <1>2, CreationIs
  <2>2. c \in Keys /\ op' = op /\ e # NoEntry
    BY <2>1, WritersWrite, TableAssumption DEF Writes
  <2>3. \A k \in Keys : table[k] # e
    BY <2>1, <2>2 DEF LocksInv, EntriesOwned
  <2>4. \A k \in Keys : table'[k] # NoEntry => heap'[table'[k]] # Freed
    BY <2>1, <2>2 DEF LocksInv, EntriesOwned, TypeOK, TableTypeOK
  <2>5. \A j, k \in Keys : table'[j] = table'[k] /\ table'[j] # NoEntry => j = k
    BY <2>1, <2>3 DEF LocksInv, EntriesOwned
  <2>6. ASSUME NEW u \in Threads, at'[u] = "insert"
        PROVE  /\ node'[u] # NoEntry /\ heap'[node'[u]] # Freed
               /\ table'[op'[u].key] = NoEntry
               /\ \A k \in Keys : table'[k] # node'[u]
    <3>1. u # t /\ at[u] = "insert"
      BY <2>1, <2>6, WritersWrite DEF Writes
    <3>2. op[u].key \in Keys /\ op[u].key # c
      BY <3>1, WriterIsAlone, WritersWrite DEF Writes, Keys
    <3>3. node[u] \in EntryIds /\ node[u] # e /\ node[u] # table[c]
      BY <2>1, <2>2, <3>1 DEF LocksInv, EntriesOwned, TypeOK
    <3> QED
      BY <2>1, <2>2, <3>1, <3>2, <3>3 DEF LocksInv, EntriesOwned
  <2> QED
    BY <2>4, <2>5, <2>6 DEF EntriesOwned
<1> QED
  BY <1>1, <1>2

LEMMA OwnedByErasure ==
    ASSUME LocksInv, NEW t \in Threads, Erase(t)
    PROVE  EntriesOwned'
<1> DEFINE c == op[t].key
<1>1. c \in Keys /\ op' = op /\ node' = node /\ at'[t] # "insert"
  BY WritersWrite DEF Writes, Erase, Step, LocksInv, TypeOK
<1>2. \A k \in Keys : table'[k] = IF k = c THEN NoEntry ELSE table[k]
  BY <1>1 DEF Erase, LocksInv, TypeOK, TableTypeOK
<1>3. \A a \in EntryIds : heap'[a] = IF a = table[c] THEN Freed ELSE heap[a]
  BY DEF Erase, Destroy
<1>4. \A k \in Keys : table'[k] # NoEntry => heap'[table'[k]] # Freed
  BY <1>1, <1>2, <1>3 DEF LocksInv, EntriesOwned, TypeOK, TableTypeOK
<1>5. \A j, k \in Keys : table'[j] = table'[k] /\ table'[j] # NoEntry => j = k
  BY <1>2 DEF LocksInv, EntriesOwned
<1>6. ASSUME NEW u \in Threads, at'[u] = "insert"
      PROVE  /\ node'[u] # NoEntry /\ heap'[node'[u]] # Freed
             /\ table'[op'[u].key] = NoEntry
             /\ \A k \in Keys : table'[k] # node'[u]
  <2>1. u # t /\ at[u] = "insert"
    BY <1>1, <1>6, WritersWrite DEF Writes
  <2>2. op[u].key \in Keys /\ node[u] \in EntryIds
    BY <2>1, WriterIsAlone, WritersWrite DEF Writes, Keys, LocksInv, EntriesOwned, TypeOK
  <2> QED
    BY <1>1, <1>2, <1>3, <2>1, <2>2 DEF LocksInv, EntriesOwned
<1> QED
  BY <1>4, <1>5, <1>6 DEF EntriesOwned

\* Two threads never hold extracted nodes at a time.
LEMMA OneInserter ==
    ASSUME LocksInv, NEW t \in Threads, NEW u \in Threads, at[t] = "insert", at[u] = "insert"
    PROVE  t = u
<1>1. Inside(t) /\ IsWriter(op[t]) /\ op[t].key \in Fds
  BY OperationAt DEF LocksInv, Inside, IsWriter, OperationsOK
<1> QED
  BY <1>1, WriterIsAlone

LEMMA ExtractionIs ==
    ASSUME LocksInv, NEW t \in Threads, Extract(t)
    PROVE  /\ op' = op /\ heap' = heap /\ op[t].key \in Fds
           /\ at'[t] = IF table[op[t].key] = NoEntry THEN "release" ELSE "insert"
           /\ node'[t] = table[op[t].key]
           /\ \A k \in Keys : table'[k] = IF k = op[t].key THEN NoEntry ELSE table[k]
           /\ \A u \in Threads : at[u] # "insert"
<1>1. op[t].key \in Keys /\ op' = op
  BY WritersWrite DEF Writes
<1>2. op[t].do = "replace" /\ at[t] = "extract"
  BY OperationAt DEF Extract, Step, LocksInv
<1>3. op[t].key \in Fds
  BY <1>2 DEF LocksInv, OperationsOK
<1>4. \A u \in Threads : at[u] # "insert"
  BY <1>2, <1>3, WriterIsAlone, WritersWrite DEF Writes
<1> QED
  BY <1>1, <1>3, <1>4 DEF Extract, Step, LocksInv, TypeOK, TableTypeOK

LEMMA OwnedByExtraction ==
    ASSUME LocksInv, NEW t \in Threads, Extract(t)
    PROVE  EntriesOwned'
<1>1. \A u \in Threads : at'[u] = "insert" => u = t
  BY ExtractionIs, WritersWrite DEF Writes
<1>2. op[t].key \in Keys
  BY WritersWrite DEF Writes
<1> QED
  BY <1>1, <1>2, ExtractionIs DEF LocksInv, EntriesOwned

\* The new key is the old one, or its table has not seen the node.
LEMMA InsertionIs ==
    ASSUME LocksInv, NEW t \in Threads, Insert(t)
    PROVE  /\ op' = op /\ at[t] = "insert" /\ at'[t] = "release"
           /\ op[t].key \in Fds /\ op[t].new \in Fds
           /\ IsValidKey(op[t].key) /\ IsValidKey(op[t].new)
           /\ node[t] \in EntryIds
           /\ \A u \in Threads : at'[u] # "insert"
           /\ table[op[t].new] = NoEntry =>
                /\ heap' = heap
                /\ table' = [table EXCEPT ![op[t].new] = node[t]]
           /\ table[op[t].new] # NoEntry =>
                table' = table /\ heap' = Destroy(heap, node[t])
<1>1. op' = op
  BY WritersWrite DEF Writes
<1>2. op[t].do = "replace" /\ at[t] = "insert" /\ at'[t] = "release"
  BY OperationAt DEF Insert, Step, LocksInv, TypeOK
<1>3. /\ op[t].key \in Fds /\ op[t].new \in Fds
      /\ IsValidKey(op[t].key) /\ IsValidKey(op[t].new)
  BY <1>2 DEF LocksInv, OperationsOK
<1>4. \A u \in Threads : at'[u] # "insert"
  BY <1>2, OneInserter, WritersWrite DEF Writes
<1>5. node[t] \in EntryIds
  BY <1>2 DEF LocksInv, EntriesOwned, TypeOK
<1> QED
  BY <1>1, <1>2, <1>3, <1>4, <1>5 DEF Insert

LEMMA OwnedByInsertion ==
    ASSUME LocksInv, NEW t \in Threads, Insert(t)
    PROVE  EntriesOwned'
<1> DEFINE new == op[t].new
<1>1. /\ \A u \in Threads : at'[u] # "insert"
      /\ new \in Keys /\ at[t] = "insert" /\ node[t] \in EntryIds
  BY InsertionIs DEF Keys
<1>2. heap[node[t]] # Freed /\ \A k \in Keys : table[k] # node[t]
  BY <1>1 DEF LocksInv, EntriesOwned
<1>3. CASE table[new] = NoEntry
  <2>1. heap' = heap /\ \A k \in Keys : table'[k] = IF k = new THEN node[t] ELSE table[k]
    BY <1>1, <1>3, InsertionIs DEF LocksInv, TypeOK, TableTypeOK
  <2> QED
    BY <1>1, <1>2, <2>1 DEF LocksInv, EntriesOwned
<1>4. CASE table[new] # NoEntry
  <2>1. /\ table' = table
        /\ \A a \in EntryIds : heap'[a] = IF a = node[t] THEN Freed ELSE heap[a]
    BY <1>4, InsertionIs DEF Destroy
  <2> QED
    BY <1>1, <1>2, <2>1 DEF LocksInv, EntriesOwned, TypeOK, TableTypeOK
<1> QED
  BY <1>3, <1>4

\* What a report has seen is not touched by an operation on the other table.
LEMMA SeenByWriters ==
    ASSUME LocksInv, NEW t \in Threads, Writes(t)
    PROVE  SeenCurrent'
<1> SUFFICES ASSUME NEW u \in Threads, NEW s \in seen'[u]
             PROVE  /\ at'[u] = "walk"
                    /\ \E k \in Fds : table'[k] # NoEntry /\ s = <<k, heap'[table'[k]]>>
  BY DEF SeenCurrent
<1>1. s \in seen[u] /\ at[u] = "walk"
  BY WritersWrite DEF LocksInv, SeenCurrent
<1>2. u # t
  BY <1>1 DEF Writes, Emplace, Assign, Erase, Extract, Insert, Step
<1>3. at'[u] = "walk" /\ op[t].key \notin Fds
  BY <1>1, <1>2, WriterIsAlone, WritersWrite
<1>4. PICK k \in Fds : table[k] # NoEntry /\ s = <<k, heap[table[k]]>>
  BY <1>1 DEF LocksInv, SeenCurrent
<1>5. k \in Keys /\ op[t].key \in Keys /\ table[k] \in EntryIds
  BY <1>4, WritersWrite DEF Keys, LocksInv, TypeOK, TableTypeOK
<1>6. table[k] # table[op[t].key] /\ heap[table[k]] # Freed
  BY <1>3, <1>4, <1>5 DEF LocksInv, EntriesOwned
<1>7. table'[k] = table[k] /\ heap'[table[k]] = heap[table[k]]
  <2>1. CASE UNCHANGED tableVars
    BY <2>1 DEF tableVars
  <2>2. CASE (Emplace(t) \/ Assign(t)) /\ ~UNCHANGED tableVars
    BY <1>3, <1>4, <1>5, <1>6, <2>2, CreationIs
  <2>3. CASE Erase(t)
    BY <1>3, <1>5, <1>6, <2>3 DEF Erase, Destroy, LocksInv, TypeOK, TableTypeOK
  <2>4. CASE Extract(t) \/ Insert(t)
    BY <1>3, <2>4, ExtractionIs, InsertionIs
  <2> QED
    BY <2>1, <2>2, <2>3, <2>4 DEF Writes
<1> QED
  BY <1>3, <1>4, <1>7

\* The steps that only read the tables.
LEMMA OwnedByReaders ==
    ASSUME LocksInv, NEW t \in Threads,
           Begin(t) \/ Acquire(t) \/ Find(t) \/ Visit(t) \/ Finish(t) \/ Release(t)
    PROVE  EntriesOwned' /\ SeenCurrent'
<1>1. UNCHANGED <<table, heap, node>>
  BY DEF Begin, Acquire, Find, Visit, Finish, Release, tableVars
<1>2. /\ at'[t] # "insert" /\ at[t] # "insert"
      /\ \A u \in Threads : u # t => at'[u] = at[u] /\ op'[u] = op[u] /\ seen'[u] = seen[u]
  <2>1. CASE Acquire(t)
    BY <2>1 DEF Acquire, FirstStep, LocksInv, TypeOK
  <2> QED
    BY <2>1 DEF Begin, Find, Visit, Finish, Release, Step, LocksInv, TypeOK
<1>3. EntriesOwned'
  BY <1>1, <1>2 DEF LocksInv, EntriesOwned
<1>4. \A s \in seen'[t] : /\ at'[t] = "walk"
                          /\ \E k \in Fds : table[k] # NoEntry /\ s = <<k, heap[table[k]]>>
  <2>1. CASE Begin(t) \/ Acquire(t) \/ Find(t) \/ Release(t)
    <3>1. at[t] # "walk" /\ seen' = seen
      BY <2>1 DEF Begin, Acquire, Find, Release, Step
    <3> QED
      BY <3>1 DEF LocksInv, SeenCurrent
  <2>2. CASE Finish(t)
    BY <2>2 DEF Finish, LocksInv, TypeOK
  <2>3. CASE Visit(t)
    <3>1. PICK k \in Unvisited(t) :
            seen' = [seen EXCEPT ![t] = @ \cup {<<k, heap[table[k]]>>}]
      BY <2>3 DEF Visit
    <3>2. op[t].do = "print_fds" /\ at'[t] = "walk" /\ at[t] = "walk"
      BY <2>3, OperationAt DEF Visit, Step, LocksInv, TypeOK
    <3>3. k \in Fds /\ table[k] # NoEntry
      BY <3>1, <3>2 DEF Unvisited, TableOf, LocksInv, OperationsOK
    <3> QED
      BY <3>1, <3>2, <3>3 DEF LocksInv, SeenCurrent, TypeOK
  <2> QED
    BY <2>1, <2>2, <2>3
<1>5. SeenCurrent'
  BY <1>1, <1>2, <1>4 DEF LocksInv, SeenCurrent
<1> QED
  BY <1>3, <1>5

--------------------------------------------------------------------------------

LEMMA InvInit == Init => LocksInv
BY TypeInit, LocksInit, OwnedInit DEF LocksInv

LEMMA InvStep == LocksInv /\ [Next]_vars => LocksInv'
<1> SUFFICES ASSUME LocksInv, [Next]_vars PROVE LocksInv'
  OBVIOUS
<1>1. CASE UNCHANGED vars
  BY <1>1 DEF vars, tableVars, LocksInv, TypeOK, TableTypeOK, LocksHeld, OperationsOK,
      EntriesOwned, SeenCurrent, Inside
<1>2. ASSUME NEW t \in Threads, Begin(t) \/ Acquire(t) \/ Release(t) PROVE LocksInv'
  BY <1>2, TypeOutside, LocksOutside, OwnedByReaders DEF LocksInv
<1>3. ASSUME NEW t \in Threads, Works(t) PROVE LocksInv'
  <2>1. TypeOK' /\ LocksHeld' /\ OperationsOK'
    BY <1>3, TypeWorks, LocksWorks DEF LocksInv
  <2>2. CASE Writes(t)
    BY <2>1, <2>2, SeenByWriters, OwnedByCreation, OwnedByErasure, OwnedByExtraction,
        OwnedByInsertion DEF Writes, LocksInv
  <2>3. CASE Find(t) \/ Visit(t) \/ Finish(t)
    BY <2>1, <2>3, OwnedByReaders DEF LocksInv
  <2> QED
    BY <1>3, <2>2, <2>3 DEF Works, Writes
<1> QED
  BY <1>1, <1>2, <1>3, BodyIs DEF Next

\* For any number of threads the two locks keep writers alone, every entry has one
\* owner, extracted ones included, and a report never lags behind the table.
THEOREM LocksInvCorrect == Spec => []LocksInv
BY InvInit, InvStep, PTL DEF Spec

--------------------------------------------------------------------------------
(* Nobody keeps a lock.                                                    *)

LEMMA HoldersBegin ==
    ASSUME LocksInv, HoldersInside, NEW t \in Threads, Begin(t)
    PROVE  HoldersInside'
<1>1. /\ UNCHANGED <<writer, readers>> /\ ~Inside(t)
      /\ \A u \in Threads : u # t => at'[u] = at[u] /\ op'[u] = op[u]
  BY DEF Begin, lockVars, Inside, LocksInv, TypeOK
<1> QED
  BY <1>1 DEF HoldersInside, Inside

\* Who acquires a lock held none, and is then inside.
LEMMA HoldersAcquire ==
    ASSUME LocksInv, HoldersInside, NEW t \in Threads, Acquire(t)
    PROVE  HoldersInside'
<1> DEFINE l == LockOf(op[t])
<1>1. /\ ~Inside(t) /\ l \in Locks
      /\ op' = op /\ at' = [at EXCEPT ![t] = FirstStep(op[t])]
      /\ \/ writer' = [writer EXCEPT ![l] = t] /\ readers' = readers
         \/ writer' = writer /\ readers' = [readers EXCEPT ![l] = @ \cup {t}]
  BY DEF Acquire, Inside, LockOf, Locks
<1>2. Inside(t)'
  BY <1>1, FirstStepPosition DEF LocksInv, TypeOK, InsidePositions, Inside
<1>3. \A u \in Threads : u # t => (Inside(u)' <=> Inside(u))
  BY <1>1 DEF Inside, LocksInv, TypeOK
<1>4. ASSUME NEW k \in Locks, NEW u \in Threads, writer'[k] = u \/ u \in readers'[k]
      PROVE  Inside(u)' /\ LockOf(op'[u]) = k
  <2>1. CASE u = t /\ k = l
    BY <1>1, <1>2, <2>1
  <2>2. CASE u # t \/ k # l
    <3>1. writer[k] = u \/ u \in readers[k]
      BY <1>1, <1>4, <2>2 DEF LocksInv, TypeOK
    <3>2. Inside(u) /\ LockOf(op[u]) = k
      BY <3>1 DEF HoldersInside
    <3> QED
      BY <1>1, <1>3, <3>2
  <2> QED
    BY <2>1, <2>2
<1> QED
  BY <1>4 DEF HoldersInside

LEMMA HoldersWork ==
    ASSUME LocksInv, HoldersInside, NEW t \in Threads, Works(t)
    PROVE  HoldersInside'
<1>1. PICK to \in InsidePositions : at' = [at EXCEPT ![t] = to]
  BY WorkStaysInside DEF LocksInv
<1>2. UNCHANGED <<writer, readers, op>>
  BY WorkStaysInside DEF LocksInv, lockVars
<1>3. \A u \in Threads : Inside(u) => Inside(u)'
  BY <1>1 DEF LocksInv, TypeOK, Inside, InsidePositions
<1> QED
  BY <1>2, <1>3 DEF HoldersInside

\* Who returns held one lock, and releases it in whatever mode it has it.
LEMMA HoldersRelease ==
    ASSUME LocksInv, HoldersInside, NEW t \in Threads, Release(t)
    PROVE  HoldersInside'
<1> DEFINE l == LockOf(op[t])
<1>1. /\ at' = [at EXCEPT ![t] = "idle"] /\ op' = [op EXCEPT ![t] = NoOperation]
      /\ writer' = IF writer[l] = t THEN [writer EXCEPT ![l] = Nobody] ELSE writer
      /\ readers' = [readers EXCEPT ![l] = @ \ {t}]
  BY DEF Release
<1>2. l \in Locks
  BY DEF LockOf, Locks
<1>3. ASSUME NEW k \in Locks, NEW u \in Threads, writer'[k] = u \/ u \in readers'[k]
      PROVE  Inside(u)' /\ LockOf(op'[u]) = k
  <2>1. writer[k] = u \/ u \in readers[k]
    BY <1>1, <1>2, <1>3, LocksAssumption DEF LocksInv, TypeOK
  <2>2. Inside(u) /\ LockOf(op[u]) = k
    BY <2>1 DEF HoldersInside
  <2>3. u # t
    BY <1>1, <1>2, <1>3, <2>2, LocksAssumption DEF LocksInv, TypeOK
  <2> QED
    BY <1>1, <2>2, <2>3 DEF LocksInv, TypeOK, Inside
<1> QED
  BY <1>3 DEF HoldersInside

LEMMA HoldersInit == Init => HoldersInside
BY LocksAssumption DEF Init, HoldersInside

LEMMA HoldersNext == LocksInv /\ HoldersInside /\ [Next]_vars => HoldersInside'
<1> SUFFICES ASSUME LocksInv, HoldersInside, [Next]_vars PROVE HoldersInside'
  OBVIOUS
<1>1. CASE UNCHANGED vars
  BY <1>1 DEF vars, HoldersInside, Inside
<1>2. ASSUME NEW t \in Threads, Begin(t) \/ Acquire(t) \/ Body(t) PROVE HoldersInside'
  BY <1>2, BodyIs, HoldersBegin, HoldersAcquire, HoldersWork, HoldersRelease
<1> QED
  BY <1>1, <1>2 DEF Next

\* No operation returns, early or not, with a lock, and no thread that waits for one
\* holds one: the table locks cannot deadlock, for any number of threads.
THEOREM HoldersInsideCorrect == Spec => []HoldersInside
BY LocksInvCorrect, HoldersInit, HoldersNext, PTL DEF Spec

--------------------------------------------------------------------------------
(* The refinement.                                                         *)

Inserting(u, k) == at[u] = "insert" /\ op[u].key = k

\* The settled table, without its CHOOSE.
SettledOK ==
    /\ DOMAIN SettledTable = Keys
    /\ \A k \in Keys :
        /\ (\A u \in Threads : ~Inserting(u, k)) => SettledTable[k] = table[k]
        /\ \A u \in Threads : Inserting(u, k) => SettledTable[k] = node[u]

\* At most one thread decides what an absent key stands for.
LEMMA Settled == LocksInv => SettledOK
<1> SUFFICES ASSUME LocksInv, NEW k \in Keys
             PROVE  /\ (\A u \in Threads : ~Inserting(u, k)) => SettledTable[k] = table[k]
                    /\ \A u \in Threads : Inserting(u, k) => SettledTable[k] = node[u]
  BY DEF SettledTable, SettledOK
<1>1. ASSUME NEW u \in Threads, Inserting(u, k)
      PROVE  SettledTable[k] = node[u]
  <2>1. \A v \in Threads : at[v] = "insert" => v = u
    BY <1>1, OneInserter DEF Inserting
  <2>2. (CHOOSE v \in Threads : at[v] = "insert" /\ op[v].key = k) = u
    BY <1>1, <2>1 DEF Inserting
  <2> QED
    BY <1>1, <2>2 DEF SettledTable, Inserting
<1> QED
  BY <1>1 DEF SettledTable, Inserting

LEMMA SettledNext == LocksInv' => SettledOK'
BY Settled, PTL

\* A step that leaves the tables and the extracted nodes alone leaves the settled
\* table alone.
LEMMA SettledUnchanged ==
    ASSUME LocksInv, LocksInv', UNCHANGED <<table, node>>,
           \A u \in Threads, k \in Keys : Inserting(u, k)' <=> Inserting(u, k)
    PROVE  SettledTable' = SettledTable
<1>1. SettledOK /\ SettledOK'
  BY Settled, SettledNext
<1>2. \A k \in Keys : SettledTable'[k] = SettledTable[k]
  BY <1>1 DEF SettledOK
<1>3. /\ SettledTable = [k \in Keys |-> SettledTable[k]]
      /\ SettledTable' = [k \in Keys |-> SettledTable'[k]]
  BY DEF SettledTable
<1> QED
  BY <1>2, <1>3

\* A creation or a removal is alone with its table, so for it the settled table is
\* the table, before and after.
LEMMA SettledByWriters ==
    ASSUME LocksInv, LocksInv', NEW t \in Threads, Emplace(t) \/ Assign(t) \/ Erase(t)
    PROVE  /\ SettledTable[op[t].key] = table[op[t].key]
           /\ SettledTable'[op[t].key] = table'[op[t].key]
           /\ \A k \in Keys :
                table'[k] = table[k] /\ k # op[t].key => SettledTable'[k] = SettledTable[k]
<1>1. SettledOK /\ SettledOK'
  BY Settled, SettledNext
<1>2. /\ op' = op /\ op[t].key \in Keys
      /\ \A u \in Threads : u # t => at'[u] = at[u] /\ node'[u] = node[u]
  BY WritersWrite DEF Writes
<1>3. at[t] # "insert" /\ at'[t] # "insert"
  BY DEF Emplace, Assign, Erase, Step, LocksInv, TypeOK
<1>4. \A u \in Threads, k \in Keys : Inserting(u, k)' <=> Inserting(u, k)
  BY <1>2, <1>3 DEF Inserting
<1>5. \A u \in Threads : ~Inserting(u, op[t].key)
  BY <1>3, WriterIsAlone, WritersWrite DEF Writes, Inserting
<1>6. SettledTable[op[t].key] = table[op[t].key]
  BY <1>1, <1>2, <1>5 DEF SettledOK
<1>7. SettledTable'[op[t].key] = table'[op[t].key]
  BY <1>1, <1>2, <1>4, <1>5 DEF SettledOK
<1>8. ASSUME NEW k \in Keys, table'[k] = table[k]
      PROVE  SettledTable'[k] = SettledTable[k]
  <2>1. CASE \A u \in Threads : ~Inserting(u, k)
    BY <1>1, <1>4, <1>8, <2>1 DEF SettledOK
  <2>2. ASSUME NEW u \in Threads, Inserting(u, k)
        PROVE  SettledTable'[k] = SettledTable[k]
    <3>1. u # t /\ node'[u] = node[u] /\ Inserting(u, k)'
      BY <1>2, <1>3, <1>4, <2>2 DEF Inserting
    <3> QED
      BY <1>1, <2>2, <3>1 DEF SettledOK
  <2> QED
    BY <2>1, <2>2
<1> QED
  BY <1>6, <1>7, <1>8

LEMMA SettledFunction ==
    /\ SettledTable = [k \in Keys |-> SettledTable[k]]
    /\ SettledTable' = [k \in Keys |-> SettledTable'[k]]
BY DEF SettledTable

\* A creation is atomic: nobody sees it between its two steps.
LEMMA CreationIsAtomic ==
    ASSUME LocksInv, LocksInv', NEW t \in Threads, Emplace(t) \/ Assign(t)
    PROVE  [Atomic!Next]_Atomic!vars
<1> DEFINE c == op[t].key
<1>1. c \in Keys /\ IsValidKey(c) /\ op[t].mp \in MountPoints
  BY WritersWrite DEF Writes, LocksInv, OperationsOK, Inside, TypeOK, OperationType
<1>2. UNCHANGED <<answer, report>>
  BY DEF Emplace, Assign
<1>3. CASE UNCHANGED tableVars
  <2>1. \A k \in Keys : SettledTable'[k] = SettledTable[k]
    BY <1>3, SettledByWriters DEF tableVars
  <2>2. SettledTable' = SettledTable
    BY <2>1, SettledFunction
  <2> QED
    BY <1>2, <1>3, <2>2 DEF Atomic!vars, tableVars
<1>4. CASE ~UNCHANGED tableVars
  <2>1. PICK e \in FreeEntries :
            /\ e \in EntryIds /\ heap[e] = Freed
            /\ \A k \in Keys : table'[k] = IF k = c THEN e ELSE table[k]
            /\ \A a \in EntryIds :
                heap'[a] = IF a = e THEN op[t].mp
                           ELSE IF a = table[c] THEN Freed ELSE heap[a]
    BY <1>4, CreationIs
  <2>2. \A k \in Keys : SettledTable'[k] = IF k = c THEN e ELSE SettledTable[k]
    BY <1>1, <2>1, SettledByWriters
  <2>3. SettledTable' = [SettledTable EXCEPT ![c] = e]
    BY <2>2, SettledFunction
  <2>4. heap' = [Destroy(heap, SettledTable[c]) EXCEPT ![e] = op[t].mp]
    BY <2>1, SettledByWriters DEF Destroy, LocksInv, TypeOK, TableTypeOK
  <2>5. Atomic!Create(c, op[t].mp)
    BY <1>1, <1>2, <2>1, <2>3, <2>4
       DEF Atomic!Create, Atomic!create_mount_point_entry, Atomic!IsValidKey, IsValidKey,
           Atomic!is_file_pointer_valid, is_file_pointer_valid,
           Atomic!is_file_descriptor_valid, is_file_descriptor_valid,
           Atomic!FreeEntries, Atomic!Destroy, Destroy
  <2> QED
    BY <1>1, <2>5 DEF Atomic!Next, Atomic!Keys, Keys, Atomic!MountPoints, MountPoints
<1> QED
  BY <1>3, <1>4

LEMMA ErasureIsAtomic ==
    ASSUME LocksInv, LocksInv', NEW t \in Threads, Erase(t)
    PROVE  [Atomic!Next]_Atomic!vars
<1> DEFINE c == op[t].key
<1>1. c \in Keys /\ IsValidKey(c)
  BY WritersWrite DEF Writes, LocksInv, OperationsOK, Inside
<1>2. \A k \in Keys : table'[k] = IF k = c THEN NoEntry ELSE table[k]
  BY <1>1 DEF Erase, LocksInv, TypeOK, TableTypeOK
<1>3. \A k \in Keys : SettledTable'[k] = IF k = c THEN NoEntry ELSE SettledTable[k]
  BY <1>1, <1>2, SettledByWriters
<1>4. SettledTable' = [SettledTable EXCEPT ![c] = NoEntry]
  BY <1>3, SettledFunction
<1>5. heap' = Destroy(heap, SettledTable[c]) /\ UNCHANGED <<answer, report>>
  BY SettledByWriters DEF Erase
<1>6. Atomic!Remove(c)
  BY <1>1, <1>4, <1>5
     DEF Atomic!Remove, Atomic!remove_mount_point_entry, Atomic!IsValidKey, IsValidKey,
         Atomic!is_file_pointer_valid, is_file_pointer_valid,
         Atomic!is_file_descriptor_valid, is_file_descriptor_valid,
         Atomic!Destroy, Destroy
<1> QED
  BY <1>1, <1>6 DEF Atomic!Next, Atomic!Keys, Keys

\* The first half of a replacement is invisible ...
LEMMA ExtractionIsInvisible ==
    ASSUME LocksInv, LocksInv', NEW t \in Threads, Extract(t)
    PROVE  UNCHANGED Atomic!vars
<1> DEFINE c == op[t].key
<1>1. SettledOK /\ SettledOK'
  BY Settled, SettledNext
<1>2. /\ op' = op /\ heap' = heap /\ c \in Keys /\ node'[t] = table[c]
      /\ at'[t] = IF table[c] = NoEntry THEN "release" ELSE "insert"
      /\ \A k \in Keys : table'[k] = IF k = c THEN NoEntry ELSE table[k]
      /\ \A u \in Threads : at[u] # "insert"
      /\ \A u \in Threads : u # t => at'[u] # "insert"
  BY ExtractionIs, WritersWrite DEF Writes, Keys
<1>3. \A k \in Keys : SettledTable[k] = table[k]
  BY <1>1, <1>2 DEF SettledOK, Inserting
<1>4. ASSUME NEW k \in Keys
      PROVE  SettledTable'[k] = table[k]
  <2>1. CASE Inserting(t, k)'
    BY <1>1, <1>2, <2>1 DEF SettledOK, Inserting
  <2>2. CASE ~Inserting(t, k)'
    <3>1. \A u \in Threads : ~Inserting(u, k)'
      BY <1>2, <2>2 DEF Inserting
    <3>2. SettledTable'[k] = table'[k]
      BY <1>1, <3>1 DEF SettledOK
    <3> QED
      BY <1>2, <2>2, <3>2 DEF Inserting
  <2> QED
    BY <2>1, <2>2
<1>5. SettledTable' = SettledTable
  BY <1>3, <1>4, SettledFunction
<1> QED
  BY <1>2, <1>5 DEF Atomic!vars, Extract

\* ... and the second half is the whole of it.
LEMMA InsertionIsAtomic ==
    ASSUME LocksInv, LocksInv', NEW t \in Threads, Insert(t)
    PROVE  [Atomic!Next]_Atomic!vars
<1> DEFINE old == op[t].key
           new == op[t].new
<1>1. SettledOK /\ SettledOK'
  BY Settled, SettledNext
<1>2. /\ op' = op /\ at[t] = "insert" /\ old \in Fds /\ new \in Fds
      /\ old \in Keys /\ new \in Keys
      /\ IsValidKey(old) /\ IsValidKey(new)
      /\ node[t] \in EntryIds /\ node[t] # NoEntry /\ table[old] = NoEntry
      /\ \A u \in Threads : at'[u] # "insert"
      /\ \A u \in Threads : at[u] = "insert" => u = t
      /\ UNCHANGED <<answer, report>>
  BY InsertionIs, OneInserter, TableAssumption DEF Keys, Insert, LocksInv, EntriesOwned
<1>3. SettledTable[old] = node[t]
  BY <1>1, <1>2 DEF SettledOK, Inserting
<1>4. \A k \in Keys : k # old => SettledTable[k] = table[k]
  BY <1>1, <1>2 DEF SettledOK, Inserting
<1>5. \A k \in Keys : SettledTable'[k] = table'[k]
  BY <1>1, <1>2 DEF SettledOK, Inserting
<1>6. Atomic!Replace(old, new)
  <2>1. CASE table[new] = NoEntry
    <3>1. heap' = heap /\ \A k \in Keys : table'[k] = IF k = new THEN node[t] ELSE table[k]
      BY <1>2, <2>1, InsertionIs DEF LocksInv, TypeOK, TableTypeOK
    <3>2. \A k \in Keys :
            SettledTable'[k] = IF k = new THEN SettledTable[old]
                               ELSE IF k = old THEN NoEntry ELSE SettledTable[k]
      BY <1>2, <1>3, <1>4, <1>5, <3>1
    <3>3. SettledTable' = [SettledTable EXCEPT ![old] = NoEntry, ![new] = SettledTable[old]]
      BY <3>2, SettledFunction
    <3>4. new = old \/ SettledTable[new] = NoEntry
      BY <1>2, <1>4, <2>1
    <3> QED
      BY <1>2, <1>3, <3>1, <3>3, <3>4
         DEF Atomic!Replace, Atomic!replace_file_descriptor, Atomic!IsValidKey, IsValidKey,
             Atomic!is_file_pointer_valid, is_file_pointer_valid,
             Atomic!is_file_descriptor_valid, is_file_descriptor_valid
  <2>2. CASE table[new] # NoEntry
    <3>1. new # old /\ table' = table /\ heap' = Destroy(heap, node[t])
      BY <1>2, <2>2, InsertionIs
    <3>2. \A k \in Keys : SettledTable'[k] = IF k = old THEN NoEntry ELSE SettledTable[k]
      BY <1>2, <1>4, <1>5, <3>1
    <3>3. SettledTable' = [SettledTable EXCEPT ![old] = NoEntry]
      BY <3>2, SettledFunction
    <3>4. new # old /\ SettledTable[new] # NoEntry
      BY <1>2, <1>4, <2>2, <3>1
    <3> QED
      BY <1>2, <1>3, <3>1, <3>3, <3>4
         DEF Atomic!Replace, Atomic!replace_file_descriptor, Atomic!IsValidKey, IsValidKey,
             Atomic!is_file_pointer_valid, is_file_pointer_valid,
             Atomic!is_file_descriptor_valid, is_file_descriptor_valid,
             Atomic!Destroy, Destroy
  <2> QED
    BY <2>1, <2>2
<1> QED
  BY <1>2, <1>6 DEF Atomic!Next

\* The steps that leave the tables alone, and the extracted nodes.
LEMMA SettledByReaders ==
    ASSUME LocksInv, LocksInv', NEW t \in Threads,
           Begin(t) \/ Acquire(t) \/ Find(t) \/ Visit(t) \/ Finish(t) \/ Release(t)
    PROVE  SettledTable' = SettledTable /\ heap' = heap
<1>1. UNCHANGED <<table, heap, node>>
  BY DEF Begin, Acquire, Find, Visit, Finish, Release, tableVars
<1>2. /\ at'[t] # "insert" /\ at[t] # "insert"
      /\ \A u \in Threads : u # t => at'[u] = at[u] /\ op'[u] = op[u]
  <2>1. CASE Acquire(t)
    BY <2>1 DEF Acquire, FirstStep, LocksInv, TypeOK
  <2> QED
    BY <2>1 DEF Begin, Find, Visit, Finish, Release, Step, LocksInv, TypeOK
<1>3. \A u \in Threads, k \in Keys : Inserting(u, k)' <=> Inserting(u, k)
  BY <1>2 DEF Inserting
<1> QED
  BY <1>1, <1>3, SettledUnchanged

\* A lookup finds what the table settles on: it holds the lock of its key.
LEMMA FindIsAtomic ==
    ASSUME LocksInv, LocksInv', NEW t \in Threads, Find(t)
    PROVE  [Atomic!Next]_Atomic!vars
<1> DEFINE c == op[t].key
<1>1. at[t] = "find" /\ Inside(t) /\ c \in Keys /\ IsValidKey(c)
  BY DEF Find, Step, Inside, LocksInv, OperationsOK
<1>2. \A u \in Threads : ~Inserting(u, c)
  <2> SUFFICES ASSUME NEW u \in Threads, Inserting(u, c) PROVE FALSE
    OBVIOUS
  <2>1. u # t /\ Inside(u) /\ IsWriter(op[u]) /\ op[u].key = c
    BY <1>1, OperationAt DEF Inserting, Inside, IsWriter, LocksInv
  <2>2. LockOf(op[t]) # LockOf(op[u])
    BY <1>1, <2>1, Exclusive DEF LocksInv
  <2> QED
    BY <2>1, <2>2 DEF LockOf
<1>3. SettledTable[c] = table[c]
  BY <1>1, <1>2, Settled DEF SettledOK
<1>4. Atomic!Get(t, c)
  BY <1>1, <1>3, SettledByReaders
     DEF Find, Atomic!Get, Atomic!get_mount_point_entry, Atomic!IsValidKey, IsValidKey,
         Atomic!is_file_pointer_valid, is_file_pointer_valid,
         Atomic!is_file_descriptor_valid, is_file_descriptor_valid
<1> QED
  BY <1>1, <1>4 DEF Atomic!Next, Atomic!Keys, Keys

\* A report is what the settled table is at its end: while it walks nobody changes
\* the table it walks through.
LEMMA FinishIsAtomic ==
    ASSUME LocksInv, LocksInv', NEW t \in Threads, Finish(t)
    PROVE  [Atomic!Next]_Atomic!vars
<1>1. at[t] = "walk" /\ Unvisited(t) = {} /\ op[t].key \in Fds
  BY OperationAt DEF Finish, Step, LocksInv, OperationsOK
<1>2. ASSUME NEW k \in Fds
      PROVE  SettledTable[k] = table[k]
  <2>1. \A u \in Threads : ~Inserting(u, k)
    <3> SUFFICES ASSUME NEW u \in Threads, Inserting(u, k) PROVE FALSE
      OBVIOUS
    <3>1. u # t /\ Inside(u) /\ IsWriter(op[u]) /\ op[u].key \in Fds
      BY <1>1, OperationAt DEF Inserting, Inside, IsWriter, LocksInv
    <3> QED
      BY <1>1, <3>1, WriterIsAlone
  <2> QED
    BY <2>1, Settled DEF SettledOK, Keys
<1>3. ASSUME NEW s \in seen[t] PROVE s \in Atomic!Snapshot
  <2>1. PICK k \in Fds : table[k] # NoEntry /\ s = <<k, heap[table[k]]>>
    BY DEF LocksInv, SeenCurrent
  <2> QED
    BY <1>2, <2>1 DEF Atomic!Snapshot
<1>4. ASSUME NEW s \in Atomic!Snapshot PROVE s \in seen[t]
  <2>1. PICK k \in Fds : table[k] # NoEntry /\ s = <<k, heap[table[k]]>>
    BY <1>2 DEF Atomic!Snapshot
  <2>2. PICK r \in seen[t] : r[1] = k
    BY <1>1, <2>1 DEF Unvisited, TableOf
  <2>3. PICK j \in Fds : r = <<j, heap[table[j]]>>
    BY <2>2 DEF LocksInv, SeenCurrent
  <2> QED
    BY <2>1, <2>2, <2>3
<1>5. seen[t] = Atomic!Snapshot
  BY <1>3, <1>4
<1>6. Atomic!Print_fd_table(t)
  BY <1>5, SettledByReaders DEF Finish, Atomic!Print_fd_table, tableVars
<1> QED
  BY <1>6 DEF Atomic!Next

LEMMA OutsideIsAtomic ==
    ASSUME LocksInv, LocksInv', NEW t \in Threads,
           Begin(t) \/ Acquire(t) \/ Visit(t) \/ Release(t)
    PROVE  [Atomic!Next]_Atomic!vars
<1>1. SettledTable' = SettledTable /\ heap' = heap
  BY SettledByReaders
<1>2. CASE Begin(t) \/ Acquire(t) \/ Visit(t)
  BY <1>1, <1>2 DEF Begin, Acquire, Visit, Atomic!vars
<1>3. CASE Release(t)
  <2>1. Atomic!Return(t)
    BY <1>1, <1>3 DEF Release, Atomic!Return
  <2> QED
    BY <2>1 DEF Atomic!Next
<1> QED
  BY <1>2, <1>3

\* MountPointTableLocks implements AtomicTable: although a creation takes two steps,
\* a replacement an extraction and an insertion, and a report one step per entry,
\* every lookup and report shows the tables between two whole operations.
THEOREM ImplementsAtomicTableCorrect == Spec => ImplementsAtomicTable
<1>1. Init => Atomic!Init
  <2> SUFFICES ASSUME Init PROVE Atomic!Init
    OBVIOUS
  <2>1. \A t \in Threads : at[t] # "insert"
    BY DEF Init
  <2>2. SettledTable = table
    BY <2>1 DEF SettledTable, Init, TableInit
  <2> QED
    BY <2>2 DEF Init, TableInit, Atomic!Init, Atomic!TableInit, Atomic!Keys, Keys
<1>2. LocksInv /\ LocksInv' /\ [Next]_vars => [Atomic!Next]_Atomic!vars
  <2> SUFFICES ASSUME LocksInv, LocksInv', [Next]_vars PROVE [Atomic!Next]_Atomic!vars
    OBVIOUS
  <2>1. CASE UNCHANGED vars
    <3>1. SettledTable' = SettledTable
      BY <2>1 DEF vars, SettledTable
    <3> QED
      BY <2>1, <3>1 DEF vars, Atomic!vars
  <2>2. ASSUME NEW t \in Threads, Begin(t) \/ Acquire(t) \/ Release(t)
        PROVE  [Atomic!Next]_Atomic!vars
    BY <2>2, OutsideIsAtomic
  <2>3. ASSUME NEW t \in Threads, Works(t)
        PROVE  [Atomic!Next]_Atomic!vars
    BY <2>3, CreationIsAtomic, ErasureIsAtomic, ExtractionIsInvisible, InsertionIsAtomic,
        FindIsAtomic, FinishIsAtomic, OutsideIsAtomic DEF Works
  <2> QED
    BY <2>1, <2>2, <2>3, BodyIs DEF Next
<1> QED
  BY <1>1, <1>2, LocksInvCorrect, PTL DEF Spec, ImplementsAtomicTable, Atomic!Spec

================================================================================
