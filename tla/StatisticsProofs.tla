----------------------------- MODULE StatisticsProofs --------------------------
(***************************************************************************)
(* Type correctness of Statistics, mutual exclusion on its counters, the   *)
(* refinement of AtomicCounters, and that mutexes are not nested.          *)
(***************************************************************************)
EXTENDS Statistics, TLAPS

\* The part of the assumption most steps need.
LEMMA SizePositive == Size \in Nat \ {0}
BY StatisticsAssumption

\* A copy loads each of the four counters once, in some order.
LEMMA CopyElements ==
    ASSUME NEW e, NEW o \in CopyOrders
    PROVE  /\ Len(StatisticEntry_copy(e, o)) = 4
           /\ \A i \in 1 .. 4 :
                /\ o[i] \in Columns
                /\ StatisticEntry_copy(e, o)[i] = Access("copy", e, o[i], 0)
                /\ StatisticEntry_copy(e, o)[i].do = "copy"
           /\ \A c \in Columns : \E i \in 1 .. 4 : o[i] = c
BY StatisticsAssumption DEF StatisticEntry_copy, Access

LEMMA AccessesTyped ==
    ASSUME NEW e \in Entries
    PROVE  /\ \A b \in Bytes : update_statistic_entry(e, 1, b) \in Seq(AccessType)
           /\ update_statistic_entry_error(e, 1, 0, 1) \in Seq(AccessType)
           /\ update_bypassed_statistic_entry(e, 1) \in Seq(AccessType)
           /\ \A o \in CopyOrders : StatisticEntry_copy(e, o) \in Seq(AccessType)
           /\ \A o \in CopyOrders : get_statistic_entry(e, o) \in Seq(AccessType)
           /\ probe_entry(e) \in Seq(AccessType)
           /\ table_row(e) \in Seq(AccessType)
<1>1. \A c \in Columns, n \in Amounts : Increment(e, c, n) \in AccessType
  BY DEF Increment, Access, AccessType
<1>2. \A c \in Columns, do \in {"probe", "keep", "copy", "row", "sum"} :
        Access(do, e, c, 0) \in AccessType
  BY DEF Access, AccessType, Amounts
<1>3. \A do \in {"lock", "unlock"} :
        Access(do, StatsMutex, "operation", 0) \in AccessType
  BY DEF Access, AccessType, Amounts, Columns
<1>4. {"operation", "byte", "error", "bypass"} = Columns
  BY DEF Columns
<1>5. {0, 1} \subseteq Amounts /\ Bytes \subseteq Amounts
  BY DEF Amounts
<1>6. ASSUME NEW o \in CopyOrders PROVE StatisticEntry_copy(e, o) \in Seq(AccessType)
  BY <1>2, CopyElements DEF StatisticEntry_copy
<1>7. ASSUME NEW o \in CopyOrders PROVE get_statistic_entry(e, o) \in Seq(AccessType)
  BY <1>3, <1>6 DEF get_statistic_entry
<1>8. probe_entry(e) \in Seq(AccessType)
  BY <1>2, <1>4 DEF probe_entry
<1>9. table_row(e) \in Seq(AccessType)
  BY <1>2, <1>4 DEF table_row
<1>10. \A b \in Bytes : update_statistic_entry(e, 1, b) \in Seq(AccessType)
  BY <1>1, <1>4, <1>5 DEF update_statistic_entry
<1>11. update_statistic_entry_error(e, 1, 0, 1) \in Seq(AccessType)
  BY <1>1, <1>4, <1>5 DEF update_statistic_entry_error
<1>12. update_bypassed_statistic_entry(e, 1) \in Seq(AccessType)
  BY <1>1, <1>4, <1>5 DEF update_bypassed_statistic_entry
<1> QED BY <1>6, <1>7, <1>8, <1>9, <1>10, <1>11, <1>12

LEMMA ReportsTyped ==
    /\ to_string \in Seq(AccessType)
    /\ tabulate \in Seq(AccessType)
<1>1. ASSUME NEW i \in 1 .. 4 * Size
      PROVE  (i - 1) \div 4 \in Entries /\ ((i - 1) % 4) + 1 \in 1 .. 4
  BY SizePositive DEF Entries
<1>2. ASSUME NEW e \in Entries, NEW j \in 1 .. 4
      PROVE  probe_entry(e)[j] \in AccessType /\ table_row(e)[j] \in AccessType
  BY AccessesTyped DEF probe_entry, table_row
<1>3. to_string \in Seq(AccessType)
  BY <1>1, <1>2, SizePositive DEF to_string, EachEntry
<1>4. EachEntry(table_row) \in Seq(AccessType)
  BY <1>1, <1>2, SizePositive DEF EachEntry
<1>5. ASSUME NEW c \in Columns PROVE aggregate_counters(c) \in Seq(AccessType)
  BY SizePositive DEF aggregate_counters, AccessType, Access, Entries, Amounts
<1>6. table_totals \in Seq(AccessType)
  BY <1>5 DEF table_totals, Columns
<1>7. tabulate \in Seq(AccessType)
  BY <1>4, <1>6 DEF tabulate
<1> QED BY <1>3, <1>7

--------------------------------------------------------------------------------
(* Type correctness.                                                       *)

LEMMA MaxCallsType == ASSUME NEW t \in Threads PROVE MaxCalls(t) \in Nat
BY StatisticsAssumption DEF MaxCalls

LEMMA PositionIsEntry == ASSUME NEW e \in Entries PROVE position(e) \in Entries
BY StatisticsAssumption DEF position, Entries

\* The next access of a call, and what is left of it.
LEMMA NextAccess ==
    ASSUME TypeOK, NEW t \in Threads, work[t] # <<>>
    PROVE  Head(work[t]) \in AccessType /\ Tail(work[t]) \in Seq(AccessType)
BY DEF TypeOK

LEMMA AccessFields ==
    ASSUME NEW a \in AccessType
    PROVE  /\ a.entry \in Mutexes /\ a.column \in Columns /\ a.by \in Nat
           /\ a.by \in Amounts
           /\ a.do \in {"increment", "probe", "keep", "copy", "row", "sum"} =>
                a.entry \in Entries
           /\ a.do \in {"lock", "unlock"} => a.entry = StatsMutex
<1>1. Amounts \subseteq Nat /\ Entries \subseteq Mutexes /\ StatsMutex \in Mutexes
  BY StatisticsAssumption DEF Mutexes, Entries, StatsMutex, Amounts
<1>2. CASE a \in [do : {"increment", "probe", "keep", "copy", "row", "sum"},
                  entry : Entries, column : Columns, by : Amounts]
  BY <1>1, <1>2
<1>3. CASE a \in [do : {"lock", "unlock"}, entry : {StatsMutex}, column : Columns,
                  by : Amounts]
  BY <1>1, <1>3
<1> QED
  BY <1>2, <1>3 DEF AccessType

LEMMA CallTyped ==
    ASSUME TypeOK, NEW t \in Threads, NEW accesses \in Seq(AccessType), Call(t, accesses)
    PROVE  /\ work' \in [Threads -> Seq(AccessType)]
           /\ calls' \in [Threads -> Nat]
           /\ \A u \in Threads : calls'[u] <= MaxCalls(u)
BY MaxCallsType DEF TypeOK, Call

LEMMA ReportTyped ==
    ASSUME TypeOK, NEW t \in Threads, NEW accesses \in Seq(AccessType),
           NEW sum \in {0, Unread}, NEW tested \in SUBSET Entries,
           Report(t, accesses, sum, tested)
    PROVE  TypeOK'
BY CallTyped DEF TypeOK, Report, NoRow

LEMMA UpdateTyped ==
    ASSUME TypeOK, NEW t \in Threads, Update(t)
    PROVE  TypeOK'
<1>1. PICK accesses \in Seq(AccessType) : Call(t, accesses)
  <2>1. PICK e \in Entries :
            \/ \E b \in Bytes : Call(t, update_statistic_entry(position(e), 1, b))
            \/ Call(t, update_statistic_entry_error(position(e), 1, 0, 1))
            \/ Call(t, update_bypassed_statistic_entry(position(e), 1))
    BY DEF Update
  <2> QED
    BY <2>1, PositionIsEntry, AccessesTyped
<1> QED
  BY <1>1, CallTyped DEF TypeOK, Update

LEMMA BeginTyped ==
    ASSUME TypeOK, NEW t \in Threads, Begin(t)
    PROVE  TypeOK'
<1>1. CASE Update(t)
  BY <1>1, UpdateTyped
<1>2. CASE CallGetEntry(t)
  <2>1. PICK e \in Entries, o \in CopyOrders :
            Report(t, get_statistic_entry(position(e), o), Unread, {})
    BY <1>2 DEF CallGetEntry
  <2> QED
    BY <2>1, PositionIsEntry, AccessesTyped, ReportTyped
<1>3. CASE CallToString(t)
  BY <1>3, ReportsTyped, ReportTyped DEF CallToString
<1>4. CASE CallTabulate(t)
  BY <1>4, ReportsTyped, ReportTyped DEF CallTabulate
<1> QED
  BY <1>1, <1>2, <1>3, <1>4 DEF Begin

LEMMA ContinueTyped ==
    ASSUME TypeOK, NEW t \in Threads, Continue(t)
    PROVE  TypeOK'
<1> DEFINE a == Head(work[t])
<1>1. work[t] # <<>>
  BY DEF Continue, Enter, Leave, Copy, Keep, LockStatistics, UnlockStatistics, Pending
<1>2. a \in AccessType /\ Tail(work[t]) \in Seq(AccessType)
  BY <1>1, NextAccess
<1>3. CASE Enter(t)
  <2>1. a.entry \in Entries /\ a.column \in Columns /\ a.entry \in Mutexes
    BY <1>2, <1>3, AccessFields DEF Enter, Pending
  <2> QED
    BY <1>3, <2>1 DEF TypeOK, Enter
<1>4. CASE Leave(t)
  <2>1. a.entry \in Entries /\ a.column \in Columns /\ a.by \in Nat
    BY <1>2, <1>4, AccessFields DEF Leave, Pending
  <2>2. loaded[t] \in Nat
    BY <1>4 DEF TypeOK, Leave
  <2>3. counters' \in [Entries -> [Columns -> Nat]]
    BY <1>4, <2>1, <2>2 DEF TypeOK, Leave
  <2>4. probe' \in [Threads -> Nat]
    BY <1>4, <2>2 DEF TypeOK, Leave
  <2>5. rows' \in [Threads -> [Entries -> [Columns -> Nat \cup {Unread}]]]
    BY <1>4, <2>1, <2>2 DEF TypeOK, Leave
  <2>6. totals' \in [Threads -> [Columns -> Nat \cup {Unread}]]
    <3>1. totals[t][a.column] \in Nat \cup {-1}
      BY <2>1 DEF TypeOK, Unread
    <3>2. totals[t][a.column] + loaded[t] \in Nat \cup {-1}
      BY <2>2, <3>1
    <3> QED
      BY <1>4, <2>1, <3>2 DEF TypeOK, Leave, Unread
  <2>7. work' \in [Threads -> Seq(AccessType)]
    BY <1>2, <1>4 DEF TypeOK, Leave, Advance, Done
  <2>8. owner' \in [Mutexes -> Threads \cup {Nobody}] /\ loaded' \in [Threads -> Nat \cup {Unread}]
    BY <1>4 DEF TypeOK, Leave
  <2> QED
    BY <1>4, <2>3, <2>4, <2>5, <2>6, <2>7, <2>8 DEF TypeOK, Leave
<1>5. CASE Copy(t)
  <2>1. a.entry \in Entries /\ a.column \in Columns
    BY <1>2, <1>5, AccessFields DEF Copy, Pending
  <2> QED
    BY <1>2, <1>5, <2>1 DEF TypeOK, Copy, Done
<1>6. CASE Keep(t)
  <2>1. a.entry \in Entries
    BY <1>2, <1>6, AccessFields DEF Keep, Pending
  <2>2. \A o \in CopyOrders : StatisticEntry_copy(a.entry, o) \in Seq(AccessType)
    BY <2>1, AccessesTyped
  <2>3. work' \in [Threads -> Seq(AccessType)]
    <3>1. PICK w \in Seq(AccessType) : work' = [work EXCEPT ![t] = w]
      <4>1. CASE Done(t)
        BY <1>2, <4>1 DEF Done, TypeOK
      <4>2. CASE ~Done(t)
        <5>1. PICK o \in CopyOrders :
                work' = [work EXCEPT ![t] = StatisticEntry_copy(a.entry, o) \o Tail(@)]
          BY <1>6, <4>2 DEF Keep
        <5>2. StatisticEntry_copy(a.entry, o) \o Tail(work[t]) \in Seq(AccessType)
          BY <1>2, <2>2
        <5> QED
          BY <5>1, <5>2 DEF TypeOK
      <4> QED
        BY <4>1, <4>2
    <3> QED
      BY <3>1 DEF TypeOK
  <2> QED
    BY <1>6, <2>3 DEF TypeOK, Keep
<1>7. CASE LockStatistics(t)
  BY <1>2, <1>7 DEF TypeOK, LockStatistics, Done
<1>8. CASE UnlockStatistics(t)
  BY <1>2, <1>8 DEF TypeOK, UnlockStatistics, Done
<1> QED
  BY <1>3, <1>4, <1>5, <1>6, <1>7, <1>8 DEF Continue

--------------------------------------------------------------------------------
(* The mutexes.                                                            *)

Locked == {"increment", "probe", "row", "sum"}

\* A thread inside an access cannot begin another call, or make another access.
LEMMA OutsideUnlessLeaving ==
    ASSUME StatisticsInv, NEW t \in Threads, Begin(t) \/ Continue(t), ~Leave(t)
    PROVE  ~Inside(t)
<1>1. Inside(t) => Pending(t, Locked)
  BY DEF StatisticsInv, LoadedIsCurrent, Locked
<1>2. CASE Begin(t)
  BY <1>1, <1>2 DEF Begin, Update, CallGetEntry, CallToString, CallTabulate, Report, Call,
      Pending
<1>3. CASE Enter(t)
  BY <1>3 DEF Enter, Inside
<1>4. CASE Copy(t) \/ Keep(t) \/ LockStatistics(t) \/ UnlockStatistics(t)
  BY <1>1, <1>4 DEF Copy, Keep, LockStatistics, UnlockStatistics, Pending, Locked
<1> QED
  BY <1>2, <1>3, <1>4 DEF Continue

\* What one thread does to the others: their calls stay as they are.
LEMMA OthersKeepTheirCalls ==
    ASSUME TypeOK, NEW t \in Threads, Begin(t) \/ Continue(t),
           NEW u \in Threads, u # t
    PROVE  work'[u] = work[u] /\ loaded'[u] = loaded[u] /\ rows'[u] = rows[u]
           /\ totals'[u] = totals[u]
<1>1. CASE Begin(t)
  BY <1>1 DEF TypeOK, Begin, Update, CallGetEntry, CallToString, CallTabulate, Report, Call
<1>2. CASE Enter(t)
  BY <1>2 DEF TypeOK, Enter
<1>3. CASE Leave(t)
  BY <1>3 DEF TypeOK, Leave, Advance, Done
<1>4. CASE Copy(t)
  BY <1>4 DEF TypeOK, Copy, Done
<1>5. CASE Keep(t)
  BY <1>5 DEF TypeOK, Keep, Done
<1>6. CASE LockStatistics(t) \/ UnlockStatistics(t)
  BY <1>6 DEF TypeOK, LockStatistics, UnlockStatistics, Done
<1> QED
  BY <1>1, <1>2, <1>3, <1>4, <1>5, <1>6 DEF Continue

\* The mutex of an entry and its counters stay what they are, unless a thread
\* enters while the mutex is free, or leaves while it holds it.
LEMMA EntriesOfOthers ==
    ASSUME StatisticsInv, NEW t \in Threads, Begin(t) \/ Continue(t),
           NEW e \in Entries, owner[e] \notin {t, Nobody}
    PROVE  owner'[e] = owner[e] /\ counters'[e] = counters[e]
<1> DEFINE a == Head(work[t])
<1>1. e \in Mutexes /\ e # StatsMutex
  BY StatisticsAssumption DEF Entries, Mutexes, StatsMutex
<1>2. CASE Begin(t)
  BY <1>2 DEF Begin, Update, CallGetEntry, CallToString, CallTabulate, Report
<1>3. CASE Enter(t)
  <2>1. Locks(a) => owner[a.entry] = Nobody
    BY <1>3 DEF Enter
  <2> QED
    BY <1>1, <1>3, <2>1 DEF Enter, StatisticsInv, TypeOK
<1>4. CASE Leave(t)
  <2>1. owner[a.entry] = t
    BY <1>4 DEF StatisticsInv, LoadedIsCurrent, Leave, Inside
  <2> QED
    BY <1>1, <1>4, <2>1 DEF Leave, StatisticsInv, TypeOK
<1>5. CASE Copy(t) \/ Keep(t)
  BY <1>5 DEF Copy, Keep
<1>6. CASE LockStatistics(t) \/ UnlockStatistics(t)
  BY <1>1, <1>6 DEF LockStatistics, UnlockStatistics, StatisticsInv, TypeOK
<1> QED
  BY <1>2, <1>3, <1>4, <1>5, <1>6 DEF Continue

\* The thread that steps itself is inside afterwards only if it has just entered.
LEMMA EnterLoadsCurrent ==
    ASSUME StatisticsInv, NEW t \in Threads, Begin(t) \/ Continue(t), Inside(t)'
    PROVE  LET a == Head(work'[t])
           IN  /\ work'[t] # <<>> /\ a.do \in Locked
               /\ owner'[a.entry] = t
               /\ loaded'[t] = counters'[a.entry][a.column]
<1> DEFINE a == Head(work[t])
<1>1. CASE Enter(t)
  <2>1. work' = work /\ counters' = counters /\ Pending(t, Locked)
    BY <1>1 DEF Enter, Locked
  <2>2. a \in AccessType /\ a.entry \in Mutexes /\ Locks(a)
    BY <2>1, NextAccess, AccessFields DEF StatisticsInv, Pending, Locks, Locked
  <2>3. owner'[a.entry] = t /\ loaded'[t] = counters[a.entry][a.column]
    BY <1>1, <2>2 DEF Enter, StatisticsInv, TypeOK
  <2> QED
    BY <2>1, <2>3 DEF Pending
<1>2. CASE Leave(t)
  BY <1>2 DEF Leave, Inside, StatisticsInv, TypeOK
<1>3. CASE ~Enter(t) /\ ~Leave(t)
  <2>1. ~Inside(t)
    BY <1>3, OutsideUnlessLeaving
  <2>2. loaded' = loaded
    BY <1>3 DEF Begin, Update, CallGetEntry, CallToString, CallTabulate, Report, Continue,
        Copy, Keep, LockStatistics, UnlockStatistics
  <2> QED
    BY <2>1, <2>2 DEF Inside
<1> QED
  BY <1>1, <1>2, <1>3

LEMMA StepKeepsLoaded ==
    ASSUME StatisticsInv, NEW t \in Threads, Begin(t) \/ Continue(t)
    PROVE  LoadedIsCurrent'
<1> SUFFICES ASSUME NEW u \in Threads, Inside(u)'
             PROVE  LET a == Head(work'[u])
                    IN  /\ work'[u] # <<>> /\ a.do \in Locked
                        /\ owner'[a.entry] = u
                        /\ loaded'[u] = counters'[a.entry][a.column]
  BY DEF LoadedIsCurrent, Pending, Locked
<1>1. CASE u = t
  BY <1>1, EnterLoadsCurrent
<1>2. CASE u # t
  <2> DEFINE a == Head(work[u])
  <2>1. work'[u] = work[u] /\ loaded'[u] = loaded[u]
    BY <1>2, OthersKeepTheirCalls DEF StatisticsInv
  <2>2. /\ work[u] # <<>> /\ a.do \in Locked
        /\ owner[a.entry] = u
        /\ loaded[u] = counters[a.entry][a.column]
    BY <2>1 DEF StatisticsInv, LoadedIsCurrent, Inside, Pending, Locked
  <2>3. a.entry \in Entries
    BY <2>2, NextAccess, AccessFields DEF StatisticsInv, Locked
  <2>4. owner'[a.entry] = u /\ counters'[a.entry] = counters[a.entry]
    BY <1>2, <2>2, <2>3, EntriesOfOthers, StatisticsAssumption
  <2> QED
    BY <2>1, <2>2, <2>4
<1> QED
  BY <1>1, <1>2

LEMMA InitInv == Init => StatisticsInv
<1> SUFFICES ASSUME Init PROVE StatisticsInv
  OBVIOUS
<1>1. TypeOK
  BY MaxCallsType DEF Init, TypeOK, NoRow
<1>2. LoadedIsCurrent
  BY DEF Init, LoadedIsCurrent, Inside
<1> QED
  BY <1>1, <1>2 DEF StatisticsInv

LEMMA NextInv == StatisticsInv /\ [Next]_vars => StatisticsInv'
<1> SUFFICES ASSUME StatisticsInv, [Next]_vars PROVE StatisticsInv'
  OBVIOUS
<1>1. CASE UNCHANGED vars
  BY <1>1 DEF vars, StatisticsInv, TypeOK, LoadedIsCurrent, Inside, Pending
<1>2. ASSUME NEW t \in Threads, Begin(t) \/ Continue(t)
      PROVE  StatisticsInv'
  BY <1>2, BeginTyped, ContinueTyped, StepKeepsLoaded DEF StatisticsInv
<1> QED
  BY <1>1, <1>2 DEF Next

\* Whatever the number of threads, entries and calls: every variable keeps its
\* type, and while a thread is between the load and the store of an increment
\* nobody else changes the counter it loaded.
THEOREM StatisticsInvCorrect == Spec => []StatisticsInv
BY InitInv, NextInv, PTL DEF Spec

--------------------------------------------------------------------------------
(* The refinement.                                                         *)

\* A locked access is the abstract operation in the step that leaves it, because
\* the value it loaded is the one the counter still has.
LEMMA LeaveIsAtomic ==
    ASSUME StatisticsInv, NEW t \in Threads, Leave(t)
    PROVE  [Atomic!Next]_Atomic!vars
<1> DEFINE a == Head(work[t])
<1>1. /\ a.do \in Locked /\ work[t] # <<>>
      /\ loaded[t] = counters[a.entry][a.column]
  BY DEF Leave, StatisticsInv, LoadedIsCurrent, Inside, Pending, Locked
<1>2. a.entry \in Entries /\ a.column \in Columns /\ a.by \in Amounts
  BY <1>1, NextAccess, AccessFields DEF StatisticsInv, Locked
<1>3. a.entry \in Atomic!Entries /\ a.column \in Atomic!Columns
  BY <1>2 DEF Entries, Columns, Atomic!Entries, Atomic!Columns
<1>4. CASE a.do = "increment"
  <2>1. Atomic!Increment(a.entry, a.column, a.by)
    BY <1>1, <1>2, <1>4 DEF Leave, Atomic!Increment, StatisticsInv, TypeOK
  <2> QED
    BY <2>1, <1>2, <1>3 DEF Atomic!Next
<1>5. CASE a.do = "row"
  <2>1. Atomic!Read(t, a.entry, a.column)
    BY <1>1, <1>5 DEF Leave, Atomic!Read
  <2> QED
    BY <2>1, <1>3 DEF Atomic!Next
<1>6. CASE a.do = "sum"
  <2>1. Atomic!AddToTotal(t, a.entry, a.column)
    BY <1>1, <1>6 DEF Leave, Atomic!AddToTotal
  <2> QED
    BY <2>1, <1>3 DEF Atomic!Next
<1>7. CASE a.do = "probe"
  BY <1>7 DEF Leave, Atomic!vars
<1> QED
  BY <1>1, <1>4, <1>5, <1>6, <1>7 DEF Locked

LEMMA CopyIsAtomic ==
    ASSUME StatisticsInv, NEW t \in Threads, Copy(t)
    PROVE  [Atomic!Next]_Atomic!vars
<1> DEFINE a == Head(work[t])
<1>1. a.entry \in Entries /\ a.column \in Columns
  BY NextAccess, AccessFields DEF StatisticsInv, Copy, Pending
<1>2. Atomic!Read(t, a.entry, a.column)
  BY DEF Copy, Atomic!Read
<1> QED
  BY <1>1, <1>2 DEF Atomic!Next, Entries, Columns, Atomic!Entries, Atomic!Columns

LEMMA BeginIsAtomic ==
    ASSUME NEW t \in Threads, Begin(t)
    PROVE  [Atomic!Next]_Atomic!vars
<1>1. CASE Update(t)
  BY <1>1 DEF Update, Atomic!vars
<1>2. ASSUME NEW accesses, NEW sum \in {0, Unread}, NEW tested,
             Report(t, accesses, sum, tested)
      PROVE  Atomic!Next
  <2>1. Atomic!Start(t, sum)
    BY <1>2 DEF Report, Atomic!Start, NoRow, Atomic!NoRow, Entries, Columns,
        Atomic!Entries, Atomic!Columns
  <2> QED
    BY <2>1 DEF Atomic!Next
<1> QED
  BY <1>1, <1>2 DEF Begin, CallGetEntry, CallToString, CallTabulate

\* Statistics implements AtomicCounters: increments are never lost, and every
\* number a report or a copy shows is one its counter had during that report,
\* although copies take no mutex and no mutex spans two counters.
THEOREM ImplementsAtomicCountersCorrect == Spec => ImplementsAtomicCounters
<1>1. Init => Atomic!Init
  BY DEF Init, Atomic!Init, NoRow, Atomic!NoRow, Entries, Columns, Atomic!Entries,
      Atomic!Columns
<1>2. StatisticsInv /\ [Next]_vars => [Atomic!Next]_Atomic!vars
  <2> SUFFICES ASSUME StatisticsInv, [Next]_vars PROVE [Atomic!Next]_Atomic!vars
    OBVIOUS
  <2>1. CASE UNCHANGED vars
    BY <2>1 DEF vars, Atomic!vars
  <2>2. ASSUME NEW t \in Threads, Begin(t)
        PROVE  [Atomic!Next]_Atomic!vars
    BY <2>2, BeginIsAtomic
  <2>3. ASSUME NEW t \in Threads, Continue(t)
        PROVE  [Atomic!Next]_Atomic!vars
    <3>1. CASE Leave(t)
      BY <3>1, LeaveIsAtomic
    <3>2. CASE Copy(t)
      BY <3>2, CopyIsAtomic
    <3>3. CASE Enter(t) \/ Keep(t) \/ LockStatistics(t) \/ UnlockStatistics(t)
      BY <3>3 DEF Enter, Keep, LockStatistics, UnlockStatistics, Atomic!vars
    <3> QED
      BY <2>3, <3>1, <3>2, <3>3 DEF Continue
  <2> QED
    BY <2>1, <2>2, <2>3 DEF Next
<1> QED
  BY <1>1, <1>2, StatisticsInvCorrect, PTL
      DEF Spec, ImplementsAtomicCounters, Atomic!Spec

--------------------------------------------------------------------------------
(* Whoever holds a mutex never waits for one.                              *)

\* What is left of get_statistic_entry once it has m_stats_mutex.
HoldingRest(w) ==
    /\ w # <<>>
    /\ \A i \in 1 .. Len(w) : w[i].do = IF i = Len(w) THEN "unlock" ELSE "copy"

\* m_stats_mutex is taken first, by get_statistic_entry alone.
LocksFirst(w) ==
    \A i \in 1 .. Len(w) : w[i].do = "lock" => i = 1 /\ HoldingRest(Tail(w))

NoLock(w) == \A i \in 1 .. Len(w) : w[i].do # "lock"

HolderInv ==
    \A t \in Threads :
        /\ LocksFirst(work[t])
        /\ owner[StatsMutex] = t => HoldingRest(work[t])
        /\ \A e \in Entries : owner[e] = t => Inside(t) /\ Head(work[t]).entry = e

LEMMA TailElements ==
    ASSUME NEW w \in Seq(AccessType), w # <<>>
    PROVE  /\ Len(Tail(w)) = Len(w) - 1 /\ Len(w) \in Nat \ {0} /\ Head(w) = w[1]
           /\ \A i \in 1 .. Len(Tail(w)) : i + 1 \in 1 .. Len(w) /\ Tail(w)[i] = w[i + 1]
OBVIOUS

LEMMA NoLocksLeft ==
    ASSUME NEW w \in Seq(AccessType), w # <<>>, LocksFirst(w)
    PROVE  NoLock(Tail(w))
<1>1. \A i \in 1 .. Len(Tail(w)) : i + 1 \in 1 .. Len(w) /\ Tail(w)[i] = w[i + 1]
  BY TailElements
<1> SUFFICES ASSUME NEW i \in 1 .. Len(Tail(w)), Tail(w)[i].do = "lock" PROVE FALSE
  BY DEF NoLock
<1>2. i + 1 = 1
  BY <1>1 DEF LocksFirst
<1> QED
  BY <1>2

LEMMA RestOfHolding ==
    ASSUME NEW w \in Seq(AccessType), HoldingRest(w), Head(w).do # "unlock"
    PROVE  Head(w).do = "copy" /\ HoldingRest(Tail(w))
<1>1. /\ Len(Tail(w)) = Len(w) - 1 /\ Len(w) \in Nat \ {0} /\ Head(w) = w[1]
      /\ \A i \in 1 .. Len(Tail(w)) : i + 1 \in 1 .. Len(w) /\ Tail(w)[i] = w[i + 1]
  BY TailElements DEF HoldingRest
<1>2. 1 # Len(w) /\ Head(w).do = "copy"
  <2>1. 1 \in 1 .. Len(w)
    BY <1>1
  <2>2. w[1].do = IF 1 = Len(w) THEN "unlock" ELSE "copy"
    BY <2>1 DEF HoldingRest
  <2> QED
    BY <1>1, <2>2
<1>3. Tail(w) # <<>>
  BY <1>1, <1>2
<1>4. ASSUME NEW i \in 1 .. Len(Tail(w))
      PROVE  Tail(w)[i].do = IF i = Len(Tail(w)) THEN "unlock" ELSE "copy"
  <2>1. i + 1 \in 1 .. Len(w) /\ Tail(w)[i] = w[i + 1]
    BY <1>1
  <2>2. w[i + 1].do = IF i + 1 = Len(w) THEN "unlock" ELSE "copy"
    BY <2>1 DEF HoldingRest
  <2>3. i + 1 = Len(w) <=> i = Len(Tail(w))
    BY <1>1
  <2> QED
    BY <2>1, <2>2, <2>3
<1> QED
  BY <1>2, <1>3, <1>4 DEF HoldingRest

LEMMA CopyAccesses ==
    ASSUME NEW e \in Entries, NEW o \in CopyOrders
    PROVE  /\ StatisticEntry_copy(e, o) \in Seq(AccessType)
           /\ Len(StatisticEntry_copy(e, o)) = 4
           /\ \A i \in 1 .. 4 : StatisticEntry_copy(e, o)[i].do = "copy"
<1>1. StatisticEntry_copy(e, o) \in Seq(AccessType)
  BY AccessesTyped
<1>2. /\ Len(StatisticEntry_copy(e, o)) = 4
      /\ \A i \in 1 .. 4 : StatisticEntry_copy(e, o)[i].do = "copy"
  BY CopyElements
<1> QED
  BY <1>1, <1>2

LEMMA CopyNeedsNoLock ==
    ASSUME NEW e \in Entries, NEW o \in CopyOrders, NEW w \in Seq(AccessType), NoLock(w)
    PROVE  NoLock(StatisticEntry_copy(e, o) \o w)
<1> DEFINE u == StatisticEntry_copy(e, o)
           v == u \o w
<1>1. /\ u \in Seq(AccessType) /\ Len(u) = 4
      /\ \A i \in 1 .. 4 : u[i].do = "copy"
  BY CopyAccesses
<1> HIDE DEF u
<1>2. /\ Len(v) = Len(u) + Len(w)
      /\ \A i \in 1 .. Len(u) : v[i] = u[i]
      /\ \A j \in 1 .. Len(w) : v[Len(u) + j] = w[j]
  <2>1. u \in Seq(AccessType)
    BY <1>1
  <2> QED
    BY <2>1
<1>3. Len(w) \in Nat
  OBVIOUS
<1> HIDE DEF v
<1>4. ASSUME NEW i \in 1 .. Len(v) PROVE v[i].do # "lock"
  <2>1. CASE i <= 4
    BY <1>1, <1>2, <2>1
  <2>2. CASE i > 4
    <3>1. i - 4 \in 1 .. Len(w) /\ i = Len(u) + (i - 4)
      BY <1>1, <1>2, <1>3, <2>2
    <3>2. v[i] = w[i - 4]
      BY <1>2, <3>1
    <3> QED
      BY <3>1, <3>2 DEF NoLock
  <2> QED
    BY <2>1, <2>2
<1> QED
  BY <1>4 DEF NoLock, u, v

LEMMA Concatenation ==
    ASSUME NEW u \in Seq(AccessType), NEW v \in Seq(AccessType)
    PROVE  /\ u \o v \in Seq(AccessType) /\ Len(u \o v) = Len(u) + Len(v)
           /\ \A i \in 1 .. Len(u) : (u \o v)[i] = u[i]
           /\ \A j \in 1 .. Len(v) : (u \o v)[Len(u) + j] = v[j]
OBVIOUS

LEMMA Surrounded ==
    ASSUME NEW c \in Seq(AccessType), Len(c) = 4, NEW l \in AccessType, NEW u \in AccessType
    PROVE  /\ Len(<<l>> \o c \o <<u>>) = 6
           /\ \A i \in 1 .. 6 : (<<l>> \o c \o <<u>>)[i] =
                IF i = 1 THEN l ELSE IF i = 6 THEN u ELSE c[i - 1]
<1> DEFINE x == <<l>>
           y == <<u>>
           v == x \o c
           w == v \o y
<1>1. /\ x \in Seq(AccessType) /\ Len(x) = 1 /\ x[1] = l
      /\ y \in Seq(AccessType) /\ Len(y) = 1 /\ y[1] = u
  OBVIOUS
<1> HIDE DEF x, y
<1>2. /\ v \in Seq(AccessType) /\ Len(v) = 1 + 4
      /\ \A i \in 1 .. 1 : v[i] = x[i]
      /\ \A j \in 1 .. 4 : v[1 + j] = c[j]
  <2>1. /\ v \in Seq(AccessType) /\ Len(v) = Len(x) + Len(c)
        /\ \A i \in 1 .. Len(x) : v[i] = x[i]
        /\ \A j \in 1 .. Len(c) : v[Len(x) + j] = c[j]
    BY <1>1, Concatenation, Zenon
  <2> HIDE DEF v
  <2> QED
    BY <1>1, <2>1
<1> HIDE DEF v
<1>3. /\ Len(w) = 5 + 1
      /\ \A i \in 1 .. 5 : w[i] = v[i]
      /\ \A j \in 1 .. 1 : w[5 + j] = y[j]
  <2>1. /\ Len(w) = Len(v) + Len(y)
        /\ \A i \in 1 .. Len(v) : w[i] = v[i]
        /\ \A j \in 1 .. Len(y) : w[Len(v) + j] = y[j]
    BY <1>1, <1>2, Concatenation, Zenon
  <2>2. Len(v) = 5
    BY <1>2
  <2> HIDE DEF w
  <2> QED
    BY <1>1, <2>1, <2>2
<1> HIDE DEF w
<1>4. ASSUME NEW i \in 1 .. 6
      PROVE  w[i] = IF i = 1 THEN l ELSE IF i = 6 THEN u ELSE c[i - 1]
  <2>1. CASE i = 1
    BY <1>1, <1>2, <1>3, <2>1
  <2>2. CASE i = 6
    BY <1>1, <1>3, <2>2
  <2>3. CASE i \in 2 .. 5
    <3>1. i - 1 \in 1 .. 4 /\ 1 + (i - 1) = i
      BY <2>3
    <3> QED
      BY <1>2, <1>3, <2>3, <3>1
  <2> QED
    BY <2>1, <2>2, <2>3
<1> QED
  BY <1>3, <1>4 DEF v, w, x, y

\* get_statistic_entry: the mutex, the four loads, the mutex again.
LEMMA CopiedEntry ==
    ASSUME NEW e \in Entries, NEW o \in CopyOrders
    PROVE  /\ Len(get_statistic_entry(e, o)) = 6
           /\ \A i \in 1 .. 6 : get_statistic_entry(e, o)[i].do =
                IF i = 1 THEN "lock" ELSE IF i = 6 THEN "unlock" ELSE "copy"
<1> DEFINE c == StatisticEntry_copy(e, o)
           l == Access("lock", StatsMutex, "operation", 0)
           u == Access("unlock", StatsMutex, "operation", 0)
<1>1. c \in Seq(AccessType) /\ Len(c) = 4 /\ \A i \in 1 .. 4 : c[i].do = "copy"
  BY CopyAccesses
<1>2. l.do = "lock" /\ u.do = "unlock"
  BY DEF Access
<1>3. l \in AccessType /\ u \in AccessType
  BY DEF Access, AccessType, Amounts, Columns
<1>4. get_statistic_entry(e, o) = <<l>> \o c \o <<u>>
  BY DEF get_statistic_entry
<1> HIDE DEF c, l, u
<1>5. /\ Len(get_statistic_entry(e, o)) = 6
      /\ \A i \in 1 .. 6 : get_statistic_entry(e, o)[i] =
            IF i = 1 THEN l ELSE IF i = 6 THEN u ELSE c[i - 1]
  BY <1>1, <1>3, <1>4, Surrounded
<1>6. \A i \in 1 .. 6 : i # 1 /\ i # 6 => i - 1 \in 1 .. 4
  OBVIOUS
<1> QED
  BY <1>1, <1>2, <1>5, <1>6

LEMMA CallsLockFirst ==
    /\ NoLock(to_string) /\ NoLock(tabulate)
    /\ \A e \in Entries :
         /\ \A b \in Bytes : NoLock(update_statistic_entry(e, 1, b))
         /\ NoLock(update_statistic_entry_error(e, 1, 0, 1))
         /\ NoLock(update_bypassed_statistic_entry(e, 1))
         /\ \A o \in CopyOrders : LocksFirst(get_statistic_entry(e, o))
<1>1. ASSUME NEW i \in 1 .. 4 * Size
      PROVE  (i - 1) \div 4 \in Entries /\ ((i - 1) % 4) + 1 \in 1 .. 4
  BY SizePositive DEF Entries
<1>2. ASSUME NEW e \in Entries, NEW j \in 1 .. 4
      PROVE  probe_entry(e)[j].do # "lock" /\ table_row(e)[j].do # "lock"
  BY DEF probe_entry, table_row, Access
<1>3. NoLock(to_string)
  <2>1. Len(to_string) = 4 * Size
    BY SizePositive DEF to_string, EachEntry
  <2> QED
    BY <1>1, <1>2, <2>1 DEF NoLock, to_string, EachEntry
<1>4. NoLock(tabulate)
  <2> DEFINE r == EachEntry(table_row)
  <2>1. /\ r \in Seq(AccessType) /\ Len(r) = 4 * Size
        /\ \A i \in 1 .. 4 * Size : r[i].do # "lock"
    <3>1. \A e \in Entries, j \in 1 .. 4 : table_row(e)[j] \in AccessType
      BY AccessesTyped DEF table_row
    <3>2. r = [i \in 1 .. 4 * Size |-> table_row((i - 1) \div 4)[((i - 1) % 4) + 1]]
      BY DEF EachEntry
    <3>3. ASSUME NEW i \in 1 .. 4 * Size
          PROVE  r[i] \in AccessType /\ r[i].do # "lock"
      <4>1. PICK e \in Entries, j \in 1 .. 4 : e = (i - 1) \div 4 /\ j = ((i - 1) % 4) + 1
        BY <1>1
      <4>2. r[i] = table_row(e)[j]
        BY <3>2, <4>1
      <4> QED
        BY <1>2, <3>1, <4>1, <4>2
    <3>4. 4 * Size \in Nat
      BY SizePositive
    <3>5. r \in [1 .. 4 * Size -> AccessType]
      BY <3>2, <3>3
    <3> HIDE DEF r
    <3> QED
      BY <3>3, <3>4, <3>5
  <2>2. NoLock(r)
    BY <2>1 DEF NoLock
  <2>3. ASSUME NEW u \in Seq(AccessType), NEW v \in Seq(AccessType), NoLock(u), NoLock(v)
        PROVE  u \o v \in Seq(AccessType) /\ NoLock(u \o v)
    <3>1. Len(u) \in Nat /\ Len(v) \in Nat /\ Len(u \o v) = Len(u) + Len(v)
      OBVIOUS
    <3>2. ASSUME NEW i \in 1 .. Len(u \o v) PROVE (u \o v)[i].do # "lock"
      <4>1. CASE i \in 1 .. Len(u)
        <5>1. (u \o v)[i] = u[i]
          BY <4>1
        <5> QED
          BY <2>3, <4>1, <5>1 DEF NoLock
      <4>2. CASE i \notin 1 .. Len(u)
        <5>1. i - Len(u) \in 1 .. Len(v) /\ (u \o v)[i] = v[i - Len(u)]
          BY <3>1, <4>2
        <5> QED
          BY <2>3, <5>1 DEF NoLock
      <4> QED
        BY <4>1, <4>2
    <3> QED
      BY <3>2 DEF NoLock
  <2>4. ASSUME NEW c \in Columns
        PROVE  aggregate_counters(c) \in Seq(AccessType) /\ NoLock(aggregate_counters(c))
    BY SizePositive
       DEF aggregate_counters, AccessType, Access, Entries, Amounts, NoLock
  <2>5. table_totals \in Seq(AccessType) /\ NoLock(table_totals)
    <3>1. {"operation", "byte", "error", "bypass"} = Columns
      BY DEF Columns
    <3> DEFINE a == aggregate_counters("operation")
               b == aggregate_counters("byte")
               c == aggregate_counters("error")
               d == aggregate_counters("bypass")
    <3>2. /\ a \in Seq(AccessType) /\ NoLock(a) /\ b \in Seq(AccessType) /\ NoLock(b)
          /\ c \in Seq(AccessType) /\ NoLock(c) /\ d \in Seq(AccessType) /\ NoLock(d)
      BY <2>4, <3>1
    <3> HIDE DEF a, b, c, d
    <3>3. a \o b \in Seq(AccessType) /\ NoLock(a \o b)
      BY <2>3, <3>2, Zenon
    <3>4. (a \o b) \o c \in Seq(AccessType) /\ NoLock((a \o b) \o c)
      BY <2>3, <3>2, <3>3, Zenon
    <3>5. ((a \o b) \o c) \o d \in Seq(AccessType) /\ NoLock(((a \o b) \o c) \o d)
      BY <2>3, <3>2, <3>4, Zenon
    <3> QED
      BY <3>5 DEF table_totals, a, b, c, d
  <2> HIDE DEF r
  <2>6. NoLock(r \o table_totals)
    BY <2>1, <2>2, <2>3, <2>5, Zenon
  <2> QED
    BY <2>6 DEF tabulate, r
<1>5. ASSUME NEW e \in Entries, NEW o \in CopyOrders
      PROVE  LocksFirst(get_statistic_entry(e, o))
  <2> DEFINE w == get_statistic_entry(e, o)
  <2>1. w \in Seq(AccessType) /\ Len(w) = 6
    <3>1. w \in Seq(AccessType)
      BY AccessesTyped
    <3>2. Len(w) = 6
      BY CopiedEntry
    <3> QED
      BY <3>1, <3>2
  <2>2. ASSUME NEW i \in 1 .. 6
        PROVE  w[i].do = IF i = 1 THEN "lock" ELSE IF i = 6 THEN "unlock" ELSE "copy"
    BY CopiedEntry
  <2> HIDE DEF w
  <2> DEFINE x == Tail(w)
  <2>3. /\ w # <<>> /\ Len(x) = Len(w) - 1
        /\ \A i \in 1 .. Len(x) : x[i] = w[i + 1]
    <3>1. Len(<<>>) # 6
      OBVIOUS
    <3>2. w # <<>>
      BY <2>1, <3>1, Zenon
    <3> QED
      BY <2>1, <3>2, TailElements
  <2> HIDE DEF x
  <2>4. x # <<>>
    BY <2>1, <2>3
  <2>5. ASSUME NEW i \in 1 .. Len(x)
        PROVE  x[i].do = IF i = Len(x) THEN "unlock" ELSE "copy"
    <3>1. i + 1 \in 1 .. 6 /\ i + 1 # 1 /\ (i + 1 = 6 <=> i = Len(x)) /\ x[i] = w[i + 1]
      BY <2>1, <2>3
    <3> QED
      BY <2>2, <3>1
  <2>6. HoldingRest(x)
    BY <2>4, <2>5 DEF HoldingRest
  <2>7. ASSUME NEW i \in 1 .. Len(w), w[i].do = "lock" PROVE i = 1
    BY <2>1, <2>2, <2>7
  <2> QED
    BY <2>6, <2>7 DEF LocksFirst, w, x
<1>6. ASSUME NEW e \in Entries, NEW b \in Bytes PROVE NoLock(update_statistic_entry(e, 1, b))
  BY DEF NoLock, update_statistic_entry, Increment, Access
<1>7. ASSUME NEW e \in Entries
      PROVE  /\ NoLock(update_statistic_entry_error(e, 1, 0, 1))
             /\ NoLock(update_bypassed_statistic_entry(e, 1))
  BY DEF NoLock, update_statistic_entry_error, update_bypassed_statistic_entry, Increment, Access
<1> QED
  BY <1>3, <1>4, <1>5, <1>6, <1>7

LEMMA BeginLocksFirst ==
    ASSUME StatisticsInv, NEW t \in Threads, Begin(t)
    PROVE  work[t] = <<>> /\ owner' = owner /\ LocksFirst(work'[t])
<1>1. ASSUME NEW w, Call(t, w), LocksFirst(w)
      PROVE  work[t] = <<>> /\ LocksFirst(work'[t])
  BY <1>1 DEF Call, StatisticsInv, TypeOK
<1>2. ASSUME NEW w, NoLock(w) PROVE LocksFirst(w)
  BY <1>2 DEF NoLock, LocksFirst
<1>3. CASE Update(t)
  <2>1. PICK e \in Entries :
            \/ \E b \in Bytes : Call(t, update_statistic_entry(position(e), 1, b))
            \/ Call(t, update_statistic_entry_error(position(e), 1, 0, 1))
            \/ Call(t, update_bypassed_statistic_entry(position(e), 1))
    BY <1>3 DEF Update
  <2>2. owner' = owner
    BY <1>3 DEF Update
  <2> QED
    BY <1>1, <1>2, <2>1, <2>2, PositionIsEntry, CallsLockFirst
<1>4. CASE CallGetEntry(t)
  <2>1. PICK e \in Entries, o \in CopyOrders :
            Report(t, get_statistic_entry(position(e), o), Unread, {})
    BY <1>4 DEF CallGetEntry
  <2>2. LocksFirst(get_statistic_entry(position(e), o))
    BY PositionIsEntry, CallsLockFirst
  <2>3. Call(t, get_statistic_entry(position(e), o)) /\ owner' = owner
    BY <2>1 DEF Report
  <2> QED
    BY <1>1, <2>2, <2>3
<1>5. CASE CallToString(t)
  <2>1. Call(t, to_string) /\ owner' = owner
    BY <1>5 DEF CallToString, Report
  <2> QED
    BY <1>1, <1>2, <2>1, CallsLockFirst
<1>6. CASE CallTabulate(t)
  <2>1. Call(t, tabulate) /\ owner' = owner
    BY <1>6 DEF CallTabulate, Report
  <2> QED
    BY <1>1, <1>2, <2>1, CallsLockFirst
<1> QED
  BY <1>3, <1>4, <1>5, <1>6 DEF Begin

LEMMA ContinueLocksFirst ==
    ASSUME StatisticsInv, HolderInv, NEW t \in Threads, Continue(t)
    PROVE  LocksFirst(work'[t])
<1> DEFINE w == work[t]
           a == Head(w)
<1>1. w # <<>> /\ w \in Seq(AccessType) /\ LocksFirst(w)
  <2>1. w # <<>>
    BY DEF Continue, Enter, Leave, Copy, Keep, LockStatistics, UnlockStatistics, Pending
  <2> QED
    BY <2>1 DEF StatisticsInv, TypeOK, HolderInv
<1>2. NoLock(Tail(w)) /\ Tail(w) \in Seq(AccessType)
  BY <1>1, NoLocksLeft
<1>3. ASSUME NEW v, NoLock(v) PROVE LocksFirst(v)
  BY <1>3 DEF NoLock, LocksFirst
<1>4. CASE Enter(t)
  BY <1>1, <1>4 DEF Enter
<1>5. CASE Keep(t)
  <2>1. a.entry \in Entries
    BY <1>1, <1>5, NextAccess, AccessFields DEF StatisticsInv, Keep, Pending
  <2>2. CASE work'[t] = Tail(w)
    BY <1>2, <1>3, <2>2
  <2>3. CASE work'[t] # Tail(w)
    <3>1. PICK o \in CopyOrders : work'[t] = StatisticEntry_copy(a.entry, o) \o Tail(w)
      BY <1>5, <2>3 DEF Keep, Done, StatisticsInv, TypeOK
    <3>2. NoLock(StatisticEntry_copy(a.entry, o) \o Tail(w))
      BY <1>2, <2>1, CopyNeedsNoLock
    <3> QED
      BY <1>3, <3>1, <3>2
  <2> QED
    BY <2>2, <2>3
<1>6. CASE Leave(t) \/ Copy(t) \/ LockStatistics(t) \/ UnlockStatistics(t)
  <2>1. work'[t] = Tail(w)
    BY <1>6 DEF Leave, Copy, LockStatistics, UnlockStatistics, Advance, Done,
        StatisticsInv, TypeOK
  <2> QED
    BY <1>2, <1>3, <2>1
<1> QED
  BY <1>4, <1>5, <1>6 DEF Continue

\* A mutex changes hands only to the thread that steps, or to nobody.
LEMMA MutexChangesHands ==
    ASSUME StatisticsInv, NEW t \in Threads, Begin(t) \/ Continue(t), NEW m \in Mutexes
    PROVE  owner'[m] \in {owner[m], t, Nobody}
<1>1. CASE Begin(t)
  BY <1>1, BeginLocksFirst
<1>2. CASE Enter(t) \/ Leave(t) \/ LockStatistics(t) \/ UnlockStatistics(t)
  BY <1>2 DEF Enter, Leave, LockStatistics, UnlockStatistics, StatisticsInv, TypeOK
<1>3. CASE Copy(t) \/ Keep(t)
  BY <1>3 DEF Copy, Keep
<1> QED
  BY <1>1, <1>2, <1>3 DEF Continue

LEMMA HolderOfStatistics ==
    ASSUME StatisticsInv, HolderInv, NEW t \in Threads, Begin(t) \/ Continue(t),
           owner'[StatsMutex] = t
    PROVE  HoldingRest(work'[t])
<1> DEFINE w == work[t]
           a == Head(w)
<1>0. StatsMutex \in Mutexes /\ StatsMutex \notin Entries /\ t # Nobody
  BY StatisticsAssumption DEF StatsMutex, Mutexes, Entries
<1>1. w \in Seq(AccessType)
  BY DEF StatisticsInv, TypeOK
<1>2. CASE LockStatistics(t)
  <2>1. w # <<>> /\ w[1].do = "lock" /\ work'[t] = Tail(w)
    BY <1>2, TailElements DEF LockStatistics, Pending, Done, StatisticsInv, TypeOK
  <2>2. 1 \in 1 .. Len(w)
    BY <1>1, <2>1, TailElements
  <2> QED
    BY <2>1, <2>2 DEF HolderInv, LocksFirst
<1>3. CASE ~LockStatistics(t)
  <2>1. owner[StatsMutex] = t
    <3>1. CASE Begin(t)
      BY <3>1, BeginLocksFirst
    <3>2. CASE Enter(t) \/ Leave(t)
      <4>1. w # <<>> /\ a.do \in Locked
        BY <3>2 DEF Enter, Leave, Pending, Locked
      <4>2. a.entry \in Entries
        BY <4>1, NextAccess, AccessFields DEF StatisticsInv, Locked
      <4> QED
        BY <1>0, <3>2, <4>2 DEF Enter, Leave, StatisticsInv, TypeOK
    <3>3. CASE Copy(t) \/ Keep(t)
      BY <3>3 DEF Copy, Keep
    <3>4. CASE UnlockStatistics(t)
      BY <1>0, <3>4 DEF UnlockStatistics, StatisticsInv, TypeOK
    <3> QED
      BY <1>3, <3>1, <3>2, <3>3, <3>4 DEF Continue
  <2>2. HoldingRest(w)
    BY <2>1 DEF HolderInv
  <2>3. ~UnlockStatistics(t)
    BY <1>0 DEF UnlockStatistics, StatisticsInv, TypeOK
  <2>4. a.do \in {"copy", "unlock"}
    BY <1>1, <2>2, RestOfHolding
  <2>5. Copy(t)
    <3>1. ~Begin(t)
      BY <2>2, BeginLocksFirst DEF HoldingRest
    <3>2. ~Enter(t) /\ ~Leave(t) /\ ~Keep(t)
      BY <2>4 DEF Enter, Leave, Keep, Pending
    <3> QED
      BY <1>3, <2>3, <3>1, <3>2 DEF Continue
  <2>6. a.do = "copy" /\ work'[t] = Tail(w)
    BY <2>5 DEF Copy, Pending, Done, StatisticsInv, TypeOK
  <2> QED
    BY <1>1, <2>2, <2>6, RestOfHolding
<1> QED
  BY <1>2, <1>3

LEMMA HolderOfEntry ==
    ASSUME StatisticsInv, HolderInv, NEW t \in Threads, Begin(t) \/ Continue(t),
           NEW e \in Entries, owner'[e] = t
    PROVE  loaded'[t] # Unread /\ Head(work'[t]).entry = e
<1> DEFINE a == Head(work[t])
<1>0. /\ StatsMutex \in Mutexes /\ e # StatsMutex /\ e \in Mutexes /\ t # Nobody
  BY StatisticsAssumption DEF StatsMutex, Mutexes, Entries
<1>1. CASE Enter(t)
  <2>1. work' = work /\ a.do \in Locked /\ work[t] # <<>>
    BY <1>1 DEF Enter, Pending, Locked
  <2>2. a.entry \in Entries /\ a.column \in Columns /\ Locks(a)
    BY <2>1, NextAccess, AccessFields DEF StatisticsInv, Locked, Locks
  <2>3. loaded'[t] # Unread
    BY <1>1, <2>2 DEF Enter, StatisticsInv, TypeOK, Unread
  <2>4. ~Inside(t)
    BY <1>1 DEF Enter, Inside
  <2>5. owner[e] # t
    BY <2>4 DEF HolderInv
  <2>6. a.entry = e
    BY <1>0, <1>1, <2>5 DEF Enter, StatisticsInv, TypeOK
  <2> QED
    BY <2>1, <2>3, <2>6
<1>2. CASE ~Enter(t)
  <2>1. owner[e] = t
    <3>1. CASE Begin(t)
      BY <3>1, BeginLocksFirst
    <3>2. CASE Leave(t)
      BY <1>0, <3>2 DEF Leave, StatisticsInv, TypeOK
    <3>3. CASE Copy(t) \/ Keep(t)
      BY <3>3 DEF Copy, Keep
    <3>4. CASE LockStatistics(t) \/ UnlockStatistics(t)
      BY <1>0, <3>4 DEF LockStatistics, UnlockStatistics, StatisticsInv, TypeOK
    <3> QED
      BY <1>2, <3>1, <3>2, <3>3, <3>4 DEF Continue
  <2>2. Inside(t) /\ a.entry = e
    BY <2>1 DEF HolderInv
  <2>3. Leave(t)
    BY <2>2, OutsideUnlessLeaving
  <2>4. Locks(a)
    BY <2>3 DEF Leave, Pending, Locks
  <2>5. owner'[e] = Nobody
    BY <1>0, <2>2, <2>3, <2>4 DEF Leave, StatisticsInv, TypeOK
  <2> QED
    BY <1>0, <2>5
<1> QED
  BY <1>1, <1>2

LEMMA NextHolder == StatisticsInv /\ HolderInv /\ [Next]_vars => HolderInv'
<1> SUFFICES ASSUME StatisticsInv, HolderInv, [Next]_vars PROVE HolderInv'
  OBVIOUS
<1>1. CASE UNCHANGED vars
  BY <1>1 DEF vars, HolderInv, Inside
<1>2. ASSUME NEW t \in Threads, Begin(t) \/ Continue(t) PROVE HolderInv'
  <2>1. ASSUME NEW u \in Threads
        PROVE  /\ LocksFirst(work'[u])
               /\ owner'[StatsMutex] = u => HoldingRest(work'[u])
               /\ \A e \in Entries : owner'[e] = u =>
                    loaded'[u] # Unread /\ Head(work'[u]).entry = e
    <3>1. CASE u = t
      BY <1>2, <3>1, BeginLocksFirst, ContinueLocksFirst, HolderOfStatistics, HolderOfEntry
    <3>2. CASE u # t
      <4>1. work'[u] = work[u] /\ loaded'[u] = loaded[u]
        BY <1>2, <3>2, OthersKeepTheirCalls DEF StatisticsInv
      <4>2. u # Nobody /\ StatsMutex \in Mutexes /\ Entries \subseteq Mutexes
        BY StatisticsAssumption DEF StatsMutex, Mutexes, Entries
      <4>3. \A m \in Mutexes : owner'[m] = u => owner[m] = u
        BY <1>2, <3>2, <4>2, MutexChangesHands
      <4> QED
        BY <4>1, <4>2, <4>3 DEF HolderInv, Inside
    <3> QED
      BY <3>1, <3>2
  <2> QED
    BY <2>1 DEF HolderInv, Inside
<1> QED
  BY <1>1, <1>2 DEF Next

\* Handlers, reports and copies never wait in a circle, however many there are:
\* whoever holds the mutex of an entry or m_stats_mutex has nothing to wait for
\* until it has released it.
THEOREM HoldersNeverWaitCorrect == Spec => []HoldersNeverWait
<1>1. Init => HolderInv
  <2> SUFFICES ASSUME Init PROVE HolderInv
    OBVIOUS
  <2>1. \A m \in Mutexes, t \in Threads : owner[m] # t
    BY StatisticsAssumption DEF Init
  <2>2. StatsMutex \in Mutexes /\ Entries \subseteq Mutexes
    BY StatisticsAssumption DEF StatsMutex, Mutexes, Entries
  <2>3. \A t \in Threads : LocksFirst(work[t])
    BY DEF Init, LocksFirst
  <2> QED
    BY <2>1, <2>2, <2>3 DEF HolderInv
<1>2. StatisticsInv /\ HolderInv => HoldersNeverWait
  <2> SUFFICES ASSUME StatisticsInv, HolderInv, NEW m \in Mutexes, NEW t \in Threads,
                      owner[m] = t
               PROVE  Inside(t) \/ Pending(t, {"copy", "unlock"})
    BY DEF HoldersNeverWait
  <2>1. CASE m \in Entries
    BY <2>1 DEF HolderInv
  <2>2. CASE m \notin Entries
    <3>1. m = StatsMutex
      BY <2>2, StatisticsAssumption DEF Mutexes, Entries, StatsMutex
    <3>2. HoldingRest(work[t]) /\ work[t] \in Seq(AccessType)
      BY <3>1 DEF HolderInv, StatisticsInv, TypeOK
    <3>3. Head(work[t]).do \in {"copy", "unlock"}
      BY <3>2, RestOfHolding
    <3> QED
      BY <3>2, <3>3 DEF Pending, HoldingRest
  <2> QED
    BY <2>1, <2>2
<1>3. Spec => []HolderInv
  BY <1>1, NextHolder, StatisticsInvCorrect, PTL DEF Spec
<1> QED
  BY <1>2, <1>3, StatisticsInvCorrect, PTL

================================================================================
