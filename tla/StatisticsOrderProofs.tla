-------------------------- MODULE StatisticsOrderProofs ------------------------
(***************************************************************************)
(* What reports may show, for any number of threads and entries: in no     *)
(* state of Statistics does an entry have more errors than operations,     *)
(* to_string leaves no entry out that had a count when it was called, and  *)
(* the totals of a table are at least the sums of its rows.                *)
(***************************************************************************)
EXTENDS StatisticsProofs, FiniteSetTheorems

\* What is left of a failed call once its operation is counted, and once its bytes are.
AfterOperation(e) == <<Increment(e, "byte", 0), Increment(e, "error", 1)>>
AfterBytes(e) == <<Increment(e, "error", 1)>>

\* The threads that still have to count an error of entry e.
Owing(e) == {t \in Threads : work[t] \in {AfterOperation(e), AfterBytes(e)}}

Harmless == {a \in AccessType : a.do # "increment"}
NoIncrement(w) == w \in Seq(Harmless)

\* The entries of which a rest w still counts an error: one at most.
OwedIn(w) == {e \in Entries : w \in {AfterOperation(e), AfterBytes(e)}}

\* What a thread has to do is one of the updates, or a rest of one, or no update.
UpdateShape(w) ==
    \/ \E e \in Entries :
        \/ w \in {update_statistic_entry_error(e, 1, 0, 1), AfterOperation(e), AfterBytes(e)}
        \/ \E b \in Bytes : w \in {update_statistic_entry(e, 1, b), <<Increment(e, "byte", b)>>}
        \/ w = update_bypassed_statistic_entry(e, 1)
    \/ NoIncrement(w)

\* The strengthening: an operation is counted for every error, whether that is
\* counted or owed.
ErrorsOwed ==
    \A e \in Entries :
        counters[e]["error"] + Cardinality(Owing(e)) <= counters[e]["operation"]

OrderInv == (\A t \in Threads : UpdateShape(work[t])) /\ ErrorsOwed

--------------------------------------------------------------------------------
(* Calls without an increment.                                             *)

LEMMA NoIncrementTail ==
    ASSUME NEW w, w # <<>>, NoIncrement(w)
    PROVE  NoIncrement(Tail(w)) /\ Head(w).do # "increment"
BY DEF NoIncrement, Harmless

\* An update, or a rest of one, goes on with an increment.
LEMMA IncrementFirst ==
    ASSUME NEW w, UpdateShape(w), ~NoIncrement(w)
    PROVE  Head(w).do = "increment"
<1>1. ASSUME NEW e PROVE
        /\ Head(update_statistic_entry_error(e, 1, 0, 1)).do = "increment"
        /\ Head(AfterOperation(e)).do = "increment"
        /\ Head(AfterBytes(e)).do = "increment"
        /\ Head(update_bypassed_statistic_entry(e, 1)).do = "increment"
  BY DEF update_statistic_entry_error, update_bypassed_statistic_entry, AfterOperation,
      AfterBytes, Increment, Access
<1>2. ASSUME NEW e, NEW b PROVE
        /\ Head(update_statistic_entry(e, 1, b)).do = "increment"
        /\ Head(<<Increment(e, "byte", b)>>).do = "increment"
  BY DEF update_statistic_entry, Increment, Access
<1> QED
  BY <1>1, <1>2 DEF UpdateShape

LEMMA AccessesHarmless ==
    ASSUME NEW e \in Entries
    PROVE  /\ \A o \in CopyOrders : NoIncrement(StatisticEntry_copy(e, o))
           /\ \A o \in CopyOrders : NoIncrement(get_statistic_entry(e, o))
           /\ \A j \in 1 .. 4 : probe_entry(e)[j] \in Harmless /\ table_row(e)[j] \in Harmless
<1>1. \A c \in Columns, do \in {"probe", "keep", "copy", "row", "sum"} :
        Access(do, e, c, 0) \in Harmless
  BY DEF Access, AccessType, Amounts, Harmless
<1>2. \A do \in {"lock", "unlock"} :
        Access(do, StatsMutex, "operation", 0) \in Harmless
  BY DEF Access, AccessType, Amounts, Columns, Harmless
<1>3. {"operation", "byte", "error", "bypass"} = Columns
  BY DEF Columns
<1>4. ASSUME NEW o \in CopyOrders PROVE NoIncrement(StatisticEntry_copy(e, o))
  BY <1>1, CopyElements DEF StatisticEntry_copy, NoIncrement
<1>5. ASSUME NEW o \in CopyOrders PROVE NoIncrement(get_statistic_entry(e, o))
  BY <1>2, <1>4 DEF get_statistic_entry, NoIncrement
<1>6. \A j \in 1 .. 4 : probe_entry(e)[j] \in Harmless
  BY <1>1, <1>3 DEF probe_entry
<1>7. \A j \in 1 .. 4 : table_row(e)[j] \in Harmless
  BY <1>1, <1>3 DEF table_row
<1> QED
  BY <1>4, <1>5, <1>6, <1>7

LEMMA ReportsHarmless == NoIncrement(to_string) /\ NoIncrement(tabulate)
<1>1. ASSUME NEW i \in 1 .. 4 * Size
      PROVE  (i - 1) \div 4 \in Entries /\ ((i - 1) % 4) + 1 \in 1 .. 4
  BY SizePositive DEF Entries
<1>2. to_string \in Seq(Harmless)
  BY <1>1, AccessesHarmless, SizePositive DEF to_string, EachEntry
<1>3. EachEntry(table_row) \in Seq(Harmless)
  BY <1>1, AccessesHarmless, SizePositive DEF EachEntry
<1>4. ASSUME NEW c \in Columns PROVE aggregate_counters(c) \in Seq(Harmless)
  BY SizePositive
      DEF aggregate_counters, AccessType, Access, Entries, Amounts, Harmless
<1>5. table_totals \in Seq(Harmless)
  BY <1>4 DEF table_totals, Columns
<1> QED
  BY <1>2, <1>3, <1>5 DEF tabulate, NoIncrement

--------------------------------------------------------------------------------
(* The threads that owe an error.                                          *)

LEMMA OwingFinite ==
    ASSUME NEW e PROVE IsFiniteSet(Owing(e)) /\ Cardinality(Owing(e)) \in Nat
BY StatisticsAssumption, FS_Subset, FS_CardinalityType DEF Owing

\* Only the thread that steps can join or leave.
LEMMA OwingChanges ==
    ASSUME NEW e, NEW t \in Threads, \A u \in Threads : u # t => work'[u] = work[u]
    PROVE  /\ t \in Owing(e) /\ t \in Owing(e)' => Cardinality(Owing(e)') = Cardinality(Owing(e))
           /\ t \notin Owing(e) /\ t \notin Owing(e)' =>
                Cardinality(Owing(e)') = Cardinality(Owing(e))
           /\ t \notin Owing(e) /\ t \in Owing(e)' =>
                Cardinality(Owing(e)') = Cardinality(Owing(e)) + 1
           /\ t \in Owing(e) /\ t \notin Owing(e)' =>
                Cardinality(Owing(e)') = Cardinality(Owing(e)) - 1
<1>1. ASSUME NEW u \in Threads, u # t PROVE u \in Owing(e) <=> u \in Owing(e)'
  BY <1>1 DEF Owing
<1>2. Owing(e) \subseteq Threads /\ Owing(e)' \subseteq Threads
  BY DEF Owing
<1>3. CASE t \in Owing(e) <=> t \in Owing(e)'
  <2>1. Owing(e)' = Owing(e)
    BY <1>1, <1>2, <1>3
  <2> QED
    BY <1>3, <2>1
<1>4. CASE t \notin Owing(e) /\ t \in Owing(e)'
  <2>1. Owing(e)' = Owing(e) \cup {t}
    BY <1>1, <1>2, <1>4
  <2> QED
    BY <1>4, <2>1, OwingFinite, FS_AddElement
<1>5. CASE t \in Owing(e) /\ t \notin Owing(e)'
  <2>1. Owing(e)' = Owing(e) \ {t}
    BY <1>1, <1>2, <1>5
  <2> QED
    BY <1>5, <2>1, OwingFinite, FS_RemoveElement
<1> QED
  BY <1>3, <1>4, <1>5

LEMMA NoIncrementOwesNothing ==
    ASSUME NEW e, NEW w, NoIncrement(w)
    PROVE  w \notin {AfterOperation(e), AfterBytes(e)}
<1>1. w # <<>> => Head(w).do # "increment"
  BY NoIncrementTail
<1>2. /\ AfterOperation(e) # <<>> /\ Head(AfterOperation(e)).do = "increment"
      /\ AfterBytes(e) # <<>> /\ Head(AfterBytes(e)).do = "increment"
  BY DEF AfterOperation, AfterBytes, Increment, Access
<1> QED
  BY <1>1, <1>2

--------------------------------------------------------------------------------
(* The steps.                                                              *)

\* A step that leaves the counters alone and in which the thread owes nothing
\* before or after, or the same.
LEMMA SameDebts ==
    ASSUME OrderInv, NEW t \in Threads, UNCHANGED counters,
           \A u \in Threads : u # t => work'[u] = work[u],
           UpdateShape(work'[t]),
           \A e \in Entries : t \in Owing(e) <=> t \in Owing(e)'
    PROVE  OrderInv'
<1>1. \A u \in Threads : UpdateShape(work'[u])
  BY DEF OrderInv
<1>2. \A e \in Entries : Cardinality(Owing(e)') = Cardinality(Owing(e))
  BY OwingChanges
<1> QED
  BY <1>1, <1>2 DEF OrderInv, ErrorsOwed, UpdateShape

\* A call begins: nothing of it is done yet.
LEMMA BeginOrder ==
    ASSUME TypeOK, OrderInv, NEW t \in Threads, Begin(t)
    PROVE  OrderInv'
<1>1. UNCHANGED counters /\ work[t] = <<>>
  BY DEF Begin, Update, CallGetEntry, CallToString, CallTabulate, Report, Call
<1>2. \A u \in Threads : u # t => work'[u] = work[u]
  BY OthersKeepTheirCalls
<1>3. \/ \E e \in Entries :
            \/ \E b \in Bytes : work'[t] = update_statistic_entry(e, 1, b)
            \/ work'[t] = update_statistic_entry_error(e, 1, 0, 1)
            \/ work'[t] = update_bypassed_statistic_entry(e, 1)
      \/ NoIncrement(work'[t])
  <2>1. ASSUME NEW accesses, Call(t, accesses) PROVE work'[t] = accesses
    BY <2>1 DEF Call, TypeOK
  <2>2. CASE Update(t)
    BY <2>1, <2>2, PositionIsEntry DEF Update
  <2>3. CASE CallGetEntry(t)
    BY <2>1, <2>3, PositionIsEntry, AccessesHarmless DEF CallGetEntry, Report
  <2>4. CASE CallToString(t) \/ CallTabulate(t)
    BY <2>1, <2>4, ReportsHarmless DEF CallToString, CallTabulate, Report
  <2> QED
    BY <2>2, <2>3, <2>4 DEF Begin
<1>4. UpdateShape(work'[t])
  BY <1>3 DEF UpdateShape
<1>5. ASSUME NEW e \in Entries PROVE t \notin Owing(e) /\ t \notin Owing(e)'
  <2>1. t \notin Owing(e)
    BY <1>1 DEF Owing, AfterOperation, AfterBytes
  <2>2. work'[t] \notin {AfterOperation(e), AfterBytes(e)}
    <3>1. /\ Head(AfterOperation(e)).column = "byte"
          /\ Head(AfterBytes(e)).column = "error"
      BY DEF AfterOperation, AfterBytes, Increment, Access
    <3>2. ASSUME NEW d PROVE
            /\ Head(update_statistic_entry_error(d, 1, 0, 1)).column = "operation"
            /\ Head(update_bypassed_statistic_entry(d, 1)).column = "bypass"
      BY DEF update_statistic_entry_error, update_bypassed_statistic_entry, Increment, Access
    <3>3. ASSUME NEW d, NEW b
          PROVE  Head(update_statistic_entry(d, 1, b)).column = "operation"
      BY DEF update_statistic_entry, Increment, Access
    <3>4. CASE NoIncrement(work'[t])
      BY <3>4, NoIncrementOwesNothing
    <3>5. CASE ~NoIncrement(work'[t])
      BY <1>3, <3>1, <3>2, <3>3, <3>5
    <3> QED
      BY <3>4, <3>5
  <2> QED
    BY <2>1, <2>2 DEF Owing
<1> QED
  BY <1>1, <1>2, <1>4, <1>5, SameDebts

\* Everything but the end of an increment leaves the increments to do as they are.
LEMMA OtherStepsOrder ==
    ASSUME TypeOK, OrderInv, NEW t \in Threads, Continue(t),
           ~(Leave(t) /\ Head(work[t]).do = "increment")
    PROVE  OrderInv'
<1> DEFINE a == Head(work[t])
<1>1. \A u \in Threads : u # t => work'[u] = work[u]
  BY OthersKeepTheirCalls
<1>2. CASE Enter(t)
  <2>1. work' = work /\ counters' = counters
    BY <1>2 DEF Enter
  <2> QED
    BY <2>1, SameDebts DEF OrderInv, Owing
<1>3. CASE ~Enter(t)
  <2>1. work[t] # <<>> /\ a.do # "increment" /\ UNCHANGED counters
    BY <1>3 DEF Continue, Leave, Copy, Keep, LockStatistics, UnlockStatistics, Pending
  <2>2. NoIncrement(work[t])
    BY <2>1, IncrementFirst DEF OrderInv
  <2>3. NoIncrement(Tail(work[t]))
    BY <2>1, <2>2, NoIncrementTail
  <2>4. NoIncrement(work'[t])
    <3>1. CASE Keep(t)
      <4>1. a.entry \in Entries
        BY <3>1, <2>1, NextAccess, AccessFields DEF Keep, Pending
      <4>2. CASE work'[t] = Tail(work[t])
        BY <2>3, <4>2
      <4>3. CASE work'[t] # Tail(work[t])
        <5>1. PICK o \in CopyOrders :
                work'[t] = StatisticEntry_copy(a.entry, o) \o Tail(work[t])
          BY <3>1, <4>3 DEF Keep, Done, TypeOK
        <5>2. NoIncrement(StatisticEntry_copy(a.entry, o))
          BY <4>1, AccessesHarmless
        <5> QED
          BY <2>3, <5>1, <5>2 DEF NoIncrement
      <4> QED
        BY <4>2, <4>3
    <3>2. CASE ~Keep(t)
      <4>1. work'[t] = Tail(work[t])
        BY <3>2, <1>3 DEF TypeOK, Continue, Leave, Copy, LockStatistics, UnlockStatistics,
            Advance, Done
      <4> QED
        BY <4>1, <2>3
    <3> QED
      BY <3>1, <3>2
  <2>5. ASSUME NEW e \in Entries PROVE t \notin Owing(e) /\ t \notin Owing(e)'
    BY <2>2, <2>4, NoIncrementOwesNothing DEF Owing
  <2> QED
    BY <1>1, <2>1, <2>4, <2>5, SameDebts DEF UpdateShape
<1> QED
  BY <1>2, <1>3

--------------------------------------------------------------------------------
(* The end of an increment.                                                *)

\* The rests of a failed call are told apart from each other and from the rest of
\* any other update.
LEMMA RestsDiffer ==
    ASSUME NEW e \in Entries
    PROVE  /\ OwedIn(<<>>) = {}
           /\ OwedIn(AfterOperation(e)) = {e}
           /\ OwedIn(AfterBytes(e)) = {e}
           /\ OwedIn(update_statistic_entry_error(e, 1, 0, 1)) = {}
           /\ OwedIn(update_bypassed_statistic_entry(e, 1)) = {}
           /\ \A b : OwedIn(update_statistic_entry(e, 1, b)) = {}
           /\ \A b : OwedIn(<<Increment(e, "byte", b)>>) = {}
<1>1. ASSUME NEW x, NEW y, NEW c, NEW m, NEW n, Increment(x, c, m) = Increment(y, c, n)
      PROVE  x = y
  BY <1>1 DEF Increment, Access
<1>2. ASSUME NEW x, NEW y, NEW m, NEW n, NEW c1, NEW c2, c1 # c2
      PROVE  Increment(x, c1, m) # Increment(y, c2, n)
  BY <1>2 DEF Increment, Access
<1>3. ASSUME NEW d \in Entries
      PROVE  /\ AfterOperation(d) = AfterOperation(e) <=> d = e
             /\ AfterBytes(d) = AfterBytes(e) <=> d = e
             /\ AfterOperation(d) # AfterBytes(e) /\ AfterBytes(d) # AfterOperation(e)
  BY <1>1 DEF AfterOperation, AfterBytes
<1>4. OwedIn(<<>>) = {}
  BY DEF AfterOperation, AfterBytes, OwedIn
<1>5. OwedIn(AfterOperation(e)) = {e} /\ OwedIn(AfterBytes(e)) = {e}
  BY <1>3 DEF OwedIn
<1>6. OwedIn(update_statistic_entry_error(e, 1, 0, 1)) = {}
  BY DEF AfterOperation, AfterBytes, update_statistic_entry_error, OwedIn
<1>7. OwedIn(update_bypassed_statistic_entry(e, 1)) = {}
  BY <1>2 DEF AfterOperation, AfterBytes, update_bypassed_statistic_entry, OwedIn
<1>8. \A b : OwedIn(update_statistic_entry(e, 1, b)) = {}
  BY <1>2 DEF AfterOperation, AfterBytes, update_statistic_entry, OwedIn
<1>9. \A b : OwedIn(<<Increment(e, "byte", b)>>) = {}
  BY <1>2 DEF AfterOperation, AfterBytes, OwedIn
<1> QED
  BY <1>4, <1>5, <1>6, <1>7, <1>8, <1>9

\* What the step does: one counter grows, the call goes on.
LEMMA IncrementEffect ==
    ASSUME StatisticsInv, NEW t \in Threads, Leave(t), Head(work[t]).do = "increment"
    PROVE  LET a == Head(work[t])
           IN  /\ work[t] # <<>>
               /\ \A u \in Threads : u # t => work'[u] = work[u]
               /\ work'[t] = Tail(work[t])
               /\ \A d \in Entries, c \in Columns :
                    counters'[d][c] = IF d = a.entry /\ c = a.column
                                      THEN counters[d][c] + a.by ELSE counters[d][c]
<1>1. work[t] # <<>> /\ loaded[t] = counters[Head(work[t]).entry][Head(work[t]).column]
  BY DEF Leave, StatisticsInv, LoadedIsCurrent, Inside, Pending
<1>2. \A u \in Threads : u # t => work'[u] = work[u]
  BY OthersKeepTheirCalls DEF StatisticsInv, Continue
<1>3. work'[t] = Tail(work[t])
  BY DEF Leave, Advance, Done, StatisticsInv, TypeOK
<1>4. ASSUME NEW d \in Entries, NEW c \in Columns
      PROVE  counters'[d][c] = IF d = Head(work[t]).entry /\ c = Head(work[t]).column
                               THEN counters[d][c] + Head(work[t]).by ELSE counters[d][c]
  BY <1>1 DEF Leave, StatisticsInv, TypeOK
<1> QED
  BY <1>1, <1>2, <1>3, <1>4

LEMMA CountersNat ==
    ASSUME TypeOK, NEW e \in Entries
    PROVE  counters[e]["operation"] \in Nat /\ counters[e]["error"] \in Nat
BY DEF TypeOK, Columns

\* The counters and the debts after the step, when the rest of the call is known.
LEMMA IncrementBalances ==
    ASSUME StatisticsInv, OrderInv, NEW t \in Threads, Leave(t),
           Head(work[t]).do = "increment", UpdateShape(Tail(work[t])),
           LET a == Head(work[t]) IN
           \/ /\ a.column = "operation" /\ a.by = 1
              /\ OwedIn(work[t]) = {} /\ OwedIn(Tail(work[t])) \subseteq {a.entry}
           \/ /\ a.column \in {"byte", "bypass"}
              /\ OwedIn(Tail(work[t])) = OwedIn(work[t])
           \/ /\ a.column = "error" /\ a.by = 1
              /\ OwedIn(work[t]) = {a.entry} /\ OwedIn(Tail(work[t])) = {}
    PROVE  OrderInv'
<1> DEFINE a == Head(work[t])
<1>1. /\ work[t] # <<>>
      /\ \A u \in Threads : u # t => work'[u] = work[u]
      /\ work'[t] = Tail(work[t])
      /\ \A d \in Entries, c \in Columns :
            counters'[d][c] = IF d = a.entry /\ c = a.column
                              THEN counters[d][c] + a.by ELSE counters[d][c]
  BY IncrementEffect
<1>2. \A u \in Threads : UpdateShape(work'[u])
  BY <1>1 DEF OrderInv
<1>3. ASSUME NEW d \in Entries
      PROVE  counters'[d]["error"] + Cardinality(Owing(d)') <= counters'[d]["operation"]
  <2>1. /\ counters[d]["operation"] \in Nat /\ counters[d]["error"] \in Nat
        /\ Cardinality(Owing(d)) \in Nat
        /\ counters[d]["error"] + Cardinality(Owing(d)) <= counters[d]["operation"]
    BY CountersNat, OwingFinite DEF StatisticsInv, OrderInv, ErrorsOwed
  <2>2. /\ t \in Owing(d) <=> d \in OwedIn(work[t])
        /\ t \in Owing(d)' <=> d \in OwedIn(Tail(work[t]))
    BY <1>1 DEF Owing, OwedIn
  <2>3. "operation" \in Columns /\ "error" \in Columns
    BY DEF Columns
  <2>4. CASE a.column = "operation" /\ a.by = 1
    <3>1. /\ counters'[d]["error"] = counters[d]["error"]
          /\ counters'[d]["operation"] = IF d = a.entry THEN counters[d]["operation"] + 1
                                         ELSE counters[d]["operation"]
      BY <1>1, <2>3, <2>4
    <3>2. OwedIn(work[t]) = {} /\ OwedIn(Tail(work[t])) \subseteq {a.entry}
      BY <2>4
    <3>3. \/ Cardinality(Owing(d)') = Cardinality(Owing(d))
          \/ d = a.entry /\ Cardinality(Owing(d)') = Cardinality(Owing(d)) + 1
      <4>1. t \notin Owing(d) /\ (t \in Owing(d)' => d = a.entry)
        BY <2>2, <3>2
      <4>2. \/ Cardinality(Owing(d)') = Cardinality(Owing(d))
            \/ t \in Owing(d)' /\ Cardinality(Owing(d)') = Cardinality(Owing(d)) + 1
        BY <1>1, <4>1, OwingChanges
      <4> QED
        BY <4>1, <4>2
    <3> QED
      BY <2>1, <3>1, <3>3
  <2>5. CASE a.column \in {"byte", "bypass"}
    <3>1. /\ counters'[d]["error"] = counters[d]["error"]
          /\ counters'[d]["operation"] = counters[d]["operation"]
      BY <1>1, <2>3, <2>5
    <3>2. OwedIn(Tail(work[t])) = OwedIn(work[t])
      BY <2>5
    <3>3. Cardinality(Owing(d)') = Cardinality(Owing(d))
      BY <1>1, <2>2, <3>2, OwingChanges
    <3> QED
      BY <2>1, <3>1, <3>3
  <2>6. CASE a.column = "error" /\ a.by = 1
    <3>1. /\ counters'[d]["operation"] = counters[d]["operation"]
          /\ counters'[d]["error"] = IF d = a.entry THEN counters[d]["error"] + 1
                                     ELSE counters[d]["error"]
      BY <1>1, <2>3, <2>6
    <3>2. OwedIn(work[t]) = {a.entry} /\ OwedIn(Tail(work[t])) = {}
      BY <2>6
    <3>3. Cardinality(Owing(d)') = IF d = a.entry THEN Cardinality(Owing(d)) - 1
                                  ELSE Cardinality(Owing(d))
      BY <1>1, <2>2, <3>2, OwingChanges
    <3> QED
      BY <2>1, <3>1, <3>3
  <2> QED
    BY <2>4, <2>5, <2>6
<1> QED
  BY <1>2, <1>3 DEF OrderInv, ErrorsOwed, UpdateShape

LEMMA IncrementOrder ==
    ASSUME StatisticsInv, OrderInv, NEW t \in Threads, Leave(t),
           Head(work[t]).do = "increment"
    PROVE  OrderInv'
<1> DEFINE w == work[t]
           a == Head(w)
<1>1. ~NoIncrement(w) /\ UpdateShape(w)
  BY IncrementEffect, NoIncrementTail DEF OrderInv
<1>2. NoIncrement(<<>>)
  BY DEF NoIncrement
<1>3. ASSUME NEW e \in Entries, w = update_statistic_entry_error(e, 1, 0, 1)
      PROVE  OrderInv'
  <2>1. a.entry = e /\ a.column = "operation" /\ a.by = 1 /\ Tail(w) = AfterOperation(e)
    BY <1>3 DEF update_statistic_entry_error, AfterOperation, Increment, Access
  <2>2. UpdateShape(Tail(w))
    BY <2>1 DEF UpdateShape
  <2> QED
    BY <1>3, <2>1, <2>2, RestsDiffer, IncrementBalances
<1>4. ASSUME NEW e \in Entries, w = AfterOperation(e)
      PROVE  OrderInv'
  <2>1. a.column = "byte" /\ Tail(w) = AfterBytes(e)
    BY <1>4 DEF AfterOperation, AfterBytes, Increment, Access
  <2>2. UpdateShape(Tail(w))
    BY <2>1 DEF UpdateShape
  <2> QED
    BY <1>4, <2>1, <2>2, RestsDiffer, IncrementBalances
<1>5. ASSUME NEW e \in Entries, w = AfterBytes(e)
      PROVE  OrderInv'
  <2>1. a.entry = e /\ a.column = "error" /\ a.by = 1 /\ Tail(w) = <<>>
    BY <1>5 DEF AfterBytes, Increment, Access
  <2>2. UpdateShape(Tail(w))
    BY <1>2, <2>1 DEF UpdateShape
  <2> QED
    BY <1>5, <2>1, <2>2, RestsDiffer, IncrementBalances
<1>6. ASSUME NEW e \in Entries, NEW b \in Bytes, w = update_statistic_entry(e, 1, b)
      PROVE  OrderInv'
  <2>1. a.column = "operation" /\ a.by = 1 /\ Tail(w) = <<Increment(e, "byte", b)>>
    BY <1>6 DEF update_statistic_entry, Increment, Access
  <2>2. UpdateShape(Tail(w))
    BY <2>1 DEF UpdateShape
  <2>3. OwedIn(w) = {} /\ OwedIn(Tail(w)) = {}
    BY <1>6, <2>1, RestsDiffer
  <2> QED
    BY <2>1, <2>2, <2>3, IncrementBalances
<1>7. ASSUME NEW e \in Entries, NEW b \in Bytes, w = <<Increment(e, "byte", b)>>
      PROVE  OrderInv'
  <2>1. a.column = "byte" /\ Tail(w) = <<>>
    BY <1>7 DEF Increment, Access
  <2>2. UpdateShape(Tail(w))
    BY <1>2, <2>1 DEF UpdateShape
  <2>3. OwedIn(w) = {} /\ OwedIn(Tail(w)) = {}
    BY <1>7, <2>1, RestsDiffer
  <2> QED
    BY <2>1, <2>2, <2>3, IncrementBalances
<1>8. ASSUME NEW e \in Entries, w = update_bypassed_statistic_entry(e, 1)
      PROVE  OrderInv'
  <2>1. a.column = "bypass" /\ Tail(w) = <<>>
    BY <1>8 DEF update_bypassed_statistic_entry, Increment, Access
  <2>2. UpdateShape(Tail(w))
    BY <1>2, <2>1 DEF UpdateShape
  <2>3. OwedIn(w) = {} /\ OwedIn(Tail(w)) = {}
    BY <1>8, <2>1, RestsDiffer
  <2> QED
    BY <2>1, <2>2, <2>3, IncrementBalances
<1> QED
  BY <1>1, <1>3, <1>4, <1>5, <1>6, <1>7, <1>8 DEF UpdateShape

--------------------------------------------------------------------------------

LEMMA InitOrder == Init => OrderInv
<1> SUFFICES ASSUME Init PROVE OrderInv
  OBVIOUS
<1>1. ASSUME NEW t \in Threads PROVE UpdateShape(work[t])
  BY DEF Init, UpdateShape, NoIncrement
<1>2. ASSUME NEW e \in Entries
      PROVE  counters[e]["error"] + Cardinality(Owing(e)) <= counters[e]["operation"]
  <2>1. Owing(e) = {}
    BY DEF Init, Owing, AfterOperation, AfterBytes
  <2>2. counters[e]["error"] = 0 /\ counters[e]["operation"] = 0
    BY DEF Init, Columns
  <2> QED
    BY <2>1, <2>2, FS_EmptySet
<1> QED
  BY <1>1, <1>2 DEF OrderInv, ErrorsOwed

LEMMA NextOrder == StatisticsInv /\ OrderInv /\ [Next]_vars => OrderInv'
<1> SUFFICES ASSUME StatisticsInv, OrderInv, [Next]_vars PROVE OrderInv'
  OBVIOUS
<1>1. CASE UNCHANGED vars
  BY <1>1 DEF vars, OrderInv, ErrorsOwed, Owing, UpdateShape
<1>2. ASSUME NEW t \in Threads, Begin(t) PROVE OrderInv'
  BY <1>2, BeginOrder DEF StatisticsInv
<1>3. ASSUME NEW t \in Threads, Continue(t) PROVE OrderInv'
  BY <1>3, IncrementOrder, OtherStepsOrder DEF StatisticsInv
<1> QED
  BY <1>1, <1>2, <1>3 DEF Next

LEMMA OrderSuffices == StatisticsInv /\ OrderInv => ErrorsFollowOperations
<1> SUFFICES ASSUME StatisticsInv, OrderInv, NEW e \in Entries
             PROVE  counters[e]["error"] <= counters[e]["operation"]
  BY DEF ErrorsFollowOperations
<1> QED
  BY CountersNat, OwingFinite DEF StatisticsInv, OrderInv, ErrorsOwed

\* However many threads count calls in one entry, with a mutex per counter only:
\* its errors never exceed its operations.
THEOREM ErrorsFollowOperationsCorrect == Spec => []ErrorsFollowOperations
<1>1. Spec => []OrderInv
  BY InitOrder, NextOrder, StatisticsInvCorrect, PTL DEF Spec
<1> QED
  BY <1>1, OrderSuffices, StatisticsInvCorrect, PTL

--------------------------------------------------------------------------------
(* Entries with a count are printed.                                       *)

\* Rest w of a report has still to test an entry, and the test will find a count:
\* p, the sum of what was looked at since the last test, is positive already
\* (j = 0), or the j-th access will look at one of the entry's counters n that is.
FindsCount(w, p, n, e, j) ==
    IF j = 0 THEN p > 0
    ELSE \E c \in Columns : w[j] = Access("probe", e, c, 0) /\ n[c] > 0

WillKeep(w, p, n, e, i, j) ==
    /\ j < i
    /\ w[i] = Access("keep", e, "operation", 0)
    /\ FindsCount(w, p, n, e, j)
    /\ \A k \in j + 1 .. i - 1 : w[k].do # "keep"

WillCopy(w, e, i) == w[i] = Access("copy", e, "operation", 0)

WillPrint(w, p, n, e) ==
    \E i \in 1 .. Len(w) :
        WillCopy(w, e, i) \/ \E j \in 0 .. Len(w) : WillKeep(w, p, n, e, i, j)

Printed(t, e) == rows[t][e]["operation"] # Unread

\* The strengthening: an entry to be printed has been copied, or is going to be.
PrintInv ==
    \A t \in Threads : \A e \in active[t] :
        Printed(t, e) \/ WillPrint(work[t], probe[t], counters[e], e)

Counts == [Columns -> Nat]

\* More calls are counted: what would be printed still is.
LEMMA GrownStillPrints ==
    ASSUME NEW w \in Seq(AccessType), NEW e, NEW p \in Nat, NEW q \in Nat, p <= q,
           NEW m \in Counts, NEW n \in Counts, \A c \in Columns : m[c] <= n[c],
           WillPrint(w, p, m, e)
    PROVE  WillPrint(w, q, n, e)
<1>1. ASSUME NEW j, FindsCount(w, p, m, e, j) PROVE FindsCount(w, q, n, e, j)
  BY <1>1 DEF FindsCount, Counts
<1>2. ASSUME NEW i, NEW j, WillKeep(w, p, m, e, i, j) PROVE WillKeep(w, q, n, e, i, j)
  BY <1>1, <1>2 DEF WillKeep
<1> QED
  BY <1>2 DEF WillPrint

\* A report goes on past an access that neither tests an entry nor copies e: if it
\* looked at a counter of e, the sum has grown by that counter.
LEMMA RestStillPrints ==
    ASSUME NEW w \in Seq(AccessType), w # <<>>, NEW e, NEW p \in Nat, NEW q \in Nat,
           NEW n \in Counts, WillPrint(w, p, n, e), p <= q,
           Head(w).do # "keep", ~WillCopy(w, e, 1),
           \A c \in Columns : w[1] = Access("probe", e, c, 0) => n[c] <= q
    PROVE  WillPrint(Tail(w), q, n, e)
<1>1. /\ Len(Tail(w)) = Len(w) - 1 /\ Len(w) \in Nat \ {0}
      /\ \A i \in 1 .. Len(w) - 1 : Tail(w)[i] = w[i + 1]
      /\ Head(w) = w[1]
  OBVIOUS
<1>2. PICK i \in 1 .. Len(w) :
        WillCopy(w, e, i) \/ \E j \in 0 .. Len(w) : WillKeep(w, p, n, e, i, j)
  BY DEF WillPrint
<1>3. CASE WillCopy(w, e, i)
  <2>1. i - 1 \in 1 .. Len(Tail(w)) /\ WillCopy(Tail(w), e, i - 1)
    BY <1>1, <1>3 DEF WillCopy
  <2> QED
    BY <2>1 DEF WillPrint
<1>4. CASE \E j \in 0 .. Len(w) : WillKeep(w, p, n, e, i, j)
  <2>1. PICK j \in 0 .. Len(w) : WillKeep(w, p, n, e, i, j)
    BY <1>4
  <2>2. i # 1
    BY <1>1, <2>1 DEF WillKeep, Access
  <2>3. i - 1 \in 1 .. Len(Tail(w))
    BY <1>1, <2>2
  <2> DEFINE l == IF j = 0 THEN 0 ELSE j - 1
  <2>4. l \in 0 .. Len(Tail(w)) /\ l < i - 1
    BY <1>1, <2>1, <2>2 DEF WillKeep
  <2>5. FindsCount(Tail(w), q, n, e, l)
    <3>1. FindsCount(w, p, n, e, j)
      BY <2>1 DEF WillKeep
    <3>2. CASE j = 0
      BY <3>1, <3>2 DEF FindsCount
    <3>3. CASE j = 1
      <4>1. PICK c \in Columns : w[1] = Access("probe", e, c, 0) /\ n[c] > 0
        BY <3>1, <3>3 DEF FindsCount
      <4>2. n[c] \in Nat /\ n[c] <= q
        BY <4>1 DEF Counts
      <4> QED
        BY <3>3, <4>1, <4>2 DEF FindsCount
    <3>4. CASE j > 1
      <4>1. PICK c \in Columns : w[j] = Access("probe", e, c, 0) /\ n[c] > 0
        BY <3>1, <3>4 DEF FindsCount
      <4>2. Tail(w)[l] = w[j] /\ l # 0
        BY <1>1, <3>4
      <4> QED
        BY <4>1, <4>2 DEF FindsCount
    <3> QED
      BY <3>2, <3>3, <3>4
  <2>6. WillKeep(Tail(w), q, n, e, i - 1, l)
    <3>1. Tail(w)[i - 1] = Access("keep", e, "operation", 0)
      BY <1>1, <2>1, <2>3 DEF WillKeep
    <3>2. ASSUME NEW k \in l + 1 .. (i - 1) - 1 PROVE Tail(w)[k].do # "keep"
      <4>1. k + 1 \in j + 1 .. i - 1 \/ k + 1 = 1 \/ (j = 0 /\ k + 1 \in 1 .. i - 1)
        OBVIOUS
      <4>2. w[k + 1].do # "keep"
        BY <2>1, <2>4, <4>1 DEF WillKeep
      <4>3. k \in 1 .. Len(w) - 1
        BY <1>1, <2>3, <2>4
      <4> QED
        BY <1>1, <4>2, <4>3
    <3> QED
      BY <2>4, <2>5, <3>1, <3>2 DEF WillKeep
  <2> QED
    BY <2>3, <2>4, <2>6 DEF WillPrint
<1> QED
  BY <1>2, <1>3, <1>4

\* A test: the copy of the entry comes next if a count was found.
LEMMA TestStillPrints ==
    ASSUME NEW w \in Seq(AccessType), w # <<>>, NEW e, NEW p \in Nat,
           NEW n \in Counts, WillPrint(w, p, n, e), Head(w).do = "keep", NEW v,
           \/ p = 0 /\ v = Tail(w)
           \/ p > 0 /\ \E o \in CopyOrders :
                            v = StatisticEntry_copy(Head(w).entry, o) \o Tail(w)
    PROVE  WillPrint(v, 0, n, e)
<1> DEFINE d == IF p > 0 THEN 4 ELSE 0
<1>1. /\ Len(w) \in Nat \ {0} /\ d \in {0, 4}
      /\ Len(v) = Len(w) - 1 + d
      /\ \A i \in 2 .. Len(w) : v[i - 1 + d] = w[i]
      /\ Head(w) = w[1]
      /\ p > 0 => \E k \in 1 .. 4 : v[k] = Access("copy", Head(w).entry, "operation", 0)
  <2>1. /\ Len(Tail(w)) = Len(w) - 1 /\ Len(w) \in Nat \ {0} /\ Head(w) = w[1]
        /\ \A i \in 1 .. Len(Tail(w)) : Tail(w)[i] = w[i + 1]
    BY TailElements
  <2>2. ASSUME NEW i \in 2 .. Len(w)
        PROVE  i - 1 \in 1 .. Len(Tail(w)) /\ Tail(w)[i - 1] = w[i]
    BY <2>1
  <2>3. CASE p = 0
    <3>1. d = 0 /\ v = Tail(w)
      BY <2>3
    <3> HIDE DEF d
    <3>2. ASSUME NEW i \in 2 .. Len(w) PROVE v[i - 1 + d] = w[i]
      <4>1. i - 1 + d = i - 1
        BY <3>1
      <4> QED
        BY <2>2, <3>1, <4>1
    <3>3. Len(v) = Len(w) - 1 + d
      <4>1. ASSUME NEW k \in Nat PROVE k - 1 + d = k - 1
        BY <3>1
      <4>2. Len(w) \in Nat
        BY <2>1
      <4>3. Len(w) - 1 + d = Len(w) - 1
        BY <4>1, <4>2, Zenon
      <4> QED
        BY <2>1, <3>1, <4>3, Zenon
    <3> QED
      BY <2>1, <2>3, <3>1, <3>2, <3>3
  <2>4. CASE p > 0
    <3>1. PICK o \in CopyOrders : v = StatisticEntry_copy(Head(w).entry, o) \o Tail(w)
      BY <2>4
    <3> DEFINE u == StatisticEntry_copy(Head(w).entry, o)
               x == Tail(w)
    <3>2. Head(w).entry \in Entries
      BY AccessFields
    <3>3. u \in Seq(AccessType) /\ Len(u) = 4 /\ x \in Seq(AccessType)
      BY <3>2, CopyAccesses
    <3>4. PICK k \in 1 .. 4 : u[k] = Access("copy", Head(w).entry, "operation", 0)
      <4>1. "operation" \in Columns
        BY DEF Columns
      <4>2. PICK k \in 1 .. 4 : o[k] = "operation"
        BY <4>1, CopyElements
      <4> QED
        BY <4>2, CopyElements
    <3> HIDE DEF u, x
    <3>5. /\ Len(v) = Len(u) + Len(x)
          /\ \A i \in 1 .. Len(u) : v[i] = u[i]
          /\ \A i \in 1 .. Len(x) : v[Len(u) + i] = x[i]
      <4>1. v = u \o x
        BY <3>1 DEF u, x
      <4> QED
        BY <3>3, <4>1, Concatenation, Zenon
    <3>6. Len(x) = Len(w) - 1 /\ \A i \in 2 .. Len(w) : i - 1 \in 1 .. Len(x) /\ x[i - 1] = w[i]
      BY <2>1, <2>2 DEF x
    <3>7. ASSUME NEW i \in 2 .. Len(w) PROVE v[i - 1 + 4] = w[i]
      <4>1. v[4 + (i - 1)] = x[i - 1]
        BY <3>3, <3>5, <3>6
      <4>2. 4 + (i - 1) = i - 1 + 4
        OBVIOUS
      <4> QED
        BY <3>6, <4>1, <4>2
    <3>8. v[k] = u[k]
      BY <3>3, <3>5
    <3>9. d = 4
      BY <2>4
    <3> HIDE DEF d
    <3>10. ASSUME NEW i \in 2 .. Len(w) PROVE v[i - 1 + d] = w[i]
      BY <3>7, <3>9
    <3>11. Len(v) = Len(w) - 1 + d
      <4>1. Len(v) = 4 + (Len(w) - 1)
        BY <3>3, <3>5, <3>6, Zenon
      <4>2. Len(w) - 1 + d = 4 + (Len(w) - 1)
        BY <2>1, <3>9
      <4> QED
        BY <4>1, <4>2, Zenon
    <3>12. v[k] = Access("copy", Head(w).entry, "operation", 0)
      BY <3>4, <3>8
    <3> QED
      BY <2>1, <3>9, <3>10, <3>11, <3>12
  <2> QED
    BY <2>3, <2>4
<1>2. PICK i \in 1 .. Len(w) :
        WillCopy(w, e, i) \/ \E j \in 0 .. Len(w) : WillKeep(w, p, n, e, i, j)
  BY DEF WillPrint
<1>3. CASE WillCopy(w, e, i)
  <2>1. i # 1
    BY <1>1, <1>3 DEF WillCopy, Access
  <2>2. i - 1 + d \in 1 .. Len(v) /\ WillCopy(v, e, i - 1 + d)
    BY <1>1, <1>3, <2>1 DEF WillCopy
  <2> QED
    BY <2>2 DEF WillPrint
<1>4. CASE \E j \in 0 .. Len(w) : WillKeep(w, p, n, e, i, j)
  <2>1. PICK j \in 0 .. Len(w) : WillKeep(w, p, n, e, i, j)
    BY <1>4
  <2>2. CASE i = 1
    <3>1. j = 0 /\ p > 0 /\ Head(w).entry = e
      BY <1>1, <2>1, <2>2 DEF WillKeep, FindsCount, Access
    <3>2. PICK k \in 1 .. 4 : v[k] = Access("copy", e, "operation", 0)
      BY <1>1, <3>1
    <3>3. k \in 1 .. Len(v)
      BY <1>1, <3>1
    <3> QED
      BY <3>2, <3>3 DEF WillPrint, WillCopy
  <2>3. CASE i # 1
    <3>1. j > 1
      <4>1. j # 0
        BY <1>1, <2>1, <2>3 DEF WillKeep
      <4>2. ASSUME j = 1 PROVE FALSE
        <5>1. PICK c \in Columns : w[1] = Access("probe", e, c, 0)
          BY <2>1, <4>2 DEF WillKeep, FindsCount
        <5> QED
          BY <1>1, <5>1 DEF Access
      <4> QED
        BY <4>1, <4>2
    <3> DEFINE l == j - 1 + d
               h == i - 1 + d
    <3>2. /\ h \in 1 .. Len(v) /\ l \in 0 .. Len(v) /\ l # 0 /\ l < h
          /\ v[h] = w[i] /\ v[l] = w[j]
      BY <1>1, <2>1, <2>3, <3>1 DEF WillKeep
    <3>3. ASSUME NEW k \in l + 1 .. h - 1 PROVE v[k].do # "keep"
      <4>1. k + 1 - d \in j + 1 .. i - 1 /\ k + 1 - d \in 2 .. Len(w)
        BY <1>1, <3>1
      <4>2. v[(k + 1 - d) - 1 + d] = w[k + 1 - d] /\ (k + 1 - d) - 1 + d = k
        BY <1>1, <4>1
      <4> QED
        BY <2>1, <4>1, <4>2 DEF WillKeep
    <3>4. FindsCount(v, 0, n, e, l)
      BY <2>1, <3>1, <3>2 DEF WillKeep, FindsCount
    <3>5. WillKeep(v, 0, n, e, h, l)
      BY <2>1, <3>2, <3>3, <3>4 DEF WillKeep
    <3> QED
      BY <3>2, <3>5 DEF WillPrint
  <2> QED
    BY <2>2, <2>3
<1> QED
  BY <1>2, <1>3, <1>4

LEMMA EntryOfAccess ==
    ASSUME NEW e \in Nat, NEW r \in 0 .. 3
    PROVE  (4 * e + r) \div 4 = e /\ (4 * e + r) % 4 = r
<1>1. CASE r = 0
  BY <1>1, SMTT(60)
<1>2. CASE r = 1
  BY <1>2, SMTT(60)
<1>3. CASE r = 2
  BY <1>3, SMTT(60)
<1>4. CASE r = 3
  BY <1>4, SMTT(60)
<1> QED
  BY <1>1, <1>2, <1>3, <1>4

\* A fresh to_string prints every entry that has a count.
LEMMA AllToPrint ==
    ASSUME NEW e \in Entries, NEW n \in Counts, NEW c \in Columns \ {"byte"}, n[c] > 0
    PROVE  WillPrint(to_string, 0, n, e)
<1> DEFINE w == to_string
           i == 4 * e + 4
<1>1. /\ e \in Nat /\ e < Size /\ Size \in Nat
      /\ Len(w) = 4 * Size /\ Len(w) \in Nat
      /\ \A k \in 1 .. 4 * Size : w[k] = probe_entry((k - 1) \div 4)[((k - 1) % 4) + 1]
  BY SizePositive DEF to_string, EachEntry, Entries
<1>2. ASSUME NEW k \in 1 .. 4
      PROVE  /\ 4 * e + k \in 1 .. 4 * Size
             /\ (4 * e + k - 1) \div 4 = e /\ (4 * e + k - 1) % 4 = k - 1
             /\ w[4 * e + k] = probe_entry(e)[k]
  <2>1. 4 * e + k \in 1 .. 4 * Size
    BY <1>1
  <2>2. (4 * e + k - 1) \div 4 = e /\ (4 * e + k - 1) % 4 = k - 1
    <3>1. 4 * e + k - 1 = 4 * e + (k - 1) /\ k - 1 \in 0 .. 3
      BY <1>1
    <3>2. (4 * e + (k - 1)) \div 4 = e /\ (4 * e + (k - 1)) % 4 = k - 1
      BY <1>1, <3>1, EntryOfAccess, Zenon
    <3> QED
      BY <3>1, <3>2
  <2>3. ASSUME NEW m \in 1 .. 4 * Size, (m - 1) \div 4 = e, (m - 1) % 4 = k - 1
        PROVE  w[m] = probe_entry(e)[(k - 1) + 1]
    BY <1>1, <2>3
  <2>4. ASSUME NEW m, m = 4 * e + k PROVE w[m] = probe_entry(e)[k]
    <3> HIDE DEF w
    <3>1. m \in 1 .. 4 * Size /\ (k - 1) + 1 = k
      BY <2>1, <2>4
    <3>2. (m - 1) \div 4 = e /\ (m - 1) % 4 = k - 1
      <4>1. m - 1 = 4 * e + k - 1
        BY <1>1, <2>4
      <4> QED
        BY <2>2, <4>1, Zenon
    <3>3. w[m] = probe_entry(e)[(k - 1) + 1]
      BY <2>3, <3>1, <3>2, Zenon
    <3> QED
      BY <3>1, <3>3
  <2>5. w[4 * e + k] = probe_entry(e)[k]
    BY <2>4, Zenon
  <2> QED
    BY <2>1, <2>2, <2>5, Zenon
<1>3. /\ w[4 * e + 1] = Access("probe", e, "operation", 0)
      /\ w[4 * e + 2] = Access("probe", e, "error", 0)
      /\ w[4 * e + 3] = Access("probe", e, "bypass", 0)
      /\ w[4 * e + 4] = Access("keep", e, "operation", 0)
  BY <1>2 DEF probe_entry
<1>4. PICK d \in 1 .. 3 : w[4 * e + d] = Access("probe", e, c, 0)
  BY <1>3 DEF Columns
<1> DEFINE j == 4 * e + d
<1>5. /\ i \in 1 .. Len(w) /\ j \in 0 .. Len(w) /\ j < i /\ j # 0
  BY <1>1
<1>6. FindsCount(w, 0, n, e, j)
  BY <1>4, <1>5 DEF FindsCount
<1>7. ASSUME NEW k \in j + 1 .. i - 1 PROVE w[k].do # "keep"
  <2>1. k \in {4 * e + 1, 4 * e + 2, 4 * e + 3}
    BY <1>1
  <2> QED
    BY <1>3, <2>1 DEF Access
<1>8. WillKeep(w, 0, n, e, i, j)
  BY <1>3, <1>5, <1>6, <1>7 DEF WillKeep
<1> QED
  BY <1>5, <1>8 DEF WillPrint

--------------------------------------------------------------------------------
(* The steps.                                                              *)

\* Counters only grow; the thread that steps leaves the others' reports alone.
LEMMA CountersGrow ==
    ASSUME StatisticsInv, NEW t \in Threads, Begin(t) \/ Continue(t), NEW e \in Entries
    PROVE  /\ counters[e] \in Counts /\ counters'[e] \in Counts
           /\ \A c \in Columns : counters[e][c] <= counters'[e][c]
<1>1. counters[e] \in Counts
  BY DEF StatisticsInv, TypeOK, Counts
<1>2. counters'[e] \in Counts
  BY BeginTyped, ContinueTyped DEF StatisticsInv, TypeOK, Counts
<1>3. ASSUME NEW c \in Columns PROVE counters[e][c] <= counters'[e][c]
  <2>1. counters[e][c] \in Nat
    BY <1>1 DEF Counts
  <2>2. CASE Leave(t) /\ Head(work[t]).do = "increment"
    <3>1. counters'[e][c] = IF e = Head(work[t]).entry /\ c = Head(work[t]).column
                            THEN counters[e][c] + Head(work[t]).by ELSE counters[e][c]
      BY <2>2, IncrementEffect
    <3>2. Head(work[t]).by \in Nat
      BY <2>2, IncrementEffect, NextAccess, AccessFields DEF StatisticsInv
    <3> QED
      BY <2>1, <3>1, <3>2
  <2>3. CASE ~(Leave(t) /\ Head(work[t]).do = "increment")
    <3>1. counters' = counters
      BY <2>3 DEF Begin, Update, CallGetEntry, CallToString, CallTabulate, Report, Continue,
          Enter, Leave, Copy, Keep, LockStatistics, UnlockStatistics
    <3> QED
      BY <2>1, <3>1
  <2> QED
    BY <2>2, <2>3
<1> QED
  BY <1>1, <1>2, <1>3

LEMMA OthersKeepTheirReports ==
    ASSUME TypeOK, NEW t \in Threads, Begin(t) \/ Continue(t), NEW u \in Threads, u # t
    PROVE  probe'[u] = probe[u] /\ active'[u] = active[u]
<1>1. CASE Begin(t)
  BY <1>1 DEF TypeOK, Begin, Update, CallGetEntry, CallToString, CallTabulate, Report
<1>2. CASE Enter(t) \/ Copy(t) \/ LockStatistics(t) \/ UnlockStatistics(t)
  BY <1>2 DEF Enter, Copy, LockStatistics, UnlockStatistics
<1>3. CASE Leave(t)
  BY <1>3 DEF TypeOK, Leave
<1>4. CASE Keep(t)
  BY <1>4 DEF TypeOK, Keep
<1> QED
  BY <1>1, <1>2, <1>3, <1>4 DEF Continue

LEMMA PrintTypes ==
    ASSUME TypeOK, NEW t \in Threads
    PROVE  /\ work[t] \in Seq(AccessType) /\ probe[t] \in Nat /\ active[t] \subseteq Entries
           /\ \A e \in Entries : counters[e] \in Counts
BY DEF TypeOK, Counts

\* The reports of the threads that do not step.
LEMMA OthersStillPrint ==
    ASSUME StatisticsInv, PrintInv, NEW t \in Threads, Begin(t) \/ Continue(t),
           NEW u \in Threads, u # t, NEW e \in active'[u]
    PROVE  Printed(u, e)' \/ WillPrint(work'[u], probe'[u], counters'[e], e)
<1>1. /\ work'[u] = work[u] /\ rows'[u] = rows[u]
      /\ probe'[u] = probe[u] /\ active'[u] = active[u]
  BY OthersKeepTheirCalls, OthersKeepTheirReports DEF StatisticsInv
<1>2. /\ work[u] \in Seq(AccessType) /\ probe[u] \in Nat /\ e \in Entries
  BY <1>1, PrintTypes DEF StatisticsInv
<1>3. Printed(u, e) \/ WillPrint(work[u], probe[u], counters[e], e)
  BY <1>1 DEF PrintInv
<1>4. CASE Printed(u, e)
  BY <1>1, <1>4 DEF Printed
<1>5. CASE WillPrint(work[u], probe[u], counters[e], e)
  BY <1>1, <1>2, <1>5, CountersGrow, GrownStillPrints
<1> QED
  BY <1>3, <1>4, <1>5

\* The report that begins, and the updates.
LEMMA BeginPrints ==
    ASSUME StatisticsInv, PrintInv, NEW t \in Threads, Begin(t), NEW e \in active'[t]
    PROVE  Printed(t, e)' \/ WillPrint(work'[t], probe'[t], counters'[e], e)
<1>1. CASE Update(t)
  <2>1. work[t] = <<>>
    BY <1>1 DEF Update, Call
  <2>2. e \in active[t] /\ rows' = rows
    BY <1>1 DEF Update
  <2>3. ~WillPrint(work[t], probe[t], counters[e], e)
    BY <2>1 DEF WillPrint
  <2> QED
    BY <2>2, <2>3 DEF PrintInv, Printed
<1>2. CASE CallGetEntry(t) \/ CallTabulate(t)
  <2>1. active'[t] = {}
    BY <1>2 DEF CallGetEntry, CallTabulate, Report, StatisticsInv, TypeOK
  <2> QED
    BY <2>1
<1>3. CASE CallToString(t)
  <2>1. /\ work'[t] = to_string /\ probe'[t] = 0 /\ counters' = counters
        /\ active'[t] = {d \in Entries : \E c \in Columns \ {"byte"} : counters[d][c] > 0}
    BY <1>3 DEF CallToString, Report, Call, StatisticsInv, TypeOK
  <2>2. PICK c \in Columns \ {"byte"} : counters[e][c] > 0
    BY <2>1
  <2>3. e \in Entries /\ counters[e] \in Counts
    BY <2>1, PrintTypes DEF StatisticsInv
  <2>4. WillPrint(to_string, 0, counters[e], e)
    BY <2>2, <2>3, AllToPrint
  <2> QED
    BY <2>1, <2>4
<1> QED
  BY <1>1, <1>2, <1>3 DEF Begin

\* The thread that goes on with its report, or its update.
LEMMA ContinuePrints ==
    ASSUME StatisticsInv, PrintInv, NEW t \in Threads, Continue(t), NEW e \in active'[t]
    PROVE  Printed(t, e)' \/ WillPrint(work'[t], probe'[t], counters'[e], e)
<1> DEFINE w == work[t]
           a == Head(w)
<1>1. active' = active
  BY DEF Continue, Enter, Leave, Copy, Keep, LockStatistics, UnlockStatistics
<1>2. /\ w \in Seq(AccessType) /\ probe[t] \in Nat /\ e \in Entries /\ w # <<>>
      /\ counters[e] \in Counts /\ a = w[1] /\ a \in AccessType
  <2>1. w # <<>>
    BY DEF Continue, Enter, Leave, Copy, Keep, LockStatistics, UnlockStatistics, Pending
  <2> QED
    BY <1>1, <2>1, PrintTypes, NextAccess DEF StatisticsInv
<1>3. Printed(t, e) \/ WillPrint(w, probe[t], counters[e], e)
  BY <1>1 DEF PrintInv
<1>4. CASE Printed(t, e)
  <2>1. rows'[t][e]["operation"] = rows[t][e]["operation"]
            \/ rows'[t][e]["operation"] \in Nat
    <3>1. CASE Copy(t)
      <4>1. a.entry \in Entries /\ a.column \in Columns
        BY <1>2, <3>1, AccessFields DEF Copy, Pending
      <4>2. counters[a.entry][a.column] \in Nat
        BY <4>1 DEF StatisticsInv, TypeOK
      <4> QED
        BY <1>2, <3>1, <4>1, <4>2 DEF Copy, StatisticsInv, TypeOK
    <3>2. CASE Leave(t)
      <4>1. loaded[t] \in Nat
        BY <3>2 DEF Leave, StatisticsInv, TypeOK
      <4>2. a.entry \in Entries /\ a.column \in Columns
        BY <1>2, <3>2, AccessFields DEF Leave, Pending
      <4> QED
        BY <1>2, <3>2, <4>1, <4>2 DEF Leave, StatisticsInv, TypeOK
    <3>3. CASE ~Copy(t) /\ ~Leave(t)
      BY <3>3 DEF Continue, Enter, Keep, LockStatistics, UnlockStatistics
    <3> QED
      BY <3>1, <3>2, <3>3
  <2> QED
    BY <1>4, <2>1 DEF Printed, Unread
<1>5. CASE WillPrint(w, probe[t], counters[e], e)
  <2>1. CASE Enter(t)
    BY <1>5, <2>1 DEF Enter
  <2>2. CASE Leave(t)
    <3>1. a.do \notin {"keep", "copy"} /\ work'[t] = Tail(w)
      BY <2>2 DEF Leave, Pending, Advance, Done, StatisticsInv, TypeOK
    <3>2. /\ loaded[t] \in Nat /\ loaded[t] = counters[a.entry][a.column]
          /\ probe'[t] = IF a.do = "probe" THEN probe[t] + loaded[t] ELSE probe[t]
      BY <2>2 DEF Leave, StatisticsInv, LoadedIsCurrent, Inside, TypeOK
    <3>3. probe'[t] \in Nat /\ probe[t] <= probe'[t]
      BY <1>2, <3>2
    <3>4. ASSUME NEW c \in Columns, w[1] = Access("probe", e, c, 0)
          PROVE  counters[e][c] <= probe'[t]
      <4>1. a.do = "probe" /\ a.entry = e /\ a.column = c
        BY <1>2, <3>4 DEF Access
      <4> QED
        BY <1>2, <3>2, <4>1
    <3>5. ~WillCopy(w, e, 1)
      BY <1>2, <3>1 DEF WillCopy, Access
    <3>6. WillPrint(Tail(w), probe'[t], counters[e], e)
      BY <1>2, <1>5, <3>1, <3>3, <3>4, <3>5, RestStillPrints
    <3>7. Tail(w) \in Seq(AccessType)
      BY <1>2
    <3>8. /\ counters'[e] \in Counts
          /\ \A c \in Columns : counters[e][c] <= counters'[e][c]
      BY <1>2, CountersGrow
    <3>9. ASSUME NEW q \in Nat, NEW m \in Counts, q = probe'[t], m = counters'[e]
          PROVE  WillPrint(Tail(w), q, m, e)
      <4>1. /\ WillPrint(Tail(w), q, counters[e], e)
            /\ \A c \in Columns : counters[e][c] <= m[c]
        BY <3>6, <3>8, <3>9
      <4>2. q <= q /\ counters[e] \in Counts
        BY <1>2
      <4> QED
        BY <3>7, <4>1, <4>2, GrownStillPrints, Zenon
    <3> QED
      BY <3>1, <3>3, <3>8, <3>9
  <2>3. CASE Copy(t)
    <3>1. /\ a.do = "copy" /\ work'[t] = Tail(w) /\ probe' = probe /\ counters' = counters
          /\ a.entry \in Entries /\ a.column \in Columns
      BY <1>2, <2>3, AccessFields DEF Copy, Pending, Done, StatisticsInv, TypeOK
    <3>2. CASE WillCopy(w, e, 1)
      <4>1. a.entry = e /\ a.column = "operation"
        BY <1>2, <3>2 DEF WillCopy, Access
      <4>2. rows'[t][e]["operation"] = counters[e]["operation"]
        BY <2>3, <3>1, <4>1 DEF Copy, StatisticsInv, TypeOK
      <4>3. counters[e]["operation"] \in Nat
        BY <1>2, <3>1, <4>1 DEF Counts
      <4> QED
        BY <4>2, <4>3 DEF Printed, Unread
    <3>3. CASE ~WillCopy(w, e, 1)
      <4>1. \A c \in Columns : w[1] # Access("probe", e, c, 0)
        BY <1>2, <3>1 DEF Access
      <4>2. WillPrint(Tail(w), probe[t], counters[e], e)
        BY <1>2, <1>5, <3>1, <3>3, <4>1, RestStillPrints
      <4> QED
        BY <3>1, <4>2
    <3> QED
      BY <3>2, <3>3
  <2>4. CASE Keep(t)
    <3>1. /\ a.do = "keep" /\ probe'[t] = 0 /\ counters' = counters
          /\ \/ probe[t] = 0 /\ work'[t] = Tail(w)
             \/ probe[t] > 0 /\ \E o \in CopyOrders :
                    work'[t] = StatisticEntry_copy(a.entry, o) \o Tail(w)
      BY <2>4 DEF Keep, Done, Pending, StatisticsInv, TypeOK
    <3> QED
      BY <1>2, <1>5, <3>1, TestStillPrints
  <2>5. CASE LockStatistics(t) \/ UnlockStatistics(t)
    <3>1. /\ a.do \in {"lock", "unlock"} /\ work'[t] = Tail(w)
          /\ probe' = probe /\ counters' = counters
      BY <2>5 DEF LockStatistics, UnlockStatistics, Pending, Done, StatisticsInv, TypeOK
    <3>2. ~WillCopy(w, e, 1) /\ \A c \in Columns : w[1] # Access("probe", e, c, 0)
      BY <1>2, <3>1 DEF WillCopy, Access
    <3>3. WillPrint(Tail(w), probe[t], counters[e], e)
      BY <1>2, <1>5, <3>1, <3>2, RestStillPrints
    <3> QED
      BY <3>1, <3>3
  <2> QED
    BY <2>1, <2>2, <2>3, <2>4, <2>5 DEF Continue
<1> QED
  BY <1>3, <1>4, <1>5

LEMMA NextPrints == StatisticsInv /\ PrintInv /\ [Next]_vars => PrintInv'
<1> SUFFICES ASSUME StatisticsInv, PrintInv, [Next]_vars PROVE PrintInv'
  OBVIOUS
<1>1. CASE UNCHANGED vars
  BY <1>1 DEF vars, PrintInv, Printed
<1>2. ASSUME NEW t \in Threads, Begin(t) \/ Continue(t) PROVE PrintInv'
  <2>1. ASSUME NEW u \in Threads, NEW e \in active'[u]
        PROVE  Printed(u, e)' \/ WillPrint(work'[u], probe'[u], counters'[e], e)
    BY <1>2, <2>1, OthersStillPrint, BeginPrints, ContinuePrints
  <2> QED
    BY <2>1 DEF PrintInv, Printed
<1> QED
  BY <1>1, <1>2 DEF Next

\* to_string decides by three counters, each read under a mutex of its own while
\* others count: no entry with a count before the call is left out.
THEOREM ActiveEntriesPrintedCorrect == Spec => []ActiveEntriesPrinted
<1>1. Init => PrintInv
  BY DEF Init, PrintInv
<1>2. PrintInv => ActiveEntriesPrinted
  <2> SUFFICES ASSUME PrintInv, NEW t \in Threads, work[t] = <<>>, NEW e \in active[t]
               PROVE  rows[t][e]["operation"] # Unread
    BY DEF ActiveEntriesPrinted
  <2>1. ~WillPrint(work[t], probe[t], counters[e], e)
    BY DEF WillPrint
  <2> QED
    BY <2>1 DEF PrintInv, Printed
<1>3. Spec => []PrintInv
  BY <1>1, NextPrints, StatisticsInvCorrect, PTL DEF Spec
<1> QED
  BY <1>2, <1>3, PTL

--------------------------------------------------------------------------------
(* Sums.                                                                   *)

\* Induction over numbers, as a fact about a set of them.
LEMMA LeastNumber ==
    ASSUME NEW T \in SUBSET Nat, T # {}
    PROVE  \E m \in T : \A k \in T : m <= k
<1> DEFINE Below(k) == 0 .. k - 1
           D == {Below(k) : k \in T}
<1>1. ASSUME NEW k \in T PROVE Below(k) \in FiniteSubsetsOf(Nat)
  <2>1. IsFiniteSet(Below(k))
    BY FS_Interval
  <2> QED
    BY <2>1 DEF FiniteSubsetsOf
<1>2. D \subseteq FiniteSubsetsOf(Nat) /\ D # {}
  BY <1>1
<1>3. PICK B \in D : \A C \in D : <<C, B>> \notin StrictSubsetOrdering(Nat)
  <2> HIDE DEF D
  <2> QED
    BY <1>2, FS_StrictSubsetOrderingWellFounded, WFMin
<1>4. PICK m \in T : B = Below(m)
  OBVIOUS
<1>5. ASSUME NEW k \in T PROVE m <= k
  <2>1. SUFFICES ASSUME k < m PROVE FALSE
    BY <1>4
  <2>2. Below(k) \subseteq Below(m) /\ Below(k) # Below(m)
    <3>1. k \in Below(m) /\ k \notin Below(k)
      BY <2>1
    <3> QED
      BY <2>1, <3>1
  <2>3. <<Below(k), Below(m)>> \in StrictSubsetOrdering(Nat)
    BY <2>2 DEF StrictSubsetOrdering
  <2> QED
    BY <1>3, <1>4, <2>3
<1> QED
  BY <1>5

LEMMA NumberInduction ==
    ASSUME NEW T \in SUBSET Nat, 0 \in T, \A n \in T : n + 1 \in T
    PROVE  T = Nat
<1> SUFFICES ASSUME Nat \ T # {} PROVE FALSE
  OBVIOUS
<1>1. PICK m \in Nat \ T : \A k \in Nat \ T : m <= k
  <2> DEFINE D == Nat \ T
  <2>1. D \in SUBSET Nat /\ D # {}
    OBVIOUS
  <2>2. \E m \in D : \A k \in D : m <= k
    <3> HIDE DEF D
    <3> QED
      BY <2>1, LeastNumber
  <2> QED
    BY <2>2
<1>2. m - 1 \in Nat /\ m - 1 \notin Nat \ T
  BY <1>1
<1>3. (m - 1) + 1 \in T
  BY <1>2
<1> QED
  BY <1>3

\* Induction over the subsets of a finite set, as a fact about a set of them.
LEMMA SubsetInduction ==
    ASSUME NEW S, IsFiniteSet(S), NEW T \in SUBSET SUBSET S,
           ASSUME NEW U \in SUBSET S, \A e \in U : U \ {e} \in T PROVE U \in T
    PROVE  T = SUBSET S
<1> DEFINE D == (SUBSET S) \ T
<1> SUFFICES ASSUME D # {} PROVE FALSE
  OBVIOUS
<1>1. D \subseteq FiniteSubsetsOf(S)
  BY FS_Subset DEF FiniteSubsetsOf
<1>2. PICK U \in D : \A V \in D : <<V, U>> \notin StrictSubsetOrdering(S)
  <2> HIDE DEF D
  <2> QED
    BY <1>1, FS_StrictSubsetOrderingWellFounded, WFMin
<1>3. ASSUME NEW e \in U PROVE U \ {e} \in T
  <2>1. <<U \ {e}, U>> \in StrictSubsetOrdering(S)
    BY DEF StrictSubsetOrdering
  <2> QED
    BY <1>2, <2>1
<1> QED
  BY <1>2, <1>3

--------------------------------------------------------------------------------

Choice(s) == CHOOSE x \in s : TRUE

\* The value of the iteration for one set, from its value for a smaller one.
Iterated(f, g, s) == IF s = {} THEN 0 ELSE f[Choice(s)] + g[s \ {Choice(s)}]

Iteration(f) == CHOOSE g : g = [s \in SUBSET Entries |-> Iterated(f, g, s)]

LEMMA SumIsIteration == ASSUME NEW f PROVE Sum(f) = Iteration(f)[Entries]
BY DEF Sum, MapThenSumSet, MapThenFoldSet, Iteration, Iterated, Choice

Small(n) == {s \in SUBSET Entries : Cardinality(s) <= n}

Iterates(f, g, n) ==
    /\ g \in [Small(n) -> Int]
    /\ \A s \in Small(n) : g[s] = Iterated(f, g, s)

LEMMA EntriesFinite == IsFiniteSet(Entries) /\ Cardinality(Entries) = Size
<1>1. 0 \in Int /\ Size - 1 \in Int /\ ~(0 > Size - 1)
  BY StatisticsAssumption
<1>2. IsFiniteSet(0 .. Size - 1) /\ Cardinality(0 .. Size - 1) = Size - 1 - 0 + 1
  BY <1>1, FS_Interval, Zenon
<1> QED
  BY <1>2, SizePositive DEF Entries

LEMMA Rest ==
    ASSUME NEW s \in SUBSET Entries, s # {}
    PROVE  /\ Choice(s) \in s /\ s \ {Choice(s)} \in SUBSET Entries
           /\ Cardinality(s) \in Nat
           /\ Cardinality(s \ {Choice(s)}) = Cardinality(s) - 1
<1>1. Choice(s) \in s
  BY DEF Choice
<1>2. IsFiniteSet(s)
  BY EntriesFinite, FS_Subset
<1> QED
  BY <1>1, <1>2, FS_RemoveElement, FS_CardinalityType

LEMMA IterationsExist ==
    ASSUME NEW f \in [Entries -> Int]
    PROVE  \A n \in Nat : \E g : Iterates(f, g, n)
<1> DEFINE T == {n \in Nat : \E g : Iterates(f, g, n)}
<1>1. 0 \in T
  <2> DEFINE g == [s \in Small(0) |-> 0]
  <2>1. ASSUME NEW s \in Small(0) PROVE s = {}
    <3>1. s \in SUBSET Entries /\ Cardinality(s) <= 0
      BY DEF Small
    <3>2. ASSUME s # {} PROVE FALSE
      <4>1. Cardinality(s) \in Nat /\ Cardinality(s \ {Choice(s)}) = Cardinality(s) - 1
        BY <3>1, <3>2, Rest
      <4>2. Cardinality(s \ {Choice(s)}) \in Nat
        BY <3>1, EntriesFinite, FS_Subset, FS_CardinalityType
      <4> QED
        BY <3>1, <4>1, <4>2
    <3> QED
      BY <3>2
  <2>2. Iterates(f, g, 0)
    BY <2>1 DEF Iterates, Iterated
  <2> QED
    BY <2>2
<1>2. ASSUME NEW n \in T PROVE n + 1 \in T
  <2>1. PICK g : Iterates(f, g, n)
    OBVIOUS
  <2> DEFINE h == [s \in Small(n + 1) |-> Iterated(f, g, s)]
  <2>2. ASSUME NEW s \in Small(n + 1), s # {}
        PROVE  Choice(s) \in Entries /\ s \ {Choice(s)} \in Small(n)
    <3>1. s \in SUBSET Entries /\ Cardinality(s) <= n + 1 /\ n \in Nat
      BY DEF Small
    <3>2. /\ Choice(s) \in s /\ s \ {Choice(s)} \in SUBSET Entries
          /\ Cardinality(s) \in Nat
          /\ Cardinality(s \ {Choice(s)}) = Cardinality(s) - 1
      BY <2>2, <3>1, Rest
    <3>3. Cardinality(s \ {Choice(s)}) <= n
      BY <3>1, <3>2
    <3> QED
      BY <3>1, <3>2, <3>3 DEF Small
  <2>3. h \in [Small(n + 1) -> Int]
    <3>1. ASSUME NEW s \in Small(n + 1) PROVE Iterated(f, g, s) \in Int
      BY <2>1, <2>2, <3>1 DEF Iterates, Iterated
    <3> QED
      BY <3>1
  <2>4. Small(n) \subseteq Small(n + 1)
    <3>1. ASSUME NEW s \in Small(n) PROVE s \in Small(n + 1)
      <4>1. Cardinality(s) \in Nat
        BY EntriesFinite, FS_Subset, FS_CardinalityType DEF Small
      <4>2. Cardinality(s) <= n + 1
        BY <4>1 DEF Small
      <4> QED
        BY <4>2 DEF Small
    <3> QED
      BY <3>1
  <2>5. ASSUME NEW s \in Small(n) PROVE h[s] = g[s]
    BY <2>1, <2>4 DEF Iterates
  <2>6. ASSUME NEW s \in Small(n + 1) PROVE h[s] = Iterated(f, h, s)
    <3>1. h[s] = Iterated(f, g, s)
      OBVIOUS
    <3> QED
      BY <2>2, <2>5, <3>1 DEF Iterated
  <2>7. Iterates(f, h, n + 1)
    <3> HIDE DEF h
    <3> QED
      BY <2>3, <2>6 DEF Iterates
  <2> QED
    BY <2>7
<1>3. T = Nat
  <2>1. T \in SUBSET Nat
    OBVIOUS
  <2> HIDE DEF T
  <2> QED
    BY <1>1, <1>2, <2>1, NumberInduction
<1> QED
  BY <1>3

LEMMA IterationUnfolds ==
    ASSUME NEW f \in [Entries -> Int]
    PROVE  /\ Iteration(f) \in [SUBSET Entries -> Int]
           /\ \A s \in SUBSET Entries : Iteration(f)[s] = Iterated(f, Iteration(f), s)
<1> DEFINE G(g) == [s \in SUBSET Entries |-> Iterated(f, g, s)]
<1>1. Small(Size) = SUBSET Entries
  <2>1. \A s \in SUBSET Entries : Cardinality(s) <= Size
    BY EntriesFinite, FS_Subset
  <2> QED
    BY <2>1 DEF Small
<1>2. PICK g : Iterates(f, g, Size)
  BY IterationsExist, SizePositive
<1>3. g = G(g)
  BY <1>1, <1>2 DEF Iterates
<1> DEFINE i == Iteration(f)
<1>4. i = G(i)
  <2>1. i = CHOOSE x : x = G(x)
    BY DEF Iteration
  <2> HIDE DEF G, i
  <2> QED
    BY <1>3, <2>1
<1> HIDE DEF i
<1>5. \A s \in SUBSET Entries : i[s] = Iterated(f, i, s)
  BY <1>4
<1> DEFINE T == {s \in SUBSET Entries : i[s] \in Int}
<1>6. ASSUME NEW s \in SUBSET Entries, \A e \in s : s \ {e} \in T PROVE s \in T
  <2>1. Iterated(f, i, s) \in Int
    <3>1. CASE s = {}
      BY <3>1 DEF Iterated
    <3>2. CASE s # {}
      <4>1. Choice(s) \in s /\ Choice(s) \in Entries
        BY <3>2, Rest
      <4>2. i[s \ {Choice(s)}] \in Int /\ f[Choice(s)] \in Int
        BY <1>6, <4>1
      <4> QED
        BY <3>2, <4>2 DEF Iterated
    <3> QED
      BY <3>1, <3>2
  <2> QED
    BY <1>5, <2>1
<1>7. T = SUBSET Entries
  <2>1. T \in SUBSET SUBSET Entries
    OBVIOUS
  <2> HIDE DEF T
  <2> QED
    BY <1>6, <2>1, EntriesFinite, SubsetInduction
<1>8. i \in [SUBSET Entries -> Int]
  BY <1>4, <1>7
<1> QED
  BY <1>5, <1>8 DEF i

\* A set and what Choice leaves of it.
LEMMA IterationOfRest ==
    ASSUME NEW f \in [Entries -> Int], NEW s \in SUBSET Entries, s # {}
    PROVE  /\ Iteration(f)[s] = f[Choice(s)] + Iteration(f)[s \ {Choice(s)}]
           /\ f[Choice(s)] \in Int /\ Iteration(f)[s \ {Choice(s)}] \in Int
           /\ Iteration(f)[s] \in Int
           /\ Choice(s) \in s /\ Choice(s) \in Entries
<1>1. Choice(s) \in s /\ s \ {Choice(s)} \in SUBSET Entries
  BY Rest
<1>2. /\ Iteration(f) \in [SUBSET Entries -> Int]
      /\ Iteration(f)[s] = Iterated(f, Iteration(f), s)
  BY IterationUnfolds
<1> QED
  BY <1>1, <1>2 DEF Iterated

LEMMA IterationOfNothing ==
    ASSUME NEW f \in [Entries -> Int]
    PROVE  Iteration(f)[{}] = 0
BY IterationUnfolds DEF Iterated

LEMMA SumOfZeros ==
    ASSUME NEW f \in [Entries -> Int], \A e \in Entries : f[e] = 0
    PROVE  Sum(f) = 0
<1> DEFINE T == {s \in SUBSET Entries : Iteration(f)[s] = 0}
<1>1. ASSUME NEW s \in SUBSET Entries, \A e \in s : s \ {e} \in T PROVE s \in T
  <2>1. CASE s = {}
    BY <2>1, IterationOfNothing
  <2>2. CASE s # {}
    <3>1. /\ Iteration(f)[s] = f[Choice(s)] + Iteration(f)[s \ {Choice(s)}]
          /\ Choice(s) \in s /\ Choice(s) \in Entries
      BY <2>2, IterationOfRest
    <3>2. f[Choice(s)] = 0 /\ Iteration(f)[s \ {Choice(s)}] = 0
      BY <1>1, <3>1
    <3> QED
      BY <3>1, <3>2
  <2> QED
    BY <2>1, <2>2
<1>2. T = SUBSET Entries
  <2>1. T \in SUBSET SUBSET Entries
    OBVIOUS
  <2> HIDE DEF T
  <2> QED
    BY <1>1, <2>1, EntriesFinite, SubsetInduction
<1> QED
  BY <1>2, SumIsIteration

LEMMA SumMonotone ==
    ASSUME NEW f \in [Entries -> Int], NEW g \in [Entries -> Int],
           \A e \in Entries : f[e] <= g[e]
    PROVE  Sum(f) <= Sum(g) /\ Sum(f) \in Int /\ Sum(g) \in Int
<1> DEFINE T == {s \in SUBSET Entries : Iteration(f)[s] <= Iteration(g)[s]}
<1>1. ASSUME NEW s \in SUBSET Entries, \A e \in s : s \ {e} \in T PROVE s \in T
  <2>1. CASE s = {}
    BY <2>1, IterationOfNothing
  <2>2. CASE s # {}
    <3>1. /\ Iteration(f)[s] = f[Choice(s)] + Iteration(f)[s \ {Choice(s)}]
          /\ Iteration(g)[s] = g[Choice(s)] + Iteration(g)[s \ {Choice(s)}]
          /\ f[Choice(s)] \in Int /\ g[Choice(s)] \in Int
          /\ Iteration(f)[s \ {Choice(s)}] \in Int /\ Iteration(g)[s \ {Choice(s)}] \in Int
          /\ Choice(s) \in s /\ Choice(s) \in Entries
      BY <2>2, IterationOfRest
    <3>2. Iteration(f)[s \ {Choice(s)}] <= Iteration(g)[s \ {Choice(s)}]
      BY <1>1, <3>1
    <3>3. f[Choice(s)] <= g[Choice(s)]
      BY <3>1
    <3> QED
      BY <3>1, <3>2, <3>3
  <2> QED
    BY <2>1, <2>2
<1>2. T = SUBSET Entries
  <2>1. T \in SUBSET SUBSET Entries
    OBVIOUS
  <2> HIDE DEF T
  <2> QED
    BY <1>1, <2>1, EntriesFinite, SubsetInduction
<1>3. Iteration(f)[Entries] \in Int /\ Iteration(g)[Entries] \in Int
  BY IterationUnfolds
<1> QED
  BY <1>2, <1>3, SumIsIteration

LEMMA SumWithMore ==
    ASSUME NEW f \in [Entries -> Int], NEW g \in [Entries -> Int],
           NEW x \in Entries, NEW d \in Int,
           \A e \in Entries : g[e] = IF e = x THEN f[e] + d ELSE f[e]
    PROVE  Sum(g) = Sum(f) + d
<1> DEFINE T == {s \in SUBSET Entries :
                    Iteration(g)[s] = IF x \in s THEN Iteration(f)[s] + d ELSE Iteration(f)[s]}
<1>1. ASSUME NEW s \in SUBSET Entries, \A e \in s : s \ {e} \in T PROVE s \in T
  <2>1. CASE s = {}
    BY <2>1, IterationOfNothing
  <2>2. CASE s # {}
    <3> DEFINE c == Choice(s)
    <3>1. /\ Iteration(f)[s] = f[c] + Iteration(f)[s \ {c}]
          /\ Iteration(g)[s] = g[c] + Iteration(g)[s \ {c}]
          /\ f[c] \in Int /\ g[c] \in Int
          /\ Iteration(f)[s \ {c}] \in Int /\ Iteration(g)[s \ {c}] \in Int
          /\ c \in s /\ c \in Entries
      BY <2>2, IterationOfRest
    <3>2. Iteration(g)[s \ {c}] =
            IF x \in s \ {c} THEN Iteration(f)[s \ {c}] + d ELSE Iteration(f)[s \ {c}]
      BY <1>1, <3>1
    <3>3. g[c] = IF c = x THEN f[c] + d ELSE f[c]
      BY <3>1
    <3>4. CASE c = x
      BY <3>1, <3>2, <3>3, <3>4
    <3>5. CASE c # x
      <4>1. x \in s \ {c} <=> x \in s
        BY <3>5
      <4> QED
        BY <3>1, <3>2, <3>3, <3>5, <4>1
    <3> QED
      BY <3>4, <3>5
  <2> QED
    BY <2>1, <2>2
<1>2. T = SUBSET Entries
  <2>1. T \in SUBSET SUBSET Entries
    OBVIOUS
  <2> HIDE DEF T
  <2> QED
    BY <1>1, <2>1, EntriesFinite, SubsetInduction
<1> QED
  BY <1>2, SumIsIteration

--------------------------------------------------------------------------------
(* The totals of a table.                                                  *)

SumOf(a, e, c) == a.do = "sum" /\ a.entry = e /\ a.column = c

\* The entries whose counters a report has still to add to its total of a column,
\* and those it has added.
Remaining(w, c) == {e \in Entries : \E i \in 1 .. Len(w) : SumOf(w[i], e, c)}
Summed(w, c) == Entries \ Remaining(w, c)

NoSums(w) == \A i \in 1 .. Len(w) : w[i].do # "sum"

\* What may be left of tabulate: rows, then sums, each of which is made once.
TableRest(w) ==
    /\ \A i \in 1 .. Len(w) : w[i].do \in {"row", "sum"}
    /\ \A i, j \in 1 .. Len(w) : i < j /\ w[j].do = "row" => w[i].do = "row"
    /\ \A i, j \in 1 .. Len(w) : \A e \in Entries, c \in Columns :
          SumOf(w[i], e, c) /\ SumOf(w[j], e, c) => i = j
    /\ w # <<>> /\ w[1].do = "row" => \A c \in Columns : Remaining(w, c) = Entries

Values == Nat \cup {Unread}

Part(f, c, U) == [e \in Entries |-> IF e \in U THEN f[e][c] ELSE 0]

\* A total is at least what the rows show, and at most what is counted, of the
\* entries that have been added to it.
Between(row, count, total, w) ==
    \A c \in Columns :
        /\ \A e \in Entries : row[e][c] <= count[e][c]
        /\ Sum(Part(row, c, Summed(w, c))) <= total[c]
        /\ total[c] <= Sum(Part(count, c, Summed(w, c)))

NoTotals(t) == (\A c \in Columns : totals[t][c] = Unread) /\ NoSums(work[t])

TableTotals(t) ==
    /\ t \in Tabulators
    /\ \A c \in Columns : totals[t][c] # Unread
    /\ TableRest(work[t])
    /\ Between(rows[t], counters, totals[t], work[t])

TotalsInv == \A t \in Threads : NoTotals(t) \/ TableTotals(t)

--------------------------------------------------------------------------------

LEMMA PartType ==
    ASSUME NEW f \in [Entries -> [Columns -> Values]], NEW c \in Columns, NEW U
    PROVE  Part(f, c, U) \in [Entries -> Int]
BY DEF Part, Values, Unread

LEMMA CountersAreValues ==
    ASSUME NEW f \in [Entries -> [Columns -> Nat]]
    PROVE  f \in [Entries -> [Columns -> Values]]
BY DEF Values

LEMMA GrownStillBetween ==
    ASSUME NEW row \in [Entries -> [Columns -> Values]],
           NEW count \in [Entries -> [Columns -> Nat]],
           NEW more \in [Entries -> [Columns -> Nat]],
           NEW total \in [Columns -> Values], NEW w,
           \A e \in Entries, c \in Columns : count[e][c] <= more[e][c],
           Between(row, count, total, w)
    PROVE  Between(row, more, total, w)
<1> SUFFICES ASSUME NEW c \in Columns
             PROVE  /\ \A e \in Entries : row[e][c] <= more[e][c]
                    /\ Sum(Part(row, c, Summed(w, c))) <= total[c]
                    /\ total[c] <= Sum(Part(more, c, Summed(w, c)))
  BY DEF Between
<1>1. /\ \A e \in Entries : row[e][c] <= count[e][c]
      /\ Sum(Part(row, c, Summed(w, c))) <= total[c]
      /\ total[c] <= Sum(Part(count, c, Summed(w, c)))
  BY DEF Between
<1>2. ASSUME NEW e \in Entries PROVE row[e][c] <= more[e][c]
  <2>1. row[e][c] \in Int /\ count[e][c] \in Int /\ more[e][c] \in Int
    BY DEF Values, Unread
  <2> QED
    BY <1>1, <2>1
<1> DEFINE p == Part(count, c, Summed(w, c))
           q == Part(more, c, Summed(w, c))
<1>3. p \in [Entries -> Int] /\ q \in [Entries -> Int]
  BY PartType, CountersAreValues
<1>4. ASSUME NEW e \in Entries PROVE p[e] <= q[e]
  BY DEF Part
<1>5. Sum(p) <= Sum(q) /\ Sum(p) \in Int /\ Sum(q) \in Int
  <2> HIDE DEF p, q
  <2> QED
    BY <1>3, <1>4, SumMonotone
<1>6. total[c] \in Int
  BY DEF Values, Unread
<1> QED
  BY <1>1, <1>2, <1>5, <1>6

LEMMA ElementOfTail ==
    ASSUME NEW w \in Seq(AccessType), w # <<>>
    PROVE  /\ Len(Tail(w)) = Len(w) - 1 /\ Len(w) \in Nat \ {0}
           /\ \A i \in 1 .. Len(Tail(w)) :
                i + 1 \in 1 .. Len(w) /\ Tail(w)[i] = w[i + 1]
           /\ Head(w) = w[1]
OBVIOUS

LEMMA RemainingOfTail ==
    ASSUME NEW w \in Seq(AccessType), w # <<>>, NEW c \in Columns
    PROVE  /\ Remaining(Tail(w), c) \subseteq Remaining(w, c)
           /\ \A e \in Remaining(w, c) : SumOf(w[1], e, c) \/ e \in Remaining(Tail(w), c)
<1>1. /\ Len(Tail(w)) = Len(w) - 1 /\ Len(w) \in Nat \ {0}
      /\ \A i \in 1 .. Len(Tail(w)) : i + 1 \in 1 .. Len(w) /\ Tail(w)[i] = w[i + 1]
  BY ElementOfTail
<1>2. ASSUME NEW e \in Remaining(Tail(w), c) PROVE e \in Remaining(w, c)
  <2>1. PICK i \in 1 .. Len(Tail(w)) : SumOf(Tail(w)[i], e, c)
    BY DEF Remaining
  <2>2. i + 1 \in 1 .. Len(w) /\ SumOf(w[i + 1], e, c)
    BY <1>1, <2>1
  <2> QED
    BY <2>2 DEF Remaining
<1>3. ASSUME NEW e \in Remaining(w, c), ~SumOf(w[1], e, c)
      PROVE  e \in Remaining(Tail(w), c)
  <2>1. PICK i \in 1 .. Len(w) : SumOf(w[i], e, c)
    BY DEF Remaining
  <2>2. i # 1
    BY <1>3, <2>1
  <2>3. PICK j \in 1 .. Len(Tail(w)) : i = j + 1
    <3>1. i - 1 \in 1 .. Len(Tail(w)) /\ i = (i - 1) + 1
      BY <1>1, <2>2
    <3> QED
      BY <3>1
  <2>4. SumOf(Tail(w)[j], e, c)
    BY <1>1, <2>1, <2>3
  <2> QED
    BY <2>4 DEF Remaining
<1> QED
  BY <1>2, <1>3

\* A row leaves what is to be added as it is, a sum takes one entry of one column.
LEMMA RemainingAfterRow ==
    ASSUME NEW w \in Seq(AccessType), w # <<>>, w[1].do = "row", NEW c \in Columns
    PROVE  Remaining(Tail(w), c) = Remaining(w, c)
BY RemainingOfTail DEF SumOf

LEMMA RemainingAfterSum ==
    ASSUME NEW w \in Seq(AccessType), w # <<>>, w[1].do = "sum", TableRest(w),
           NEW c \in Columns, w[1].entry \in Entries
    PROVE  /\ w[1].column # c => Remaining(Tail(w), c) = Remaining(w, c)
           /\ w[1].column = c => /\ w[1].entry \in Remaining(w, c)
                                 /\ Remaining(Tail(w), c) = Remaining(w, c) \ {w[1].entry}
<1>1. CASE w[1].column # c
  BY <1>1, RemainingOfTail DEF SumOf
<1>2. CASE w[1].column = c
  <2> DEFINE e == w[1].entry
  <2>1. /\ Len(Tail(w)) = Len(w) - 1 /\ Len(w) \in Nat \ {0}
        /\ \A i \in 1 .. Len(Tail(w)) : i + 1 \in 1 .. Len(w) /\ Tail(w)[i] = w[i + 1]
    BY ElementOfTail
  <2>2. 1 \in 1 .. Len(w) /\ SumOf(w[1], e, c)
    BY <1>2, <2>1 DEF SumOf
  <2>3. e \in Remaining(w, c)
    BY <2>2 DEF Remaining
  <2>4. e \notin Remaining(Tail(w), c)
    <3>1. SUFFICES ASSUME NEW i \in 1 .. Len(Tail(w)), SumOf(Tail(w)[i], e, c) PROVE FALSE
      BY DEF Remaining
    <3>2. i + 1 \in 1 .. Len(w) /\ SumOf(w[i + 1], e, c) /\ i + 1 # 1
      BY <2>1, <3>1
    <3> QED
      BY <2>2, <3>2 DEF TableRest
  <2>5. \A d \in Remaining(w, c) : d = e \/ d \in Remaining(Tail(w), c)
    BY RemainingOfTail DEF SumOf
  <2> QED
    BY <1>2, <2>3, <2>4, <2>5, RemainingOfTail
<1> QED
  BY <1>1, <1>2

LEMMA TailOfTable ==
    ASSUME NEW w \in Seq(AccessType), w # <<>>, TableRest(w)
    PROVE  TableRest(Tail(w))
<1>1. /\ Len(Tail(w)) = Len(w) - 1 /\ Len(w) \in Nat \ {0}
      /\ \A i \in 1 .. Len(Tail(w)) : i + 1 \in 1 .. Len(w) /\ Tail(w)[i] = w[i + 1]
  BY ElementOfTail
<1>2. ASSUME NEW i \in 1 .. Len(Tail(w)), NEW j \in 1 .. Len(Tail(w))
      PROVE  /\ Tail(w)[i].do \in {"row", "sum"}
             /\ i < j /\ Tail(w)[j].do = "row" => Tail(w)[i].do = "row"
             /\ \A e \in Entries, c \in Columns :
                  SumOf(Tail(w)[i], e, c) /\ SumOf(Tail(w)[j], e, c) => i = j
  <2>1. /\ i + 1 \in 1 .. Len(w) /\ Tail(w)[i] = w[i + 1]
        /\ j + 1 \in 1 .. Len(w) /\ Tail(w)[j] = w[j + 1]
    BY <1>1
  <2>2. w[i + 1].do \in {"row", "sum"}
    BY <2>1 DEF TableRest
  <2>3. i + 1 < j + 1 /\ w[j + 1].do = "row" => w[i + 1].do = "row"
    BY <2>1 DEF TableRest
  <2>4. \A e \in Entries, c \in Columns :
            SumOf(w[i + 1], e, c) /\ SumOf(w[j + 1], e, c) => i + 1 = j + 1
    BY <2>1 DEF TableRest
  <2> QED
    BY <2>1, <2>2, <2>3, <2>4
<1>3. ASSUME Tail(w) # <<>>, Tail(w)[1].do = "row", NEW c \in Columns
      PROVE  Remaining(Tail(w), c) = Entries
  <2>1. 1 \in 1 .. Len(Tail(w))
    BY <1>3
  <2>2. 2 \in 1 .. Len(w) /\ Tail(w)[1] = w[2]
    BY <1>1, <2>1
  <2>3. 1 \in 1 .. Len(w) /\ w[1].do = "row"
    BY <1>1, <1>3, <2>2 DEF TableRest
  <2> QED
    BY <1>3, <2>3, RemainingAfterRow DEF TableRest
<1> QED
  BY <1>2, <1>3 DEF TableRest

LEMMA RowStillBetween ==
    ASSUME NEW row \in [Entries -> [Columns -> Values]],
           NEW count \in [Entries -> [Columns -> Nat]],
           NEW total \in [Columns -> Values],
           NEW w \in Seq(AccessType), w # <<>>, w[1].do = "row", TableRest(w),
           NEW e \in Entries, NEW d \in Columns, Between(row, count, total, w)
    PROVE  Between([row EXCEPT ![e][d] = count[e][d]], count, total, Tail(w))
<1> DEFINE more == [row EXCEPT ![e][d] = count[e][d]]
<1> SUFFICES ASSUME NEW c \in Columns
             PROVE  /\ \A x \in Entries : more[x][c] <= count[x][c]
                    /\ Sum(Part(more, c, Summed(Tail(w), c))) <= total[c]
                    /\ total[c] <= Sum(Part(count, c, Summed(Tail(w), c)))
  BY DEF Between
<1>1. /\ \A x \in Entries : row[x][c] <= count[x][c]
      /\ Sum(Part(row, c, Summed(w, c))) <= total[c]
      /\ total[c] <= Sum(Part(count, c, Summed(w, c)))
  BY DEF Between
<1>2. ASSUME NEW x \in Entries PROVE more[x][c] <= count[x][c]
  <2>1. count[x][c] \in Int
    OBVIOUS
  <2>2. more[x][c] = row[x][c] \/ more[x][c] = count[x][c]
    OBVIOUS
  <2> QED
    BY <1>1, <2>1, <2>2
<1>3. Summed(w, c) = {} /\ Summed(Tail(w), c) = {}
  <2>1. Remaining(w, c) = Entries
    BY DEF TableRest
  <2> QED
    BY <2>1, RemainingAfterRow DEF Summed
<1>4. Part(more, c, {}) = Part(row, c, {})
  BY DEF Part
<1> QED
  BY <1>1, <1>2, <1>3, <1>4

LEMMA SumStillBetween ==
    ASSUME NEW row \in [Entries -> [Columns -> Values]],
           NEW count \in [Entries -> [Columns -> Nat]],
           NEW total \in [Columns -> Values],
           NEW w \in Seq(AccessType), w # <<>>, w[1].do = "sum", TableRest(w),
           NEW e \in Entries, NEW d \in Columns, w[1].entry = e, w[1].column = d,
           Between(row, count, total, w)
    PROVE  Between(row, count, [total EXCEPT ![d] = @ + count[e][d]], Tail(w))
<1> DEFINE more == [total EXCEPT ![d] = @ + count[e][d]]
<1> SUFFICES ASSUME NEW c \in Columns
             PROVE  /\ \A x \in Entries : row[x][c] <= count[x][c]
                    /\ Sum(Part(row, c, Summed(Tail(w), c))) <= more[c]
                    /\ more[c] <= Sum(Part(count, c, Summed(Tail(w), c)))
  BY DEF Between
<1>1. /\ \A x \in Entries : row[x][c] <= count[x][c]
      /\ Sum(Part(row, c, Summed(w, c))) <= total[c]
      /\ total[c] <= Sum(Part(count, c, Summed(w, c)))
  BY DEF Between
<1>2. CASE c # d
  <2>1. Summed(Tail(w), c) = Summed(w, c)
    BY <1>2, RemainingAfterSum DEF Summed
  <2> QED
    BY <1>1, <1>2, <2>1
<1>3. CASE c = d
  <2>1. e \notin Summed(w, c) /\ Summed(Tail(w), c) = Summed(w, c) \cup {e}
    BY <1>3, RemainingAfterSum DEF Summed
  <2> DEFINE U == Summed(w, c)
             V == Summed(Tail(w), c)
  <2>2. ASSUME NEW f \in [Entries -> [Columns -> Values]]
        PROVE  /\ Sum(Part(f, c, V)) = Sum(Part(f, c, U)) + f[e][c]
               /\ Sum(Part(f, c, U)) \in Int /\ f[e][c] \in Int
    <3> DEFINE p == Part(f, c, U)
               q == Part(f, c, V)
    <3>1. p \in [Entries -> Int] /\ q \in [Entries -> Int] /\ f[e][c] \in Int
      <4>1. f[e][c] \in Values
        OBVIOUS
      <4>2. p \in [Entries -> Int] /\ q \in [Entries -> Int]
        BY PartType, Zenon
      <4> QED
        BY <4>1, <4>2 DEF Values, Unread
    <3>2. ASSUME NEW x \in Entries
          PROVE  q[x] = IF x = e THEN p[x] + f[e][c] ELSE p[x]
      <4>1. CASE x = e
        <5>1. p[x] = 0 /\ q[x] = f[e][c]
          BY <2>1, <4>1 DEF Part
        <5> QED
          BY <3>1, <4>1, <5>1
      <4>2. CASE x # e
        <5>1. x \in V <=> x \in U
          BY <2>1, <4>2
        <5> QED
          BY <4>2, <5>1 DEF Part
      <4> QED
        BY <4>1, <4>2
    <3>3. \A x \in Entries : p[x] <= p[x]
      BY <3>1
    <3> HIDE DEF p, q
    <3>4. Sum(q) = Sum(p) + f[e][c]
      BY <3>1, <3>2, SumWithMore
    <3>5. Sum(p) \in Int
      BY <3>1, <3>3, SumMonotone
    <3> QED
      BY <3>1, <3>4, <3>5 DEF p, q
  <2>3. /\ Sum(Part(row, c, V)) = Sum(Part(row, c, U)) + row[e][c]
        /\ Sum(Part(row, c, U)) \in Int /\ row[e][c] \in Int
    BY <2>2
  <2>4. /\ Sum(Part(count, c, V)) = Sum(Part(count, c, U)) + count[e][c]
        /\ Sum(Part(count, c, U)) \in Int /\ count[e][c] \in Int
    BY <2>2, CountersAreValues
  <2>5. total[c] \in Int /\ more[c] = total[c] + count[e][c]
    BY <1>3 DEF Values, Unread
  <2> HIDE DEF U, V, more
  <2>6. row[e][c] <= count[e][c]
    BY <1>1
  <2>7. Sum(Part(row, c, U)) <= total[c] /\ total[c] <= Sum(Part(count, c, U))
    BY <1>1 DEF U
  <2>8. Sum(Part(row, c, V)) <= more[c] /\ more[c] <= Sum(Part(count, c, V))
    BY <2>3, <2>4, <2>5, <2>6, <2>7
  <2> QED
    BY <1>1, <2>8 DEF V
<1> QED
  BY <1>2, <1>3

--------------------------------------------------------------------------------
(* The calls.                                                              *)

\* The sums of a column begin at offset n.
SumsAt(w, n, c) == \A j \in 1 .. Size : w[n + j] = Access("sum", j - 1, c, 0)

LEMMA SumsOfConcatenation ==
    ASSUME NEW u \in Seq(AccessType), NEW v \in Seq(AccessType), NEW n \in Nat, NEW c
    PROVE  /\ SumsAt(u, n, c) /\ n + Size <= Len(u) => SumsAt(u \o v, n, c)
           /\ SumsAt(v, n, c) /\ n + Size <= Len(v) => SumsAt(u \o v, Len(u) + n, c)
<1>1. Size \in Nat /\ Len(u) \in Nat /\ Len(v) \in Nat
  BY StatisticsAssumption
<1>2. ASSUME SumsAt(u, n, c), n + Size <= Len(u), NEW j \in 1 .. Size
      PROVE  (u \o v)[n + j] = Access("sum", j - 1, c, 0)
  <2>1. n + j \in 1 .. Len(u)
    BY <1>1, <1>2
  <2>2. (u \o v)[n + j] = u[n + j]
    BY <2>1, Concatenation
  <2> QED
    BY <1>2, <2>2 DEF SumsAt
<1>3. ASSUME SumsAt(v, n, c), n + Size <= Len(v), NEW j \in 1 .. Size
      PROVE  (u \o v)[(Len(u) + n) + j] = Access("sum", j - 1, c, 0)
  <2>1. n + j \in 1 .. Len(v) /\ (Len(u) + n) + j = Len(u) + (n + j)
    BY <1>1, <1>3
  <2>2. (u \o v)[Len(u) + (n + j)] = v[n + j]
    BY <2>1, Concatenation
  <2>3. v[n + j] = Access("sum", j - 1, c, 0)
    BY <1>3 DEF SumsAt
  <2> QED
    BY <2>1, <2>2, <2>3
<1> QED
  BY <1>2, <1>3 DEF SumsAt

LEMMA TotalsAccesses ==
    /\ table_totals \in Seq(AccessType) /\ Len(table_totals) = 4 * Size
    /\ SumsAt(table_totals, 0, "operation")
    /\ SumsAt(table_totals, Size, "byte")
    /\ SumsAt(table_totals, 2 * Size, "error")
    /\ SumsAt(table_totals, 3 * Size, "bypass")
<1> DEFINE a == aggregate_counters("operation")
           b == aggregate_counters("byte")
           c == aggregate_counters("error")
           d == aggregate_counters("bypass")
<1>0. Size \in Nat
  BY StatisticsAssumption
<1>1. ASSUME NEW x \in Columns
      PROVE  /\ aggregate_counters(x) \in Seq(AccessType) /\ Len(aggregate_counters(x)) = Size
             /\ SumsAt(aggregate_counters(x), 0, x)
  <2>1. /\ aggregate_counters(x) \in Seq(AccessType) /\ Len(aggregate_counters(x)) = Size
        /\ \A j \in 1 .. Size : aggregate_counters(x)[j] = Access("sum", j - 1, x, 0)
    BY SizePositive DEF aggregate_counters, AccessType, Access, Entries, Amounts
  <2>2. \A j \in 1 .. Size : 0 + j = j
    BY <1>0
  <2> QED
    BY <2>1, <2>2 DEF SumsAt
<1>2. /\ a \in Seq(AccessType) /\ Len(a) = Size /\ SumsAt(a, 0, "operation")
      /\ b \in Seq(AccessType) /\ Len(b) = Size /\ SumsAt(b, 0, "byte")
      /\ c \in Seq(AccessType) /\ Len(c) = Size /\ SumsAt(c, 0, "error")
      /\ d \in Seq(AccessType) /\ Len(d) = Size /\ SumsAt(d, 0, "bypass")
  BY <1>1 DEF Columns
<1>6. table_totals = ((a \o b) \o c) \o d
  BY DEF table_totals
<1> HIDE DEF a, b, c, d
<1> DEFINE ab == a \o b
           abc == ab \o c
<1>7. /\ ab \in Seq(AccessType) /\ Len(ab) = 2 * Size
      /\ SumsAt(ab, 0, "operation") /\ SumsAt(ab, Size, "byte")
  <2>1. ab \in Seq(AccessType) /\ Len(ab) = Size + Size
    BY <1>2
  <2>2. SumsAt(ab, 0, "operation") /\ SumsAt(ab, Size + 0, "byte")
    BY <1>0, <1>2, SumsOfConcatenation
  <2> QED
    BY <1>0, <2>1, <2>2
<1> HIDE DEF ab
<1>8. /\ abc \in Seq(AccessType) /\ Len(abc) = 3 * Size
      /\ SumsAt(abc, 0, "operation") /\ SumsAt(abc, Size, "byte")
      /\ SumsAt(abc, 2 * Size, "error")
  <2>1. abc \in Seq(AccessType) /\ Len(abc) = 2 * Size + Size
    <3>1. ab \in Seq(AccessType) /\ c \in Seq(AccessType)
      BY <1>2, <1>7
    <3>2. abc \in Seq(AccessType) /\ Len(abc) = Len(ab) + Len(c)
      BY <3>1, Concatenation, Zenon
    <3> QED
      BY <1>2, <1>7, <3>2, Zenon
  <2>2. /\ 0 \in Nat /\ Size \in Nat
        /\ 0 + Size <= 2 * Size /\ Size + Size <= 2 * Size /\ 0 + Size <= Size
    BY <1>0
  <2>3. SumsAt(abc, 0, "operation") /\ SumsAt(abc, Size, "byte")
          /\ SumsAt(abc, 2 * Size + 0, "error")
    BY <1>2, <1>7, <2>2, SumsOfConcatenation, Zenon
  <2> QED
    BY <1>0, <2>1, <2>3
<1> HIDE DEF abc
<1> DEFINE w == abc \o d
<1>9. /\ w \in Seq(AccessType) /\ Len(w) = 4 * Size
      /\ SumsAt(w, 0, "operation") /\ SumsAt(w, Size, "byte")
      /\ SumsAt(w, 2 * Size, "error") /\ SumsAt(w, 3 * Size, "bypass")
  <2>1. w \in Seq(AccessType) /\ Len(w) = 3 * Size + Size
    <3>1. abc \in Seq(AccessType) /\ d \in Seq(AccessType)
      BY <1>2, <1>8
    <3>2. w \in Seq(AccessType) /\ Len(w) = Len(abc) + Len(d)
      BY <3>1, Concatenation, Zenon
    <3> QED
      BY <1>2, <1>8, <3>2, Zenon
  <2>2. /\ 0 \in Nat /\ Size \in Nat /\ 2 * Size \in Nat
        /\ 0 + Size <= 3 * Size /\ Size + Size <= 3 * Size
        /\ 2 * Size + Size <= 3 * Size /\ 0 + Size <= Size
    BY <1>0
  <2>3. /\ SumsAt(w, 0, "operation") /\ SumsAt(w, Size, "byte")
        /\ SumsAt(w, 2 * Size, "error") /\ SumsAt(w, 3 * Size + 0, "bypass")
    BY <1>2, <1>8, <2>2, SumsOfConcatenation, Zenon
  <2> QED
    BY <1>0, <2>1, <2>3
<1> QED
  BY <1>6, <1>9 DEF ab, abc

\* The place of a total in table_totals.
Place(p, e, c) ==
    \/ c = "operation" /\ p = e + 1
    \/ c = "byte" /\ p = Size + (e + 1)
    \/ c = "error" /\ p = 2 * Size + (e + 1)
    \/ c = "bypass" /\ p = 3 * Size + (e + 1)

LEMMA TotalAtPlace ==
    ASSUME NEW p \in Nat, NEW e \in Entries, NEW c \in Columns, Place(p, e, c)
    PROVE  p \in 1 .. 4 * Size /\ table_totals[p] = Access("sum", e, c, 0)
<1> DEFINE j == e + 1
<1>1. /\ Size \in Nat /\ j \in 1 .. Size /\ j - 1 = e /\ 0 + j = j
  BY SizePositive DEF Entries
<1> HIDE DEF j
<1>2. /\ table_totals[0 + j] = Access("sum", j - 1, "operation", 0)
      /\ table_totals[Size + j] = Access("sum", j - 1, "byte", 0)
      /\ table_totals[2 * Size + j] = Access("sum", j - 1, "error", 0)
      /\ table_totals[3 * Size + j] = Access("sum", j - 1, "bypass", 0)
  BY <1>1, TotalsAccesses DEF SumsAt
<1>3. p \in 1 .. 4 * Size
  BY <1>1 DEF Place, j
<1>4. table_totals[p] = Access("sum", e, c, 0)
  BY <1>1, <1>2 DEF Place, j
<1> QED
  BY <1>3, <1>4

LEMMA PlacesAreAll ==
    ASSUME NEW p \in 1 .. 4 * Size
    PROVE  \E e \in Entries, c \in Columns : Place(p, e, c)
<1>1. Size \in Nat
  BY StatisticsAssumption
<1>2. CASE p <= Size
  <2>1. p - 1 \in Entries /\ "operation" \in Columns /\ p = (p - 1) + 1
    BY <1>1, <1>2 DEF Entries, Columns
  <2> QED
    BY <2>1 DEF Place
<1>3. CASE p \in Size + 1 .. 2 * Size
  <2>1. /\ p - Size - 1 \in Entries /\ "byte" \in Columns
        /\ p = Size + ((p - Size - 1) + 1)
    BY <1>1, <1>3 DEF Entries, Columns
  <2> QED
    BY <2>1 DEF Place
<1>4. CASE p \in 2 * Size + 1 .. 3 * Size
  <2>1. /\ p - 2 * Size - 1 \in Entries /\ "error" \in Columns
        /\ p = 2 * Size + ((p - 2 * Size - 1) + 1)
    BY <1>1, <1>4 DEF Entries, Columns
  <2> QED
    BY <2>1 DEF Place
<1>5. CASE p \in 3 * Size + 1 .. 4 * Size
  <2>1. /\ p - 3 * Size - 1 \in Entries /\ "bypass" \in Columns
        /\ p = 3 * Size + ((p - 3 * Size - 1) + 1)
    BY <1>1, <1>5 DEF Entries, Columns
  <2> QED
    BY <2>1 DEF Place
<1> QED
  BY <1>1, <1>2, <1>3, <1>4, <1>5

\* The table: rows first, then every total once.
LEMMA TabulateIsTable ==
    /\ TableRest(tabulate)
    /\ \A c \in Columns : Remaining(tabulate, c) = Entries
<1> DEFINE r == EachEntry(table_row)
           s == table_totals
           n == 4 * Size
<1>0. Size \in Nat \ {0} /\ n \in Nat \ {0}
  BY StatisticsAssumption
<1>1. /\ r \in Seq(AccessType) /\ Len(r) = n
      /\ \A i \in 1 .. n : r[i].do = "row"
  <2>1. ASSUME NEW i \in 1 .. n
        PROVE  (i - 1) \div 4 \in Entries /\ ((i - 1) % 4) + 1 \in 1 .. 4
    BY SizePositive DEF Entries
  <2>2. ASSUME NEW e \in Entries, NEW j \in 1 .. 4
        PROVE  table_row(e)[j] \in AccessType /\ table_row(e)[j].do = "row"
    BY AccessesTyped DEF table_row, Access
  <2> QED
    BY <1>0, <2>1, <2>2 DEF EachEntry
<1>2. s \in Seq(AccessType) /\ Len(s) = n
  BY TotalsAccesses
<1>3. tabulate = r \o s
  BY DEF tabulate
<1>4. ASSUME NEW p \in 1 .. n
      PROVE  \E e \in Entries, c \in Columns : Place(p, e, c) /\ s[p] = Access("sum", e, c, 0)
  BY <1>0, PlacesAreAll, TotalAtPlace
<1> DEFINE w == r \o s
<1> HIDE DEF r, s, n
<1>5. /\ Len(w) = n + n
      /\ \A i \in 1 .. n : w[i] = r[i]
      /\ \A j \in 1 .. n : w[n + j] = s[j]
  <2>1. r \in Seq(AccessType) /\ s \in Seq(AccessType) /\ Len(r) = n /\ Len(s) = n
    BY <1>1, <1>2
  <2>2. /\ Len(w) = Len(r) + Len(s)
        /\ \A i \in 1 .. Len(r) : w[i] = r[i]
        /\ \A j \in 1 .. Len(s) : w[Len(r) + j] = s[j]
    BY <2>1, Concatenation, Zenon
  <2> QED
    BY <2>1, <2>2
<1> HIDE DEF w
<1>6. ASSUME NEW i \in 1 .. Len(w), i > n
      PROVE  \E p \in 1 .. n, e \in Entries, c \in Columns :
                i = n + p /\ Place(p, e, c) /\ w[i] = Access("sum", e, c, 0)
  <2>1. i - n \in 1 .. n /\ i = n + (i - n)
    BY <1>0, <1>5, <1>6
  <2>2. PICK p \in 1 .. n : i = n + p
    BY <2>1
  <2> QED
    BY <1>4, <1>5, <2>2
<1>7. ASSUME NEW i \in 1 .. Len(w), ~(i > n) PROVE w[i].do = "row"
  <2>1. i \in 1 .. n
    BY <1>0, <1>5, <1>7
  <2> QED
    BY <1>1, <1>5, <2>1
<1>8. ASSUME NEW i \in 1 .. Len(w)
      PROVE  w[i].do \in {"row", "sum"} /\ (i > n <=> w[i].do = "sum")
  <2>1. CASE i > n
    <3>1. PICK e \in Entries, c \in Columns : w[i] = Access("sum", e, c, 0)
      BY <1>6, <2>1
    <3>2. w[i].do = "sum"
      BY <3>1 DEF Access
    <3> QED
      BY <2>1, <3>2
  <2>2. CASE ~(i > n)
    BY <1>7, <2>2
  <2> QED
    BY <2>1, <2>2
<1>9. ASSUME NEW i \in 1 .. Len(w), NEW j \in 1 .. Len(w), i < j, w[j].do = "row"
      PROVE  w[i].do = "row"
  <2>1. ~(j > n)
    BY <1>8, <1>9
  <2>2. ~(i > n)
    BY <1>0, <1>5, <1>9, <2>1
  <2> QED
    BY <1>7, <2>2
<1>10. ASSUME NEW i \in 1 .. Len(w), NEW e \in Entries, NEW c \in Columns, SumOf(w[i], e, c)
       PROVE  \E p \in 1 .. n : i = n + p /\ Place(p, e, c)
  <2>1. i > n
    BY <1>8, <1>10 DEF SumOf
  <2>2. PICK p \in 1 .. n, x \in Entries, y \in Columns :
            i = n + p /\ Place(p, x, y) /\ w[i] = Access("sum", x, y, 0)
    BY <1>6, <2>1
  <2>3. x = e /\ y = c
    BY <1>10, <2>2 DEF SumOf, Access
  <2> QED
    BY <2>2, <2>3
<1>11. ASSUME NEW i \in 1 .. Len(w), NEW j \in 1 .. Len(w), NEW e \in Entries,
              NEW c \in Columns, SumOf(w[i], e, c), SumOf(w[j], e, c)
       PROVE  i = j
  <2>1. PICK p \in 1 .. n : i = n + p /\ Place(p, e, c)
    BY <1>10, <1>11
  <2>2. PICK q \in 1 .. n : j = n + q /\ Place(q, e, c)
    BY <1>10, <1>11
  <2>3. p = q
    BY <2>1, <2>2 DEF Place
  <2> QED
    BY <2>1, <2>2, <2>3
<1>12. ASSUME NEW c \in Columns, NEW e \in Entries PROVE e \in Remaining(w, c)
  <2>1. PICK p \in Nat : Place(p, e, c)
    <3>1. e + 1 \in Nat /\ Size + (e + 1) \in Nat /\ 2 * Size + (e + 1) \in Nat
            /\ 3 * Size + (e + 1) \in Nat
      BY <1>0 DEF Entries
    <3> QED
      BY <3>1 DEF Place, Columns
  <2>2. p \in 1 .. n /\ s[p] = Access("sum", e, c, 0)
    BY <2>1, TotalAtPlace DEF n, s
  <2>3. w[n + p] = Access("sum", e, c, 0)
    BY <1>5, <2>2
  <2>4. n + p \in 1 .. Len(w) /\ SumOf(w[n + p], e, c)
    BY <1>0, <1>5, <2>2, <2>3 DEF SumOf, Access
  <2> QED
    BY <2>4 DEF Remaining
<1>13. \A c \in Columns : Remaining(w, c) = Entries
  BY <1>12 DEF Remaining
<1>14. TableRest(w)
  BY <1>8, <1>9, <1>11, <1>13 DEF TableRest
<1> QED
  BY <1>3, <1>13, <1>14 DEF w

--------------------------------------------------------------------------------
(* The steps.                                                              *)

LEMMA NoSumsTail ==
    ASSUME NEW w \in Seq(AccessType), w # <<>>, NoSums(w)
    PROVE  NoSums(Tail(w)) /\ w[1].do # "sum"
BY ElementOfTail DEF NoSums

LEMMA CopyHasNoSums ==
    ASSUME NEW e \in Entries, NEW o \in CopyOrders, NEW w \in Seq(AccessType), NoSums(w)
    PROVE  NoSums(StatisticEntry_copy(e, o) \o w)
<1> DEFINE u == StatisticEntry_copy(e, o)
<1>1. /\ u \in Seq(AccessType) /\ Len(u) = 4
      /\ \A i \in 1 .. 4 : u[i].do = "copy"
  BY CopyAccesses
<1> HIDE DEF u
<1> DEFINE v == u \o w
<1>2. /\ Len(v) = Len(u) + Len(w)
      /\ \A i \in 1 .. Len(u) : v[i] = u[i]
      /\ \A j \in 1 .. Len(w) : v[Len(u) + j] = w[j]
  BY <1>1, Concatenation, Zenon
<1>3. Len(w) \in Nat
  OBVIOUS
<1> HIDE DEF v
<1>4. ASSUME NEW i \in 1 .. Len(v) PROVE v[i].do # "sum"
  <2>1. CASE i <= 4
    BY <1>1, <1>2, <2>1
  <2>2. CASE i > 4
    <3>1. i - 4 \in 1 .. Len(w) /\ i = Len(u) + (i - 4)
      BY <1>1, <1>2, <1>3, <2>2
    <3>2. v[i] = w[i - 4]
      BY <1>2, <3>1
    <3> QED
      BY <3>1, <3>2 DEF NoSums
  <2> QED
    BY <2>1, <2>2
<1> QED
  BY <1>4 DEF NoSums, u, v

LEMMA CallsWithoutSums ==
    /\ NoSums(to_string)
    /\ \A e \in Entries :
         /\ \A b \in Bytes : NoSums(update_statistic_entry(e, 1, b))
         /\ NoSums(update_statistic_entry_error(e, 1, 0, 1))
         /\ NoSums(update_bypassed_statistic_entry(e, 1))
         /\ \A o \in CopyOrders : NoSums(get_statistic_entry(e, o))
<1>1. NoSums(to_string)
  <2>1. ASSUME NEW i \in 1 .. 4 * Size
        PROVE  (i - 1) \div 4 \in Entries /\ ((i - 1) % 4) + 1 \in 1 .. 4
    BY SizePositive DEF Entries
  <2>2. ASSUME NEW e \in Entries, NEW j \in 1 .. 4 PROVE probe_entry(e)[j].do # "sum"
    BY DEF probe_entry, Access
  <2>3. Len(to_string) = 4 * Size
    BY SizePositive DEF to_string, EachEntry
  <2> QED
    BY <2>1, <2>2, <2>3 DEF NoSums, to_string, EachEntry
<1>2. ASSUME NEW e \in Entries, NEW o \in CopyOrders PROVE NoSums(get_statistic_entry(e, o))
  BY CopiedEntry DEF NoSums
<1>3. ASSUME NEW e \in Entries, NEW b \in Bytes PROVE NoSums(update_statistic_entry(e, 1, b))
  BY DEF NoSums, update_statistic_entry, Increment, Access
<1>4. ASSUME NEW e \in Entries
      PROVE  /\ NoSums(update_statistic_entry_error(e, 1, 0, 1))
             /\ NoSums(update_bypassed_statistic_entry(e, 1))
  BY DEF NoSums, update_statistic_entry_error, update_bypassed_statistic_entry, Increment, Access
<1> QED
  BY <1>1, <1>2, <1>3, <1>4

LEMMA TotalsTypes ==
    ASSUME TypeOK, NEW t \in Threads
    PROVE  /\ work[t] \in Seq(AccessType)
           /\ rows[t] \in [Entries -> [Columns -> Values]]
           /\ totals[t] \in [Columns -> Values]
           /\ counters \in [Entries -> [Columns -> Nat]]
BY DEF TypeOK, Values

\* The table that begins shows nothing and has added nothing.
LEMMA NewTableBetween ==
    ASSUME NEW count \in [Entries -> [Columns -> Nat]]
    PROVE  Between(NoRow, count, [c \in Columns |-> 0], tabulate)
<1> SUFFICES ASSUME NEW c \in Columns
             PROVE  /\ \A e \in Entries : NoRow[e][c] <= count[e][c]
                    /\ Sum(Part(NoRow, c, Summed(tabulate, c))) <= 0
                    /\ 0 <= Sum(Part(count, c, Summed(tabulate, c)))
  BY DEF Between
<1>1. \A e \in Entries : NoRow[e][c] <= count[e][c]
  BY DEF NoRow, Unread
<1>2. Summed(tabulate, c) = {}
  BY TabulateIsTable DEF Summed
<1>3. ASSUME NEW f PROVE Sum(Part(f, c, {})) = 0
  <2> DEFINE p == Part(f, c, {})
  <2>1. p \in [Entries -> Int] /\ \A e \in Entries : p[e] = 0
    BY DEF Part
  <2> HIDE DEF p
  <2>2. Sum(p) = 0
    BY <2>1, SumOfZeros
  <2> QED
    BY <2>2 DEF p
<1> QED
  BY <1>1, <1>2, <1>3

LEMMA OthersKeepTotals ==
    ASSUME StatisticsInv, TotalsInv, NEW t \in Threads, Begin(t) \/ Continue(t),
           NEW u \in Threads, u # t
    PROVE  NoTotals(u)' \/ TableTotals(u)'
<1>1. work'[u] = work[u] /\ rows'[u] = rows[u] /\ totals'[u] = totals[u]
  BY OthersKeepTheirCalls DEF StatisticsInv
<1>2. CASE NoTotals(u)
  BY <1>1, <1>2 DEF NoTotals
<1>3. CASE TableTotals(u)
  <2>1. /\ rows[u] \in [Entries -> [Columns -> Values]]
        /\ totals[u] \in [Columns -> Values]
        /\ counters \in [Entries -> [Columns -> Nat]]
    BY TotalsTypes DEF StatisticsInv
  <2>2. counters' \in [Entries -> [Columns -> Nat]]
    BY BeginTyped, ContinueTyped DEF StatisticsInv, TypeOK
  <2>3. \A e \in Entries, c \in Columns : counters[e][c] <= counters'[e][c]
    BY CountersGrow
  <2>4. ASSUME NEW more \in [Entries -> [Columns -> Nat]], more = counters'
        PROVE  Between(rows[u], more, totals[u], work[u])
    <3>1. /\ \A e \in Entries, c \in Columns : counters[e][c] <= more[e][c]
          /\ Between(rows[u], counters, totals[u], work[u])
      BY <1>3, <2>3, <2>4 DEF TableTotals
    <3> QED
      BY <2>1, <3>1, GrownStillBetween, Zenon
  <2> QED
    BY <1>1, <1>3, <2>2, <2>4 DEF TableTotals
<1> QED
  BY <1>2, <1>3 DEF TotalsInv

LEMMA BeginTotals ==
    ASSUME StatisticsInv, TotalsInv, NEW t \in Threads, Begin(t)
    PROVE  NoTotals(t)' \/ TableTotals(t)'
<1>1. CASE Update(t)
  <2>1. totals' = totals /\ t \in Updaters
    BY <1>1 DEF Update
  <2>2. \A c \in Columns : totals[t][c] = Unread
    <3>1. t \notin Tabulators
      BY <2>1, StatisticsAssumption
    <3> QED
      BY <3>1 DEF TotalsInv, NoTotals, TableTotals
  <2>3. PICK e \in Entries :
          \/ \E b \in Bytes : Call(t, update_statistic_entry(position(e), 1, b))
          \/ Call(t, update_statistic_entry_error(position(e), 1, 0, 1))
          \/ Call(t, update_bypassed_statistic_entry(position(e), 1))
    BY <1>1 DEF Update
  <2>4. ASSUME NEW w, NoSums(w), Call(t, w) PROVE NoSums(work'[t])
    BY <2>4 DEF Call, StatisticsInv, TypeOK
  <2>5. NoSums(work'[t])
    BY <2>3, <2>4, PositionIsEntry, CallsWithoutSums
  <2> QED
    BY <2>1, <2>2, <2>5 DEF NoTotals
<1>2. ASSUME NEW w, NoSums(w), NEW d, Report(t, w, Unread, d)
      PROVE  NoTotals(t)'
  BY <1>2 DEF Report, Call, NoTotals, StatisticsInv, TypeOK
<1>3. CASE CallGetEntry(t)
  <2>1. PICK e \in Entries, o \in CopyOrders :
            Report(t, get_statistic_entry(position(e), o), Unread, {})
    BY <1>3 DEF CallGetEntry
  <2>2. NoSums(get_statistic_entry(position(e), o))
    BY PositionIsEntry, CallsWithoutSums
  <2> QED
    BY <1>2, <2>1, <2>2
<1>4. CASE CallToString(t)
  BY <1>2, <1>4, CallsWithoutSums DEF CallToString
<1>5. CASE CallTabulate(t)
  <2>1. /\ work'[t] = tabulate /\ rows'[t] = NoRow /\ counters' = counters
        /\ totals'[t] = [c \in Columns |-> 0] /\ t \in Tabulators
    BY <1>5 DEF CallTabulate, Report, Call, StatisticsInv, TypeOK
  <2>2. TableRest(tabulate)
    BY TabulateIsTable
  <2>3. Between(NoRow, counters, [c \in Columns |-> 0], tabulate)
    BY TotalsTypes, NewTableBetween DEF StatisticsInv
  <2>4. \A c \in Columns : totals'[t][c] # Unread
    BY <2>1 DEF Unread
  <2> QED
    BY <2>1, <2>2, <2>3, <2>4 DEF TableTotals
<1> QED
  BY <1>1, <1>3, <1>4, <1>5 DEF Begin

LEMMA LeaveTotals ==
    ASSUME StatisticsInv, NEW t \in Threads, Leave(t), TableTotals(t)
    PROVE  TableTotals(t)'
<1> DEFINE w == work[t]
           a == Head(w)
           e == a.entry
           d == a.column
<1>1. /\ w \in Seq(AccessType) /\ w # <<>> /\ a = w[1]
      /\ rows[t] \in [Entries -> [Columns -> Values]]
      /\ totals[t] \in [Columns -> Values]
      /\ counters \in [Entries -> [Columns -> Nat]]
  BY TotalsTypes DEF StatisticsInv, Leave, Pending
<1>2. /\ TableRest(w) /\ Between(rows[t], counters, totals[t], w)
      /\ t \in Tabulators /\ \A c \in Columns : totals[t][c] # Unread
  BY DEF TableTotals
<1>3. 1 \in 1 .. Len(w)
  BY <1>1, ElementOfTail
<1>4. a.do \in {"row", "sum"}
  BY <1>1, <1>2, <1>3 DEF TableRest
<1>5. e \in Entries /\ d \in Columns
  BY <1>1, <1>4, NextAccess, AccessFields DEF StatisticsInv
<1>6. loaded[t] = counters[e][d] /\ counters' = counters /\ work'[t] = Tail(w)
  BY <1>4 DEF Leave, StatisticsInv, LoadedIsCurrent, Inside, Advance, Done, TypeOK
<1>7. TableRest(Tail(w))
  BY <1>1, <1>2, TailOfTable
<1>8. CASE a.do = "row"
  <2>1. rows'[t] = [rows[t] EXCEPT ![e][d] = counters[e][d]] /\ totals'[t] = totals[t]
    BY <1>6, <1>8 DEF Leave, StatisticsInv, TypeOK
  <2>2. Between([rows[t] EXCEPT ![e][d] = counters[e][d]], counters, totals[t], Tail(w))
    BY <1>1, <1>2, <1>5, <1>8, RowStillBetween
  <2> QED
    BY <1>2, <1>6, <1>7, <2>1, <2>2 DEF TableTotals
<1>9. CASE a.do = "sum"
  <2>1. rows'[t] = rows[t] /\ totals'[t] = [totals[t] EXCEPT ![d] = @ + counters[e][d]]
    BY <1>6, <1>9 DEF Leave, StatisticsInv, TypeOK
  <2>2. Between(rows[t], counters, [totals[t] EXCEPT ![d] = @ + counters[e][d]], Tail(w))
    BY <1>1, <1>2, <1>5, <1>9, SumStillBetween
  <2>3. ASSUME NEW c \in Columns PROVE totals'[t][c] # Unread
    <3>1. totals[t][c] \in Nat /\ counters[e][d] \in Nat
      BY <1>1, <1>2, <1>5 DEF Values
    <3> QED
      BY <1>1, <2>1, <3>1 DEF Unread
  <2> QED
    BY <1>2, <1>6, <1>7, <2>1, <2>2, <2>3 DEF TableTotals
<1> QED
  BY <1>4, <1>8, <1>9

LEMMA ContinueTotals ==
    ASSUME StatisticsInv, TotalsInv, NEW t \in Threads, Continue(t)
    PROVE  NoTotals(t)' \/ TableTotals(t)'
<1> DEFINE w == work[t]
           a == Head(w)
<1>1. w # <<>> /\ w \in Seq(AccessType) /\ a = w[1] /\ 1 \in 1 .. Len(w)
  <2>1. w # <<>>
    BY DEF Continue, Enter, Leave, Copy, Keep, LockStatistics, UnlockStatistics, Pending
  <2> QED
    BY <2>1, TotalsTypes, ElementOfTail DEF StatisticsInv
<1>2. CASE Enter(t)
  <2>1. work' = work /\ rows' = rows /\ totals' = totals /\ counters' = counters
    BY <1>2 DEF Enter
  <2> QED
    BY <2>1 DEF TotalsInv, NoTotals, TableTotals
<1>3. CASE ~Enter(t) /\ NoTotals(t)
  <2>1. NoSums(Tail(w)) /\ a.do # "sum"
    BY <1>1, <1>3, NoSumsTail DEF NoTotals
  <2>2. totals'[t] = totals[t]
    BY <1>3, <2>1 DEF Continue, Leave, Copy, Keep, LockStatistics, UnlockStatistics
  <2>3. NoSums(work'[t])
    <3>1. CASE Keep(t)
      <4>1. a.entry \in Entries
        BY <1>1, <3>1, NextAccess, AccessFields DEF StatisticsInv, Keep, Pending
      <4>2. Tail(w) \in Seq(AccessType)
        BY <1>1
      <4>3. CASE work'[t] = Tail(w)
        BY <2>1, <4>3
      <4>4. CASE work'[t] # Tail(w)
        <5>1. PICK o \in CopyOrders : work'[t] = StatisticEntry_copy(a.entry, o) \o Tail(w)
          BY <3>1, <4>4 DEF Keep, Done, StatisticsInv, TypeOK
        <5> QED
          BY <2>1, <4>1, <4>2, <5>1, CopyHasNoSums
      <4> QED
        BY <4>3, <4>4
    <3>2. CASE ~Keep(t)
      <4>1. work'[t] = Tail(w)
        BY <1>3, <3>2 DEF Continue, Leave, Copy, LockStatistics, UnlockStatistics, Advance,
            Done, StatisticsInv, TypeOK
      <4> QED
        BY <2>1, <4>1
    <3> QED
      BY <3>1, <3>2
  <2> QED
    BY <1>3, <2>2, <2>3 DEF NoTotals
<1>4. CASE ~Enter(t) /\ TableTotals(t)
  <2>1. a.do \in {"row", "sum"}
    BY <1>1, <1>4 DEF TableTotals, TableRest
  <2>2. Leave(t)
    BY <1>4, <2>1 DEF Continue, Copy, Keep, LockStatistics, UnlockStatistics, Pending
  <2> QED
    BY <1>4, <2>2, LeaveTotals
<1> QED
  BY <1>2, <1>3, <1>4 DEF TotalsInv

LEMMA NextTotals == StatisticsInv /\ TotalsInv /\ [Next]_vars => TotalsInv'
<1> SUFFICES ASSUME StatisticsInv, TotalsInv, [Next]_vars PROVE TotalsInv'
  OBVIOUS
<1>1. CASE UNCHANGED vars
  BY <1>1 DEF vars, TotalsInv, NoTotals, TableTotals
<1>2. ASSUME NEW t \in Threads, Begin(t) \/ Continue(t) PROVE TotalsInv'
  <2>1. ASSUME NEW u \in Threads PROVE NoTotals(u)' \/ TableTotals(u)'
    BY <1>2, OthersKeepTotals, BeginTotals, ContinueTotals
  <2> QED
    BY <2>1 DEF TotalsInv
<1> QED
  BY <1>1, <1>2 DEF Next

\* A table printed while handlers run, for any number of entries and threads: every
\* total is between the sum of the rows above it and what has been counted by now.
THEOREM TotalsCoverRowsCorrect == Spec => []TotalsCoverRows
<1>1. Init => TotalsInv
  BY DEF Init, TotalsInv, NoTotals, NoSums
<1>2. StatisticsInv /\ TotalsInv => TotalsCoverRows
  <2> SUFFICES ASSUME StatisticsInv, TotalsInv, NEW t \in Threads, NEW c \in Columns,
                      work[t] = <<>>, totals[t][c] # Unread
               PROVE  /\ Sum([e \in Entries |-> rows[t][e][c]]) <= totals[t][c]
                      /\ totals[t][c] <= Sum([e \in Entries |-> counters[e][c]])
    BY DEF TotalsCoverRows
  <2>1. Between(rows[t], counters, totals[t], work[t])
    BY DEF TotalsInv, NoTotals, TableTotals
  <2>2. Summed(work[t], c) = Entries
    BY DEF Summed, Remaining
  <2>3. /\ Part(rows[t], c, Entries) = [e \in Entries |-> rows[t][e][c]]
        /\ Part(counters, c, Entries) = [e \in Entries |-> counters[e][c]]
    BY DEF Part
  <2>4. /\ Sum(Part(rows[t], c, Summed(work[t], c))) <= totals[t][c]
        /\ totals[t][c] <= Sum(Part(counters, c, Summed(work[t], c)))
    BY <2>1 DEF Between
  <2> QED
    BY <2>2, <2>3, <2>4
<1>3. Spec => []TotalsInv
  BY <1>1, NextTotals, StatisticsInvCorrect, PTL DEF Spec
<1> QED
  BY <1>2, <1>3, StatisticsInvCorrect, PTL

================================================================================
