----------------------------- MODULE AtomicCounters ----------------------------
(***************************************************************************)
(* What Statistics promises its callers: every counter is an atomic        *)
(* register.  An increment adds to the value the counter has in that       *)
(* instant, so none is lost; a reading a report shows is the value of the  *)
(* counter in one instant of the report.  Nothing is promised of two       *)
(* readings together.                                                      *)
(***************************************************************************)
EXTENDS Integers

CONSTANTS
    Threads,
    Size,       \* m_stats_size: how many entries a Statistics object has
    Amounts,    \* what one increment may add
    Unread      \* no reading yet

Columns == {"operation", "byte", "error", "bypass"}
Entries == 0 .. Size - 1

VARIABLES
    counters,   \* the counters of each entry
    rows,       \* the readings of the report each thread makes: one per counter
    totals      \* and its sums over the entries, one per column

vars == <<counters, rows, totals>>

NoRow == [e \in Entries |-> [c \in Columns |-> Unread]]

Init ==
    /\ counters = [e \in Entries |-> [c \in Columns |-> 0]]
    /\ rows = [t \in Threads |-> NoRow]
    /\ totals = [t \in Threads |-> [c \in Columns |-> Unread]]

Increment(e, c, n) ==
    /\ counters' = [counters EXCEPT ![e][c] = @ + n]
    /\ UNCHANGED <<rows, totals>>

\* A report starts, with or without totals.
Start(t, sum) ==
    /\ rows' = [rows EXCEPT ![t] = NoRow]
    /\ totals' = [totals EXCEPT ![t] = [c \in Columns |-> sum]]
    /\ UNCHANGED counters

Read(t, e, c) ==
    /\ rows' = [rows EXCEPT ![t][e][c] = counters[e][c]]
    /\ UNCHANGED <<counters, totals>>

AddToTotal(t, e, c) ==
    /\ totals' = [totals EXCEPT ![t][c] = @ + counters[e][c]]
    /\ UNCHANGED <<counters, rows>>

Next ==
    \/ \E e \in Entries, c \in Columns, n \in Amounts : Increment(e, c, n)
    \/ \E t \in Threads, sum \in {0, Unread} : Start(t, sum)
    \/ \E t \in Threads, e \in Entries, c \in Columns : Read(t, e, c) \/ AddToTotal(t, e, c)

Spec == Init /\ [][Next]_vars

================================================================================
