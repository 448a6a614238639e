--------------------------- MODULE StatisticsSnapshots -------------------------
(***************************************************************************)
(* Copies of entries against the states those entries were in.  Statistics *)
(* with a history of the counters: past[t] holds every value they had      *)
(* since thread t began its latest call.  Kept apart from Statistics since *)
(* the history multiplies its states.                                      *)
(***************************************************************************)
EXTENDS Statistics

VARIABLE past

Remember ==
    past' = [t \in Threads |->
                IF calls'[t] = calls[t] THEN past[t] \cup {counters'} ELSE {counters'}]

SnapshotsSpec ==
    /\ Init /\ past = [t \in Threads |-> {counters}]
    /\ [][Next /\ Remember]_<<vars, past>>

\* What statistics.hpp:74 says of get_statistic_entry ("This method is thread-safe")
\* and statistic_entry.hpp:18-19 of every entry ("All read and writes over existing
\* counters are thread-safe"): the copy a call returns or prints is one state its
\* entry was in during that call.  The copy constructor takes no mutex and the code
\* does not do it.
CopiesAreSnapshots ==
    \A t \in Printers, e \in Entries :
        /\ work[t] = <<>>
        /\ \A c \in Columns : totals[t][c] = Unread
        /\ rows[t][e]["operation"] # Unread
        => \E state \in past[t] : rows[t][e] = state[e]

================================================================================
