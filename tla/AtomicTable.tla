------------------------------- MODULE AtomicTable -----------------------------
(***************************************************************************)
(* What the locks of MountPointTable promise: each operation on the two    *)
(* tables is the one step that the operators of MountPointTable (and so    *)
(* the handlers of LdPreloadedPosix) take it to be, and a printed table is *)
(* what the table was in one instant.                                      *)
(***************************************************************************)
EXTENDS MountPointTable

CONSTANT Threads

VARIABLES
    answer,     \* the pointer a thread's get_mount_point_entry returns
    report      \* the entries a thread's fd_table_to_string prints

vars == <<table, heap, answer, report>>

Init ==
    /\ TableInit
    /\ answer = [t \in Threads |-> NoEntry]
    /\ report = [t \in Threads |-> {}]

Create(k, mp) == create_mount_point_entry(k, mp) /\ UNCHANGED <<answer, report>>

Remove(k) == remove_mount_point_entry(k) /\ UNCHANGED <<answer, report>>

Replace(old, new) == replace_file_descriptor(old, new) /\ UNCHANGED <<answer, report>>

Get(t, k) ==
    /\ answer' = [answer EXCEPT ![t] = get_mount_point_entry(k)]
    /\ UNCHANGED <<table, heap, report>>

\* The registered descriptors with their mount points.
Snapshot == {<<k, heap[table[k]]>> : k \in {j \in Fds : table[j] # NoEntry}}

Print_fd_table(t) ==
    /\ report' = [report EXCEPT ![t] = Snapshot]
    /\ UNCHANGED <<table, heap, answer>>

Return(t) ==
    /\ answer' = [answer EXCEPT ![t] = NoEntry]
    /\ report' = [report EXCEPT ![t] = {}]
    /\ UNCHANGED <<table, heap>>

Next ==
    \/ \E k \in Keys, mp \in MountPoints : Create(k, mp)
    \/ \E k \in Keys : Remove(k)
    \/ \E j, k \in Fds : Replace(j, k)
    \/ \E t \in Threads :
        \/ \E k \in Keys : Get(t, k)
        \/ Print_fd_table(t)
        \/ Return(t)

Spec == Init /\ [][Next]_vars

================================================================================
