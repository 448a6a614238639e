------------------------ MODULE ThrottledFilesRefinement -----------------------
(***************************************************************************)
(* LdPreloadedPosix implements ThrottledFiles, with lazy removal and an    *)
(* application that respects the ownership of its descriptors.             *)
(***************************************************************************)
EXTENDS LdPreloadedPosix

ASSUME RefinementAssumption == Disciplined /\ ~HardRemove

\* A handle is vouched for while the application holds it and PADLL tracks it.
MountBehind(k) == IF k \in held /\ Tracked(k) THEN file[k] ELSE Foreign

SubjectOf(t) ==
    LET c == call[t]
    IN  CASE pc[t] = "idle" -> <<"none", Foreign>>
          [] pc[t] # "idle" /\ c.h.pick = "path" -> <<"path", c.mp>>
          [] pc[t] # "idle" /\ ((c.h.pick = "fd" /\ c.h.libc = "io") \/ c.h.libc = "dup")
                -> <<"handle", c.key>>
          [] OTHER -> <<"none", Foreign>>

\* Picking a workflow is part of deciding, the table and the statistics are part
\* of returning; sync claims to be enforced and is not.
PhaseOf(t) ==
    CASE pc[t] = "idle"               -> "idle"
      [] pc[t] \in {"use", "enforce"} -> "deciding"
      [] pc[t] = "libc"               -> IF call[t].enforced /\ call[t].h.libc # "sync"
                                         THEN "admitted" ELSE "bypassed"
      [] pc[t] \in {"table", "stats"} -> "executed"

Promise == INSTANCE ThrottledFiles WITH
    Mounts    <- MountPoints,
    Throttled <- {mp \in MountPoints : pick_workflow_id(mp) # {InvalidWorkflow}},
    Unknown   <- Foreign,
    mount     <- [k \in Keys |-> MountBehind(k)],
    phase     <- [t \in Threads |-> PhaseOf(t)],
    subject   <- [t \in Threads |-> SubjectOf(t)]

\* The handlers keep the promise of ThrottledFiles: every step of a thread is a
\* step of the promise or invisible to the application.
ImplementsThrottledFiles == Promise!Spec

================================================================================
