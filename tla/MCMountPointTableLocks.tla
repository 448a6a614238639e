------------------------- MODULE MCMountPointTableLocks ------------------------
(***************************************************************************)
(* Small instances of MountPointTableLocks for TLC.                        *)
(***************************************************************************)
EXTENDS MountPointTableLocks

CONSTANTS t1, t2, t3, e1, e2, e3, fp

\* One writer and two readers, one of which also removes.
Roles == [t \in Threads |->
            CASE t = t1 -> {"create", "replace"}
              [] t = t2 -> {"get", "print_fds"}
              [] t = t3 -> {"remove", "print_fds"}]

================================================================================
