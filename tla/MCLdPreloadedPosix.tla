--------------------------- MODULE MCLdPreloadedPosix --------------------------
(***************************************************************************)
(* Small instances of LdPreloadedPosix for TLC: one reserved descriptor    *)
(* and two ordinary ones, one path on the remote mount point and one       *)
(* elsewhere, two workflows.                                               *)
(***************************************************************************)
EXTENDS LdPreloadedPosixInv, TLC

CONSTANTS t1, t2, t3, e1, e2, e3, e4, e5, fp, stdout, remote, elsewhere

\* Opening, using, duplicating and closing descriptors.
DescriptorHandlers ==
    {ReadWriteHandlers.read, OpenHandlers.open, CloseHandler.close, FcntlHandler.fcntl_dupfd}

StreamHandlers == {FopenHandlers.fopen, FcloseHandler.fclose}

\* Everything that creates or removes an entry, and sync: all of one class, whose
\* counters they share.
RemovalHandlers ==
    {OpenHandlers.open, CloseHandler.close, FopenHandlers.fopen, FcloseHandler.fclose,
     SyncHandler.sync}

\* What a process does with descriptors when no open is handled.
OpenlessHandlers == {ReadWriteHandlers.read, CloseHandler.close}

ThreadSymmetry == Permutations(Threads)
Symmetry == Permutations(Threads) \cup Permutations(EntryIds)

================================================================================
