---------------------------- MODULE MCThrottledFiles ---------------------------
(***************************************************************************)
(* The refinement on the small instances of MCLdPreloadedPosix.            *)
(***************************************************************************)
EXTENDS ThrottledFilesRefinement, MCLdPreloadedPosix

\* Calls on descriptors and on paths, closing, duplicating, sync.
PromiseHandlers ==
    DescriptorHandlers \cup {StatfsHandlers.statfs, SyncHandler.sync}

================================================================================
