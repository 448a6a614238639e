-------------------------- MODULE LdPreloadedPosixInv --------------------------
(***************************************************************************)
(* The inductive invariants behind the properties of LdPreloadedPosix.     *)
(* IInv: who owns a handle at each moment of its life, from the libc call  *)
(* that allocates it to the one that releases it, and what each handler in *)
(* progress may therefore rely on.  ClosedInv: which entries outlive their *)
(* handle, and why.  CountsInv: what the counters still lack of the calls. *)
(***************************************************************************)
EXTENDS LdPreloadedPosix

\* The handler got a handle from libc and has not returned it yet.
Made(t) ==
    pc[t] \in {"table", "stats"} /\ call[t].h.libc \in Allocates /\ call[t].res \in Keys

\* The handler was given a handle to close, and libc has not closed it yet.
Closing(t) == pc[t] \in {"use", "enforce", "libc"} /\ call[t].h.libc \in Closers

\* The handler works on a handle of the application.
Using(t) == pc[t] # "idle" /\ call[t].h.libc \notin Closers /\ call[t].key # -1

\* The handles of the process: each is with the application, with the one
\* handler that made it, with the one that closes it, or closed.
HandleOwnership ==
    /\ held \subseteq open
    /\ \A t \in Threads : Made(t) => call[t].res \in open \ held
    /\ \A t \in Threads : Closing(t) => call[t].key \in open \ held
    /\ \A t \in Threads : Using(t) => call[t].key \in held \cap Fds
    /\ \A t, u \in Threads : t # u /\ Made(t) /\ Made(u) => call[t].res # call[u].res
    /\ \A t, u \in Threads : t # u /\ Closing(t) /\ Closing(u) => call[t].key # call[u].key
    /\ \A t, u \in Threads : Made(t) /\ Closing(u) => call[t].res # call[u].key

\* The handlers a disciplined application calls only with a descriptor it keeps.
OnDescriptor(h) == (h.pick = "fd" /\ h.libc = "io") \/ h.libc = "dup"

\* What a step may rely on about its own call.
StepOK ==
    /\ \A t \in Threads : pc[t] = "table" => call[t].h.libc \notin {"io", "sync", "socket"}
    /\ \A t \in Threads : call[t].h.libc = "fclose" => call[t].key \in FilePtrs
    /\ \A t \in Threads : call[t].h.libc = "close" => call[t].key \in Fds
    /\ \A t \in Threads : pc[t] # "idle" => call[t].h \in Handlers
    /\ \A t \in Threads : pc[t] # "idle" /\ OnDescriptor(call[t].h) => call[t].key # -1

KnownWorkflows == UNION {registered_workflows(mp) : mp \in MountPoints}

\* What has been picked when a request is enforced: a registered workflow, or none,
\* whatever the entry pointer led to; of a path, one of its own mount point.
PicksOK ==
    \A t \in Threads :
        LET c == call[t]
        IN  /\ pc[t] = "use" => c.h.pick \in {"fd", "stream", "minus_one"}
            /\ pc[t] = "enforce" =>
                /\ c.h.pick # "none" /\ c.wf \in KnownWorkflows \cup {InvalidWorkflow}
                /\ c.h.pick = "path" => c.wf \in pick_workflow_id(c.mp)
            /\ pc[t] = "libc" /\ c.enforced /\ c.h.libc # "sync" => c.wf \in KnownWorkflows

\* Nothing is known about handles that are not open.
ClosedUnknown ==
    /\ shared \subseteq open
    /\ \A k \in Keys \ open : file[k] = Foreign

Registered(k) == Tracked(k) => RegisteredAs(k, file[k])

\* A handle on its way to the application will be registered when it gets there.
MadeRegistered ==
    \A t \in Threads : Made(t) =>
        LET c == call[t]
        IN  /\ c.h.libc = "open" => c.res \in Fds /\ file[c.res] = c.mp
            /\ c.h.libc = "fopen" => c.res \in FilePtrs
            /\ c.h.libc = "socket" => file[c.res] = Foreign
            /\ c.h.libc = "dup" => c.res \in shared /\ c.key \in shared
            /\ pc[t] = "stats" => Registered(c.res)

\* An operation on a tracked descriptor.
TrackedCall(t) ==
    call[t].h.pick = "fd" /\ call[t].h.libc = "io" /\ Tracked(call[t].key)

\* The pick looks at the entry of the descriptor; what it yields is one of the
\* workflows of the file's mount point.
PickFollowsFile ==
    \A t \in Threads : TrackedCall(t) =>
        LET c == call[t]
        IN  /\ pc[t] = "use" => c.ptr = table[c.key]
            /\ pc[t] = "enforce" => c.wf \in pick_workflow_id(file[c.key])

\* The handles of the process, the calls in progress and the tables agree: with
\* lazy removal and a disciplined application, no interleaving of the handlers
\* leaves a held descriptor unregistered or a call decided by another file.
IInv ==
    /\ TypeOK
    /\ EntryOwnership
    /\ HandleOwnership
    /\ StepOK
    /\ PicksOK
    /\ ClosedUnknown
    /\ HeldFilesRegistered
    /\ MadeRegistered
    /\ PickFollowsFile
    /\ DecisionFollowsFile

\* The handler closed this handle and has not removed its entry yet.
Removing(t, k) ==
    /\ pc[t] = "table" /\ call[t].key = k
    /\ call[t].h.libc = "fclose" \/ (call[t].h.libc = "close" /\ HardRemove)

\* An entry is there because its handle is open, because a handler is about to
\* remove it, or because closing leaves it behind.
EntriesJustified ==
    /\ \A k \in Keys : ~IsValidKey(k) => table[k] = NoEntry
    /\ \A k \in Keys \ open :
        (k \in FilePtrs \/ HardRemove) /\ table[k] # NoEntry => \E t \in Threads : Removing(t, k)

\* The inductive invariant behind ClosedHandlesForgotten, for both kinds of removal.
ClosedInv == TypeOK /\ HandleOwnership /\ StepOK /\ EntriesJustified

\* Equal as counters.
Congruent(a, b) == (a - b) % CounterModulus = 0

\* The handlers of a class that have made their libc call and not counted it yet.
OwedExecuted(c) == {t \in Threads : pc[t] \in {"table", "stats"} /\ call[t].h.class = c}

OwedFailed(c) == {t \in OwedExecuted(c) : call[t].enforced /\ Failed(call[t].res)}

\* Those that will count an operation: enforced requests, and syncs that happened.
OwedOperations(c) ==
    {t \in Threads : /\ call[t].h.class = c /\ call[t].enforced
                     /\ \/ pc[t] \in {"table", "stats"}
                        \/ pc[t] = "libc" /\ call[t].h.libc # "sync"}

\* What the counters of a class say is what happened, less what is still owed.
CountOK(c) ==
    LET s == stats[c]
        l == ledger[c]
    IN  /\ Congruent(s.operations + Cardinality(OwedOperations(c)), l.submitted + l.synced)
        /\ Congruent(s.operations + s.bypassed + Cardinality(OwedExecuted(c)), l.executed)
        /\ Congruent(s.errors + Cardinality(OwedFailed(c)), l.failed)

\* sync is never submitted, and claims to be enforced.
SyncsClaim ==
    \A t \in Threads : call[t].h.libc = "sync" =>
        pc[t] \notin {"use", "enforce"} /\ (pc[t] = "libc" => call[t].enforced)

Busy == {t \in Threads : pc[t] # "idle"}

\* The inductive invariant behind CallsCountedOnce.
CountsInv ==
    /\ TypeOK
    /\ IsFiniteSet(Busy)
    /\ SyncsClaim
    /\ Collect => \A c \in Classes : CountOK(c)

================================================================================
