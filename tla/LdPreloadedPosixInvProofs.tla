------------------------ MODULE LdPreloadedPosixInvProofs ----------------------
(***************************************************************************)
(* The invariants of LdPreloadedPosixInv are inductive, for any number of  *)
(* threads, descriptors, streams, paths and workflows.  IInv when the      *)
(* application respects the ownership of its descriptors and               *)
(* option_hard_remove is off (the default); ClosedInv for both settings,   *)
(* when it does and closes are seen; PicksOK and CountsInv in any case.    *)
(***************************************************************************)
EXTENDS LdPreloadedPosixProofs, FiniteSetTheorems

\* What a step of one thread leaves alone: the locals of the others.
LEMMA OthersKeepCalls ==
    ASSUME TypeOK, NEW t \in Threads, Begin(t) \/ Continue(t)
    PROVE  \A u \in Threads : u # t => pc'[u] = pc[u] /\ call'[u] = call[u]
<1>1. CASE Begin(t)
  BY <1>1 DEF Begin, CallOnPath, CallOnKey, CallUnpicked, Start, TypeOK
<1>2. CASE Continue(t)
  BY <1>2 DEF Continue, UseEntry, enforce_request, LibcIo, LibcAllocate, LibcAllocateFails,
     LibcClose, Executed, UpdateTable, update_statistics, TypeOK
<1> QED
  BY <1>1, <1>2

\* The numbers libc returns for a failure are no handles.
LEMMA FailuresAreNoKeys == -1 \notin Keys /\ 0 \notin FilePtrs /\ NullPtr \notin Keys
BY TableAssumption DEF Keys

--------------------------------------------------------------------------------
(* What each step does to the locals of its own thread and to the handles. *)

LEMMA BeginEffect ==
    ASSUME TypeOK, Disciplined, NEW t \in Threads, Begin(t)
    PROVE  /\ pc[t] = "idle" /\ call'[t].h \in Handlers
           /\ UNCHANGED <<table, heap, open, file, shared>>
           /\ OnDescriptor(call'[t].h) => call'[t].key # -1
           /\ \/ /\ pc'[t] = "enforce" /\ call'[t].h.pick = "path"
                 /\ call'[t].key = -1 /\ held' = held
              \/ /\ pc'[t] = "use" /\ call'[t].h.pick \in {"fd", "stream", "minus_one"}
                 /\ call'[t].h.libc \in Closers \cup {"io"}
                 /\ call'[t].ptr = get_mount_point_entry(call'[t].key)
                 /\ call'[t].h.libc \in Closers =>
                        call'[t].key \in held /\ held' = held \ {call'[t].key}
                 /\ call'[t].h.libc = "close" =>
                        ~InUse(call'[t].key) /\ call'[t].key \in Fds
                 /\ call'[t].h.libc = "fclose" => call'[t].key \in FilePtrs
                 /\ call'[t].h.libc = "io" =>
                        call'[t].key \in {-1} \cup (held \cap Fds) /\ held' = held
              \/ /\ pc'[t] = "libc" /\ call'[t].h.pick = "none"
                 /\ call'[t].key \in {-1} \cup (held \cap Fds) /\ held' = held
<1>1. PICK h \in Handlers : \/ \E p \in Paths : CallOnPath(t, h, p)
                            \/ \E k \in Handles : CallOnKey(t, h, k)
                            \/ \E k \in Handles : CallUnpicked(t, h, k)
  BY DEF Begin
<1>h. /\ h.libc \in LibcKinds
      /\ h.libc = "close" => h.pick = "fd"
      /\ h.libc \in {"open", "fopen"} <=> h.pick = "path" /\ h.libc # "io"
      /\ h.libc = "fclose" <=> h.pick = "stream"
      /\ h.libc \in {"socket", "dup", "sync"} => h.pick = "none"
  BY HandlersAssumption
<1>k. ASSUME OnDescriptor(h), NEW k, h.pick = "fd" \/ h.libc = "dup" => k \in held \cap Fds
      PROVE  k # -1
  BY <1>k, TableAssumption DEF OnDescriptor
<1>p. OnDescriptor(h) => h.pick # "path"
  BY <1>h DEF OnDescriptor
<1>s. ASSUME NEW step, NEW c, Start(t, step, c)
      PROVE  pc[t] = "idle" /\ pc'[t] = step /\ call'[t] = c
  BY <1>s DEF Start, TypeOK
<1>2. CASE \E p \in Paths : CallOnPath(t, h, p)
  <2>1. PICK p \in Paths : CallOnPath(t, h, p)
    BY <1>2
  <2>2. PICK wf : Start(t, "enforce", Call(h, -1, extract_mount_point(p), NoEntry, wf, FALSE))
    BY <2>1 DEF CallOnPath
  <2>3. /\ pc[t] = "idle" /\ pc'[t] = "enforce"
        /\ call'[t].h = h /\ call'[t].key = -1
    BY <2>2, <1>s DEF Call
  <2> QED
    BY <2>1, <2>3, <1>p DEF CallOnPath, tableVars, osVars
<1>3. CASE \E k \in Handles : CallOnKey(t, h, k)
  <2>1. PICK k \in Handles : CallOnKey(t, h, k)
    BY <1>3
  <2>2. /\ pc[t] = "idle" /\ pc'[t] = "use"
        /\ call'[t].h = h /\ call'[t].key = k /\ call'[t].ptr = get_mount_point_entry(k)
    BY <2>1, <1>s DEF CallOnKey, Call
  <2>3. /\ h.pick \in {"fd", "stream", "minus_one"} /\ k \in Arguments(h)
        /\ held' = IF h.libc \in Closers THEN held \ {k} ELSE held
        /\ UNCHANGED <<table, heap, open, file, shared>>
    BY <2>1 DEF CallOnKey, tableVars
  <2>4. h.libc \in Closers \cup {"io"}
    BY <1>h, <2>3 DEF LibcKinds, Closers
  <2>5. h.pick = "fd" => k \in held \cap Fds
    BY <2>3 DEF Arguments
  <2>6. h.pick = "fd" \/ h.libc = "dup" => k \in held \cap Fds
    BY <2>4, <2>5 DEF Closers
  <2>7. OnDescriptor(call'[t].h) => call'[t].key # -1
    BY <1>k, <2>2, <2>6
  <2>8. CASE h.pick = "stream"
    BY <2>2, <2>3, <2>4, <2>7, <2>8, <1>h DEF Arguments, Closers
  <2>9. CASE h.pick = "minus_one"
    BY <2>2, <2>3, <2>4, <2>7, <2>9, <1>h DEF Arguments, Closers
  <2>10. CASE h.pick = "fd"
    <3>1. k \in held \cap Fds /\ (h.libc = "close" => ~InUse(k))
      BY <2>3, <2>10 DEF Arguments
    <3> QED
      BY <2>2, <2>3, <2>4, <2>7, <2>10, <3>1, <1>h DEF Closers
  <2> QED
    BY <2>3, <2>8, <2>9, <2>10
<1>4. CASE \E k \in Handles : CallUnpicked(t, h, k)
  <2>1. PICK k \in Handles : CallUnpicked(t, h, k)
    BY <1>4
  <2>2. /\ pc[t] = "idle" /\ pc'[t] = "libc" /\ call'[t].h = h /\ call'[t].key = k
    BY <2>1, <1>s DEF CallUnpicked, Call
  <2>3. k \in {-1} \cup (held \cap Fds)
    BY <2>1 DEF CallUnpicked, Arguments
  <2>4. h.pick = "fd" \/ h.libc = "dup" => k \in held \cap Fds
    BY <2>1, HandlersAssumption DEF CallUnpicked, Arguments
  <2>5. OnDescriptor(call'[t].h) => call'[t].key # -1
    BY <1>k, <2>2, <2>4
  <2> QED
    BY <2>1, <2>2, <2>3, <2>5 DEF CallUnpicked, tableVars, osVars
<1> QED
  BY <1>1, <1>2, <1>3, <1>4

\* The locals a step keeps.
SameCall(t) ==
    /\ call'[t].h = call[t].h
    /\ call'[t].key = call[t].key
    /\ call'[t].mp = call[t].mp

LEMMA UseEffect ==
    ASSUME TypeOK, NEW t \in Threads, UseEntry(t)
    PROVE  /\ pc[t] = "use" /\ pc'[t] = "enforce" /\ SameCall(t)
           /\ \E picked \in WorkflowsOfEntry(call[t].ptr) :
                    call'[t].wf \in close_fallback(call[t].h, picked)
           /\ UNCHANGED <<table, heap, open, held, file, shared>>
<1>0. PICK picked \in WorkflowsOfEntry(call[t].ptr) :
            \E wf \in close_fallback(call[t].h, picked) :
                call' = [call EXCEPT ![t].wf = wf, ![t].ptr = NoEntry]
  BY DEF UseEntry
<1>1. PICK wf \in close_fallback(call[t].h, picked) :
            call' = [call EXCEPT ![t].wf = wf, ![t].ptr = NoEntry]
  BY <1>0
<1>2. call[t] \in CallType
  BY DEF TypeOK
<1>3. call'[t] = [call[t] EXCEPT !.wf = wf, !.ptr = NoEntry]
  BY <1>1 DEF TypeOK
<1>4. SameCall(t) /\ call'[t].wf = wf
  BY <1>2, <1>3 DEF CallType, SameCall
<1>5. pc[t] = "use" /\ pc'[t] = "enforce"
  BY DEF UseEntry, TypeOK
<1> QED
  BY <1>1, <1>4, <1>5 DEF UseEntry, tableVars, osVars

LEMMA EnforceEffect ==
    ASSUME TypeOK, NEW t \in Threads, enforce_request(t)
    PROVE  /\ pc[t] = "enforce" /\ pc'[t] = "libc" /\ SameCall(t)
           /\ call'[t].enforced = (call[t].wf # InvalidWorkflow)
           /\ UNCHANGED <<table, heap, open, held, file, shared>>
<1>1. call[t] \in CallType
  BY DEF TypeOK
<1>2. call'[t] = [call[t] EXCEPT !.enforced = (call[t].wf # InvalidWorkflow)]
  BY DEF enforce_request, TypeOK
<1>3. SameCall(t) /\ call'[t].enforced = (call[t].wf # InvalidWorkflow)
  BY <1>1, <1>2 DEF CallType, SameCall
<1> QED
  BY <1>3 DEF enforce_request, tableVars, osVars, TypeOK

LEMMA ExecutedEffect ==
    ASSUME TypeOK, NEW t \in Threads, NEW res, Executed(t, res)
    PROVE  /\ pc[t] = "libc" /\ SameCall(t) /\ call'[t].res = res
           /\ pc'[t] = IF call[t].h.libc \in {"io", "sync", "socket"}
                       THEN "stats" ELSE "table"
           /\ UNCHANGED <<table, heap>>
<1>1. call[t] \in CallType
  BY DEF TypeOK
<1>2. call'[t] = [call[t] EXCEPT !.res = res, !.wf = InvalidWorkflow]
  BY DEF Executed, TypeOK
<1>3. SameCall(t) /\ call'[t].res = res
  BY <1>1, <1>2 DEF CallType, SameCall
<1> QED
  BY <1>3 DEF Executed, TypeOK, tableVars

LEMMA TableEffect ==
    ASSUME TypeOK, NEW t \in Threads, UpdateTable(t)
    PROVE  /\ pc[t] = "table" /\ pc'[t] = "stats" /\ call' = call
           /\ UNCHANGED <<open, held, file, shared>>
BY DEF UpdateTable, TypeOK, osVars

LEMMA StatisticsEffect ==
    ASSUME TypeOK, NEW t \in Threads, update_statistics(t)
    PROVE  /\ pc[t] = "stats" /\ pc'[t] = "idle" /\ call'[t] = NoCall
           /\ held' = IF Made(t) THEN held \cup {call[t].res} ELSE held
           /\ UNCHANGED <<table, heap, open, file, shared>>
BY DEF update_statistics, TypeOK, Made, tableVars

--------------------------------------------------------------------------------
(* What each handler may rely on about its own call.                       *)

LEMMA StepInit == Init => StepOK
BY DEF Init, StepOK, NoCall, Call, Handler

LEMMA StepBegin ==
    ASSUME TypeOK, StepOK, Disciplined, NEW t \in Threads, Begin(t)
    PROVE  StepOK'
<1>1. /\ call'[t].h.libc = "fclose" => call'[t].h.pick = "stream"
      /\ call'[t].h.libc = "close" => call'[t].h.pick = "fd"
  BY BeginEffect, HandlersAssumption
<1> QED
  BY <1>1, BeginEffect, OthersKeepCalls DEF StepOK

LEMMA StepContinue ==
    ASSUME TypeOK, StepOK, NEW t \in Threads, Continue(t)
    PROVE  StepOK'
<1>1. CASE update_statistics(t)
  BY <1>1, StatisticsEffect, OthersKeepCalls DEF StepOK, NoCall, Call, Handler
<1>2. ASSUME pc[t] # "idle", SameCall(t), pc'[t] # "use",
             pc'[t] = "table" => call[t].h.libc \notin {"io", "sync", "socket"}
      PROVE  StepOK'
  BY <1>2, OthersKeepCalls DEF StepOK, SameCall
<1>3. CASE UseEntry(t)
  BY <1>2, <1>3, UseEffect
<1>4. CASE enforce_request(t)
  BY <1>2, <1>4, EnforceEffect
<1>5. CASE LibcIo(t) \/ LibcAllocate(t) \/ LibcAllocateFails(t) \/ LibcClose(t)
  <2>1. PICK res : Executed(t, res)
    BY <1>5 DEF LibcIo, LibcAllocate, LibcAllocateFails, LibcClose
  <2> QED
    BY <2>1, <1>2, ExecutedEffect
<1>6. CASE UpdateTable(t)
  BY <1>2, <1>6, TableEffect DEF SameCall
<1> QED
  BY <1>1, <1>3, <1>4, <1>5, <1>6 DEF Continue

LEMMA StepStep ==
    ASSUME TypeOK, StepOK, Disciplined, [Next]_vars
    PROVE  StepOK'
<1>1. CASE UNCHANGED vars
  BY <1>1 DEF vars, StepOK
<1>2. CASE \E k \in Keys : UnhandledOpen(k) \/ UnhandledClose(k)
  BY <1>2 DEF UnhandledOpen, UnhandledClose, callVars, StepOK
<1> QED
  BY <1>1, <1>2, StepBegin, StepContinue DEF Next

--------------------------------------------------------------------------------
(* The ownership of the handles.                                           *)

LEMMA HandleInit == Init => HandleOwnership
BY DEF Init, HandleOwnership, Made, Closing, Using

\* Nothing happens to the ownership when no handler gets or takes over a handle.
LEMMA HandleQuiet ==
    ASSUME HandleOwnership, UNCHANGED <<open, held>>,
           \A u \in Threads :
                /\ Made(u)' => Made(u) /\ call'[u].res = call[u].res
                /\ Closing(u)' => Closing(u) /\ call'[u].key = call[u].key
                /\ Using(u)' => Using(u) /\ call'[u].key = call[u].key
    PROVE  HandleOwnership'
BY DEF HandleOwnership

\* The handlers of the other threads are where they were.
LEMMA OthersKeepHandles ==
    ASSUME TypeOK, NEW t \in Threads, Begin(t) \/ Continue(t)
    PROVE  \A u \in Threads \ {t} :
                /\ call'[u] = call[u] /\ pc'[u] = pc[u]
                /\ Made(u)' <=> Made(u)
                /\ Closing(u)' <=> Closing(u)
                /\ Using(u)' <=> Using(u)
BY OthersKeepCalls DEF Made, Closing, Using

LEMMA HandleBegin ==
    ASSUME TypeOK, HandleOwnership, Disciplined, NEW t \in Threads, Begin(t)
    PROVE  HandleOwnership'
<1>1. ~Made(t)'
  BY BeginEffect DEF Made
<1>2. UNCHANGED open
  BY BeginEffect
<1>3. CASE call'[t].h.libc \notin Closers
  <2>1. held' = held /\ call'[t].key \in {-1} \cup (held \cap Fds)
    BY <1>3, BeginEffect
  <2>2. ~Closing(t)' /\ (Using(t)' => call'[t].key \in held \cap Fds)
    BY <1>3, <2>1 DEF Closing, Using
  <2> QED
    BY <1>1, <1>2, <2>1, <2>2, OthersKeepHandles DEF HandleOwnership
<1>4. CASE call'[t].h.libc \in Closers
  <2>1. call'[t].h.pick \in {"fd", "stream"}
    BY <1>4, BeginEffect, HandlersAssumption DEF Closers
  <2>2. /\ call'[t].key \in held /\ held' = held \ {call'[t].key}
        /\ call'[t].h.libc = "close" => ~InUse(call'[t].key)
        /\ call'[t].h.libc = "fclose" => call'[t].key \in FilePtrs
    BY <1>4, <2>1, BeginEffect
  <2>3. \A u \in Threads \ {t} : Using(u) => call[u].key # call'[t].key
    <3>1. CASE call'[t].h.libc = "close"
      BY <2>2, <3>1 DEF InUse, Using
    <3>2. CASE call'[t].h.libc = "fclose"
      BY <2>2, <3>2, TableAssumption DEF HandleOwnership
    <3> QED
      BY <1>4, <3>1, <3>2 DEF Closers
  <2>4. ~Using(t)'
    BY <1>4 DEF Using
  <2> QED
    BY <1>1, <1>2, <2>2, <2>3, <2>4, OthersKeepHandles DEF HandleOwnership
<1> QED
  BY <1>3, <1>4

LEMMA HandleContinue ==
    ASSUME TypeOK, HandleOwnership, StepOK, NEW t \in Threads, Continue(t)
    PROVE  HandleOwnership'
<1>c. pc[t] # "idle" => call[t].h \in Handlers
  BY DEF StepOK
<1>1. CASE UseEntry(t) \/ enforce_request(t)
  <2>1. /\ pc[t] \in {"use", "enforce"} /\ pc'[t] \in {"enforce", "libc"} /\ SameCall(t)
        /\ UNCHANGED <<open, held>>
    BY <1>1, UseEffect, EnforceEffect
  <2>2. /\ ~Made(t)'
        /\ Closing(t)' => Closing(t)
        /\ Using(t)' => Using(t)
        /\ call'[t].key = call[t].key
    BY <2>1 DEF Made, Closing, Using, SameCall
  <2> QED
    BY <2>1, <2>2, HandleQuiet, OthersKeepHandles
<1>2. ASSUME NEW res, Executed(t, res)
      PROVE  /\ Made(t)' <=> call[t].h.libc \in Allocates /\ res \in Keys
             /\ call'[t].res = res /\ call'[t].key = call[t].key
             /\ ~Closing(t)'
             /\ Using(t)' <=> Using(t)
             /\ Closing(t) <=> call[t].h.libc \in Closers
  BY <1>2, ExecutedEffect DEF Made, Closing, Using, SameCall
<1>3. CASE LibcIo(t)
  <2>1. PICK res : Executed(t, res)
    BY <1>3 DEF LibcIo
  <2>2. ~Made(t)' /\ UNCHANGED <<open, held>>
    BY <1>2, <1>3, <2>1 DEF LibcIo, Allocates, osVars
  <2> QED
    BY <1>2, <2>1, <2>2, HandleQuiet, OthersKeepHandles
<1>4. CASE LibcAllocateFails(t)
  <2>1. PICK res \in {-1, NullPtr} : Executed(t, res)
    BY <1>4 DEF LibcAllocateFails
  <2>2. ~Made(t)' /\ UNCHANGED <<open, held>>
    BY <1>2, <1>4, <2>1, FailuresAreNoKeys DEF LibcAllocateFails, osVars
  <2> QED
    BY <1>2, <2>1, <2>2, HandleQuiet, OthersKeepHandles
<1>5. CASE LibcAllocate(t)
  <2>1. PICK k \in FreeHandles(call[t].h.libc) :
            Executed(t, k) /\ open' = open \cup {k} /\ UNCHANGED held
    BY <1>5 DEF LibcAllocate
  <2>2. k \in Keys /\ k \notin open
    BY <2>1 DEF FreeHandles, Keys
  <2>3. Made(t)' /\ call'[t].res = k /\ ~Closing(t)' /\ (Using(t)' <=> Using(t))
        /\ call'[t].key = call[t].key
    BY <1>2, <1>5, <2>1, <2>2 DEF LibcAllocate
  <2> QED
    BY <2>1, <2>2, <2>3, OthersKeepHandles DEF HandleOwnership
<1>6. CASE LibcClose(t)
  <2>1. PICK res \in {0, -1} : Executed(t, res)
    BY <1>6 DEF LibcClose
  <2>2. open' = open \ {call[t].key} /\ UNCHANGED held /\ call[t].h.libc \in Closers
    BY <1>6 DEF LibcClose
  <2>3. ~Made(t)' /\ Closing(t) /\ ~Closing(t)' /\ ~Using(t)'
    BY <1>2, <2>1, <2>2 DEF Allocates, Closers, Using
  <2> QED
    BY <2>2, <2>3, OthersKeepHandles DEF HandleOwnership
<1>7. CASE UpdateTable(t)
  <2>1. /\ pc[t] = "table" /\ pc'[t] = "stats" /\ call' = call
        /\ UNCHANGED <<open, held>>
    BY <1>7, TableEffect
  <2>2. (Made(t)' => Made(t)) /\ ~Closing(t)' /\ (Using(t)' => Using(t))
    BY <2>1 DEF Made, Closing, Using
  <2> QED
    BY <2>1, <2>2, HandleQuiet, OthersKeepHandles
<1>8. CASE update_statistics(t)
  <2>1. /\ pc[t] = "stats" /\ pc'[t] = "idle"
        /\ held' = IF Made(t) THEN held \cup {call[t].res} ELSE held
        /\ UNCHANGED open
    BY <1>8, StatisticsEffect
  <2>2. ~Made(t)' /\ ~Closing(t)' /\ ~Using(t)'
    BY <2>1 DEF Made, Closing, Using
  <2> QED
    BY <2>1, <2>2, OthersKeepHandles DEF HandleOwnership
<1> QED
  BY <1>1, <1>3, <1>4, <1>5, <1>6, <1>7, <1>8 DEF Continue

LEMMA HandleUnhandled ==
    ASSUME TypeOK, HandleOwnership, NEW k \in Keys, UnhandledOpen(k) \/ UnhandledClose(k)
    PROVE  HandleOwnership'
<1>1. /\ UNCHANGED <<pc, call>>
      /\ \A u \in Threads : /\ Made(u)' <=> Made(u)
                            /\ Closing(u)' <=> Closing(u)
                            /\ Using(u)' <=> Using(u)
  BY DEF UnhandledOpen, UnhandledClose, callVars, Made, Closing, Using
<1>2. CASE UnhandledOpen(k)
  BY <1>1, <1>2 DEF UnhandledOpen, HandleOwnership
<1>3. CASE UnhandledClose(k)
  <2>1. \A u \in Threads : Using(u) => call[u].key # k
    BY <1>3 DEF UnhandledClose, InUse, Using
  <2> QED
    BY <1>1, <1>3, <2>1 DEF UnhandledClose, HandleOwnership
<1> QED
  BY <1>2, <1>3

LEMMA HandleStep ==
    ASSUME TypeOK, HandleOwnership, StepOK, Disciplined, [Next]_vars
    PROVE  HandleOwnership'
<1>1. CASE UNCHANGED vars
  BY <1>1 DEF vars, HandleOwnership, Made, Closing, Using
<1> QED
  BY <1>1, HandleBegin, HandleContinue, HandleUnhandled DEF Next

--------------------------------------------------------------------------------
(* Closed handles.                                                         *)

LEMMA ClosedInit == Init => ClosedUnknown
BY DEF Init, ClosedUnknown

LEMMA ClosedStep ==
    ASSUME TypeOK, HandleOwnership, ClosedUnknown, Disciplined, [Next]_vars
    PROVE  ClosedUnknown'
<1>1. ASSUME UNCHANGED <<open, file, shared>> PROVE ClosedUnknown'
  BY <1>1 DEF ClosedUnknown
<1>2. ASSUME NEW t \in Threads, LibcAllocate(t) PROVE ClosedUnknown'
  <2>1. /\ open \subseteq open' /\ shared' \subseteq open'
        /\ \A k \in Keys \ open' : file'[k] = file[k]
    BY <1>2 DEF LibcAllocate, ClosedUnknown, TypeOK
  <2> QED
    BY <2>1 DEF ClosedUnknown
<1>3. ASSUME NEW t \in Threads, LibcClose(t) PROVE ClosedUnknown'
  BY <1>3 DEF LibcClose, ClosedUnknown
<1>4. ASSUME NEW t \in Threads, Continue(t), ~LibcAllocate(t), ~LibcClose(t)
      PROVE  ClosedUnknown'
  BY <1>1, <1>4 DEF Continue, UseEntry, enforce_request, LibcIo, LibcAllocateFails,
     UpdateTable, update_statistics, osVars
<1>5. ASSUME NEW t \in Threads, Begin(t) PROVE ClosedUnknown'
  BY <1>1, <1>5, BeginEffect
<1>6. ASSUME NEW k \in Keys, UnhandledOpen(k) \/ UnhandledClose(k) PROVE ClosedUnknown'
  BY <1>6 DEF UnhandledOpen, UnhandledClose, ClosedUnknown, TypeOK
<1>7. CASE UNCHANGED vars
  BY <1>1, <1>7 DEF vars
<1> QED
  BY <1>2, <1>3, <1>4, <1>5, <1>6, <1>7 DEF Next

--------------------------------------------------------------------------------
(* The table operations keep the entries of all other keys.                *)

\* The entry of k, and what it says, is what it was.
SameEntry(k) ==
    /\ table'[k] = table[k]
    /\ table[k] # NoEntry => heap'[table[k]] = heap[table[k]]

LEMMA CreateKeeps ==
    ASSUME TableTypeOK, EntryOwnership, NEW k \in Results, NEW mp,
           create_mount_point_entry(k, mp), NEW j \in Keys, j # k
    PROVE  SameEntry(j)
<1>1. CASE ~IsValidKey(k)
  BY <1>1 DEF create_mount_point_entry, tableVars, SameEntry
<1>2. CASE IsValidKey(k)
  <2>1. k \in Keys
    BY <1>2, ValidKeysAreKeys
  <2>2. PICK e \in FreeEntries :
            /\ table' = [table EXCEPT ![k] = e]
            /\ heap' = [Destroy(heap, table[k]) EXCEPT ![e] = mp]
    BY <1>2 DEF create_mount_point_entry
  <2>3. table'[j] = table[j]
    BY <2>2
  <2>4. ASSUME table[j] # NoEntry PROVE heap'[table[j]] = heap[table[j]]
    <3>1. table[j] \in EntryIds /\ table[j] # e /\ table[j] # table[k]
      BY <2>1, <2>2, <2>4 DEF TableTypeOK, EntryOwnership, FreeEntries
    <3> QED
      BY <2>2, <3>1 DEF Destroy
  <2> QED
    BY <2>3, <2>4 DEF SameEntry
<1> QED
  BY <1>1, <1>2

LEMMA CreateRegisters ==
    ASSUME TableTypeOK, NEW k \in Results, NEW mp,
           create_mount_point_entry(k, mp), IsValidKey(k)
    PROVE  RegisteredAs(k, mp)'
<1>1. k \in Keys
  BY ValidKeysAreKeys
<1>2. PICK e \in FreeEntries :
          /\ table' = [table EXCEPT ![k] = e]
          /\ heap' = [Destroy(heap, table[k]) EXCEPT ![e] = mp]
  BY DEF create_mount_point_entry
<1>3. e \in EntryIds /\ e # NoEntry
  BY TableAssumption DEF FreeEntries
<1>4. table'[k] = e /\ heap'[e] = mp
  BY <1>1, <1>2, <1>3 DEF TableTypeOK, Destroy
<1> QED
  BY <1>3, <1>4 DEF RegisteredAs

LEMMA RemoveKeeps ==
    ASSUME TableTypeOK, EntryOwnership, NEW k \in Results, remove_mount_point_entry(k),
           NEW j \in Keys, j # k
    PROVE  SameEntry(j)
<1>1. CASE ~IsValidKey(k)
  BY <1>1 DEF remove_mount_point_entry, tableVars, SameEntry
<1>2. CASE IsValidKey(k)
  <2>1. k \in Keys
    BY <1>2, ValidKeysAreKeys
  <2>2. table'[j] = table[j]
    BY <1>2 DEF remove_mount_point_entry, TableTypeOK
  <2>3. ASSUME table[j] # NoEntry PROVE heap'[table[j]] = heap[table[j]]
    BY <1>2, <2>1, <2>3 DEF remove_mount_point_entry, Destroy, TableTypeOK, EntryOwnership
  <2> QED
    BY <2>2, <2>3 DEF SameEntry
<1> QED
  BY <1>1, <1>2

LEMMA ReplaceKeeps ==
    ASSUME TableTypeOK, EntryOwnership, NEW old \in Results, NEW new \in Results,
           replace_file_descriptor(old, new), NEW j \in Keys, j # old, j # new
    PROVE  SameEntry(j)
<1>1. CASE UNCHANGED tableVars
  BY <1>1 DEF tableVars, SameEntry
<1>2. CASE ~UNCHANGED tableVars
  <2>1. old \in Keys /\ new \in Keys /\ table[old] # NoEntry
    BY <1>2, ValidKeysAreKeys DEF replace_file_descriptor
  <2>2. table'[j] = table[j]
    BY <1>2 DEF replace_file_descriptor, TableTypeOK
  <2>3. ASSUME table[j] # NoEntry PROVE heap'[table[j]] = heap[table[j]]
    <3>1. heap' = heap \/ heap' = Destroy(heap, table[old])
      BY <1>2 DEF replace_file_descriptor
    <3> QED
      BY <2>1, <2>3, <3>1 DEF Destroy, TableTypeOK, EntryOwnership
  <2> QED
    BY <2>2, <2>3 DEF SameEntry
<1> QED
  BY <1>1, <1>2

--------------------------------------------------------------------------------
(* What a step does to the registration of a handle that stays open.       *)

\* A handle that stays open stays on its file, and a duplicate stays one.
LEMMA OpenHandlesKeepFile ==
    ASSUME TypeOK, Disciplined, [Next]_vars, NEW k \in open, k \in open'
    PROVE  file'[k] = file[k] /\ (k \in shared => k \in shared')
<1>1. ASSUME NEW t \in Threads, LibcAllocate(t)
      PROVE  file'[k] = file[k] /\ (k \in shared => k \in shared')
  <2> DEFINE new == CASE call[t].h.libc \in {"open", "fopen"} -> call[t].mp
                      [] call[t].h.libc = "socket" -> Foreign
                      [] OTHER -> file[call[t].key]
  <2>1. PICK n \in FreeHandles(call[t].h.libc) :
            /\ file' = [file EXCEPT ![n] = new]
            /\ shared' = IF call[t].h.libc = "dup" THEN shared \cup {n, call[t].key} ELSE shared
    BY <1>1 DEF LibcAllocate
  <2> HIDE DEF new
  <2>2. n # k /\ k \in Keys
    BY <2>1 DEF FreeHandles, TypeOK
  <2>3. DOMAIN file = Keys
    BY DEF TypeOK
  <2>4. file'[k] = file[k]
    BY <2>1, <2>2, <2>3
  <2>5. k \in shared => k \in shared'
    BY <2>1
  <2> QED
    BY <2>4, <2>5
<1>2. ASSUME NEW t \in Threads, LibcClose(t)
      PROVE  file'[k] = file[k] /\ (k \in shared => k \in shared')
  BY <1>2 DEF LibcClose, TypeOK
<1>3. ASSUME NEW t \in Threads, Continue(t), ~LibcAllocate(t), ~LibcClose(t)
      PROVE  UNCHANGED <<file, shared>>
  BY <1>3 DEF Continue, UseEntry, enforce_request, LibcIo, LibcAllocateFails,
     UpdateTable, update_statistics, osVars
<1>4. ASSUME NEW t \in Threads, Begin(t) PROVE UNCHANGED <<file, shared>>
  BY <1>4, BeginEffect
<1>5. ASSUME NEW j \in Keys, UnhandledOpen(j) \/ UnhandledClose(j)
      PROVE  file'[k] = file[k] /\ (k \in shared => k \in shared')
  BY <1>5 DEF UnhandledOpen, UnhandledClose, TypeOK
<1>6. CASE UNCHANGED vars
  BY <1>6 DEF vars
<1> QED
  BY <1>1, <1>2, <1>3, <1>4, <1>5, <1>6 DEF Next

\* UpdateTable changes no entry of a tracked descriptor, except the one it made.
LEMMA UpdateKeepsTracked ==
    ASSUME TypeOK, EntryOwnership, StepOK, MadeRegistered, ~HardRemove,
           NEW t \in Threads, UpdateTable(t),
           NEW k \in Keys, Tracked(k), Made(t) => call[t].res # k
    PROVE  SameEntry(k)
<1>1. TableTypeOK /\ call[t].key \in Results /\ call[t].res \in Results
  BY DEF TypeOK, CallType, Handles, Results
<1>2. CASE UNCHANGED tableVars
  BY <1>2 DEF tableVars, SameEntry
<1>3. CASE call[t].h.libc \in {"open", "fopen"} /\ create_mount_point_entry(call[t].res, call[t].mp)
  <2>1. pc[t] = "table"
    BY DEF UpdateTable
  <2>2. call[t].res # k
    BY <1>3, <2>1 DEF Made, Allocates
  <2> QED
    BY <1>1, <1>3, <2>2, CreateKeeps
<1>4. CASE call[t].h.libc = "fclose" /\ remove_mount_point_entry(call[t].key)
  <2>1. call[t].key # k
    BY <1>4, TableAssumption DEF StepOK, Tracked
  <2> QED
    BY <1>1, <1>4, <2>1, RemoveKeeps
<1>5. CASE call[t].h.libc = "dup" /\ replace_file_descriptor(call[t].key, call[t].res)
          /\ ~UNCHANGED tableVars
  <2>1. call[t].res \in Keys
    BY <1>1, <1>5, ValidKeysAreKeys DEF replace_file_descriptor
  <2>2. Made(t) /\ call[t].res \in shared /\ call[t].key \in shared
    BY <1>5, <2>1 DEF UpdateTable, Made, Allocates, MadeRegistered
  <2>3. k # call[t].key /\ k # call[t].res
    BY <2>2 DEF Tracked
  <2> QED
    BY <1>1, <1>5, <2>3, ReplaceKeeps
<1> QED
  BY <1>2, <1>3, <1>4, <1>5 DEF UpdateTable

LEMMA StepKeepsTracked ==
    ASSUME TypeOK, EntryOwnership, StepOK, MadeRegistered, ~HardRemove, [Next]_vars,
           NEW k \in Keys, Tracked(k),
           \A t \in Threads : UpdateTable(t) /\ Made(t) => call[t].res # k
    PROVE  SameEntry(k)
<1>1. ASSUME UNCHANGED tableVars PROVE SameEntry(k)
  BY <1>1 DEF tableVars, SameEntry
<1>2. ASSUME NEW t \in Threads, UpdateTable(t) PROVE SameEntry(k)
  BY <1>2, UpdateKeepsTracked
<1>3. ASSUME NEW t \in Threads, Begin(t) \/ Continue(t) PROVE SameEntry(k)
  BY <1>1, <1>2, <1>3, OthersKeepTable
<1>4. ASSUME NEW j \in Keys, UnhandledOpen(j) \/ UnhandledClose(j) PROVE SameEntry(k)
  BY <1>1, <1>4 DEF UnhandledOpen, UnhandledClose
<1>5. CASE UNCHANGED vars
  BY <1>1, <1>5 DEF vars, tableVars
<1> QED
  BY <1>3, <1>4, <1>5 DEF Next

\* A handle that stays open, and that no handler is registering, keeps its file,
\* its entry and its registration.
LEMMA OpenHandlesStay ==
    ASSUME TypeOK, EntryOwnership, StepOK, MadeRegistered, Disciplined, ~HardRemove,
           [Next]_vars, NEW k \in open, k \in open',
           \A t \in Threads : UpdateTable(t) /\ Made(t) => call[t].res # k
    PROVE  /\ file'[k] = file[k]
           /\ k \in shared => k \in shared'
           /\ Tracked(k)' => Tracked(k) /\ SameEntry(k)
           /\ Registered(k) => Registered(k)'
<1>1. file'[k] = file[k] /\ (k \in shared => k \in shared')
  BY OpenHandlesKeepFile
<1>2. Tracked(k)' => Tracked(k)
  BY <1>1 DEF Tracked
<1>3. Tracked(k) => SameEntry(k)
  BY StepKeepsTracked DEF TypeOK
<1> QED
  BY <1>1, <1>2, <1>3 DEF SameEntry, Registered, RegisteredAs

--------------------------------------------------------------------------------
(* Registration: of the handles the application holds and of those that    *)
(* are on their way to it.                                                 *)

\* What the lemmas below assume of a state and of the step from it.
Stepping ==
    /\ IInv /\ [Next]_vars
    /\ TypeOK' /\ HandleOwnership' /\ Disciplined /\ ~HardRemove

LEMMA SteppingFacts ==
    ASSUME Stepping
    PROVE  /\ TypeOK /\ EntryOwnership /\ HandleOwnership /\ StepOK /\ ClosedUnknown
           /\ HeldFilesRegistered /\ MadeRegistered /\ PickFollowsFile
           /\ DecisionFollowsFile /\ [Next]_vars /\ Disciplined /\ ~HardRemove
           /\ held \subseteq open /\ held' \subseteq open'
           /\ \A k \in Keys : Tracked(k) => RegisteredAs(k, file[k]) <=> Registered(k)
BY DEF Stepping, IInv, HandleOwnership, Registered

\* A handle the application holds, and keeps holding.
LEMMA HeldStay ==
    ASSUME Stepping, NEW k \in held, k \in held'
    PROVE  /\ file'[k] = file[k]
           /\ k \in shared => k \in shared'
           /\ Tracked(k)' => Tracked(k) /\ SameEntry(k)
           /\ Registered(k) => Registered(k)'
<1>1. k \in open /\ k \in open'
  BY SteppingFacts
<1>2. \A t \in Threads : UpdateTable(t) /\ Made(t) => call[t].res # k
  BY SteppingFacts DEF HandleOwnership
<1> QED
  BY <1>1, <1>2, SteppingFacts, OpenHandlesStay

\* Only returning handlers and calls PADLL does not see hand out handles.
LEMMA HeldGrows ==
    ASSUME Stepping, NEW k \in held' \ held
    PROVE  \/ \E t \in Threads : update_statistics(t) /\ Made(t) /\ call[t].res = k
           \/ UnhandledOpen(k)
<1>1. ASSUME NEW t \in Threads, update_statistics(t)
      PROVE  Made(t) /\ call[t].res = k
  BY <1>1, SteppingFacts, StatisticsEffect
<1>2. ASSUME NEW t \in Threads, Continue(t), ~update_statistics(t)
      PROVE  UNCHANGED held
  BY <1>2 DEF Continue, UseEntry, enforce_request, LibcIo, LibcAllocate, LibcClose,
     LibcAllocateFails, UpdateTable, osVars
<1>3. ASSUME NEW t \in Threads, Begin(t) PROVE held' \subseteq held
  <2>1. TypeOK /\ Disciplined
    BY SteppingFacts
  <2>2. call'[t].h.pick = "stream" => call'[t].h.libc \in Closers
    BY <1>3, <2>1, BeginEffect, HandlersAssumption DEF Closers
  <2> QED
    BY <1>3, <2>1, <2>2, BeginEffect
<1>4. ASSUME NEW j \in Keys, UnhandledOpen(j) \/ UnhandledClose(j)
      PROVE  UnhandledOpen(k)
  BY <1>4 DEF UnhandledOpen, UnhandledClose
<1>5. CASE UNCHANGED vars
  BY <1>5 DEF vars
<1> QED
  BY <1>1, <1>2, <1>3, <1>4, <1>5, SteppingFacts DEF Next

LEMMA HeldStep ==
    ASSUME Stepping
    PROVE  HeldFilesRegistered'
<1> SUFFICES ASSUME NEW k \in held' PROVE Registered(k)'
  BY DEF HeldFilesRegistered, Registered
<1>1. CASE k \in held
  BY <1>1, HeldStay, SteppingFacts DEF HeldFilesRegistered, Registered
<1>2. CASE k \notin held
  <2>1. ASSUME NEW t \in Threads, update_statistics(t), Made(t), call[t].res = k
        PROVE  Registered(k)'
    <3>1. Registered(k)
      BY <2>1, SteppingFacts, StatisticsEffect DEF MadeRegistered
    <3> QED
      BY <2>1, <3>1, SteppingFacts, StatisticsEffect DEF Registered, Tracked, RegisteredAs
  <2>2. CASE UnhandledOpen(k)
    BY <2>2, SteppingFacts DEF UnhandledOpen, ClosedUnknown, Registered, Tracked
  <2> QED
    BY <1>2, <2>1, <2>2, HeldGrows
<1> QED
  BY <1>1, <1>2

\* What MadeRegistered says of one handler.
MadeOK(t) ==
    LET c == call[t]
    IN  /\ c.h.libc = "open" => c.res \in Fds /\ file[c.res] = c.mp
        /\ c.h.libc = "fopen" => c.res \in FilePtrs
        /\ c.h.libc = "socket" => file[c.res] = Foreign
        /\ c.h.libc = "dup" => c.res \in shared /\ c.key \in shared
        /\ pc[t] = "stats" => Registered(c.res)

\* The original of a duplicate is still held by the application.
LEMMA DuplicatedHeld ==
    ASSUME Stepping, NEW t \in Threads, Made(t), call[t].h.libc = "dup",
           call'[t].h = call[t].h, call'[t].key = call[t].key, pc'[t] # "idle"
    PROVE  call[t].key \in shared => call[t].key \in shared'
<1>1. CASE call[t].key \notin Keys
  BY <1>1, SteppingFacts DEF TypeOK
<1>2. CASE call[t].key \in Keys
  <2>1. Using(t) /\ Using(t)'
    BY <1>2, FailuresAreNoKeys DEF Made, Using, Closers
  <2>2. call[t].key \in held /\ call[t].key \in held'
    BY <2>1, SteppingFacts DEF HandleOwnership, Stepping
  <2> QED
    BY <2>2, HeldStay
<1> QED
  BY <1>1, <1>2

LEMMA MadeWaits ==
    ASSUME Stepping, NEW u \in Threads, Made(u), call'[u] = call[u], pc'[u] = pc[u]
    PROVE  MadeOK(u)'
<1>1. MadeOK(u) /\ Made(u)'
  BY SteppingFacts DEF MadeRegistered, MadeOK, Made
<1>2. call[u].res \in open /\ call[u].res \in open'
  BY <1>1, SteppingFacts DEF HandleOwnership, Stepping
<1>3. \A t \in Threads : UpdateTable(t) /\ Made(t) => call[t].res # call[u].res
  <2> SUFFICES ASSUME NEW t \in Threads, UpdateTable(t), Made(t) PROVE call[t].res # call[u].res
    OBVIOUS
  <2>1. t # u
    BY SteppingFacts, TableEffect
  <2> QED
    BY <2>1, SteppingFacts DEF HandleOwnership
<1>4. /\ file'[call[u].res] = file[call[u].res]
      /\ call[u].res \in shared => call[u].res \in shared'
      /\ Registered(call[u].res) => Registered(call[u].res)'
  BY <1>2, <1>3, SteppingFacts, OpenHandlesStay
<1>5. call[u].h.libc = "dup" => (call[u].key \in shared => call[u].key \in shared')
  BY DuplicatedHeld DEF Made
<1> QED
  BY <1>1, <1>4, <1>5 DEF MadeOK

LEMMA MadeAllocated ==
    ASSUME Stepping, NEW t \in Threads, LibcAllocate(t)
    PROVE  MadeOK(t)'
<1> DEFINE new == CASE call[t].h.libc \in {"open", "fopen"} -> call[t].mp
                    [] call[t].h.libc = "socket" -> Foreign
                    [] OTHER -> file[call[t].key]
<1>1. PICK k \in FreeHandles(call[t].h.libc) :
          /\ Executed(t, k)
          /\ file' = [file EXCEPT ![k] = new]
          /\ shared' = IF call[t].h.libc = "dup" THEN shared \cup {k, call[t].key} ELSE shared
  BY DEF LibcAllocate
<1>2. /\ call'[t].h = call[t].h /\ call'[t].key = call[t].key /\ call'[t].mp = call[t].mp
      /\ call'[t].res = k
      /\ pc'[t] = IF call[t].h.libc \in {"io", "sync", "socket"} THEN "stats" ELSE "table"
  BY <1>1, SteppingFacts, ExecutedEffect DEF SameCall
<1>3. k \in Keys /\ (call[t].h.libc = "open" => k \in Fds)
      /\ (call[t].h.libc = "fopen" => k \in FilePtrs)
  BY <1>1 DEF FreeHandles, Keys
<1>4. call[t].h.libc = "open" => new = call[t].mp
  OBVIOUS
<1>5. call[t].h.libc = "socket" => new = Foreign
  OBVIOUS
<1>6. file'[k] = new
  <2> HIDE DEF new
  <2>1. DOMAIN file = Keys
    BY SteppingFacts DEF TypeOK
  <2> QED
    BY <1>1, <1>3, <2>1
<1> HIDE DEF new
<1>7. call[t].h.libc \in Allocates
  BY DEF LibcAllocate
<1> QED
  BY <1>1, <1>2, <1>3, <1>4, <1>5, <1>6, <1>7
     DEF MadeOK, Registered, Tracked, Allocates

LEMMA MadeTabled ==
    ASSUME Stepping, NEW t \in Threads, UpdateTable(t), Made(t)
    PROVE  MadeOK(t)'
<1>1. /\ pc[t] = "table" /\ pc'[t] = "stats" /\ call' = call
      /\ UNCHANGED <<file, shared>>
  BY SteppingFacts, TableEffect
<1>2. MadeOK(t)
  BY SteppingFacts DEF MadeRegistered, MadeOK
<1>3. call[t].h.libc \in {"open", "fopen", "dup"}
  BY <1>1, SteppingFacts DEF Made, Allocates, StepOK
<1>4. Registered(call[t].res)'
  <2>1. CASE call[t].h.libc = "open"
    <3>1. TableTypeOK /\ call[t].res \in Results /\ call[t].mp \in MountPoints
      BY SteppingFacts DEF TypeOK, CallType
    <3>2. PICK k \in Results, mp \in MountPoints : k = call[t].res /\ mp = call[t].mp
      BY <3>1
    <3>3. create_mount_point_entry(k, mp)
      BY <2>1, <3>2 DEF UpdateTable
    <3>4. SUFFICES ASSUME Tracked(k)' PROVE RegisteredAs(k, mp)'
      BY <1>1, <1>2, <2>1, <3>2 DEF Registered, MadeOK, Tracked, RegisteredAs
    <3>5. IsValidKey(k)
      BY <3>4, TableAssumption DEF Tracked, IsValidKey, Keys
    <3> QED
      BY <3>1, <3>3, <3>5, CreateRegisters
  <2>2. CASE call[t].h.libc = "fopen"
    BY <1>1, <1>2, <2>2, TableAssumption DEF MadeOK, Registered, Tracked
  <2>3. CASE call[t].h.libc = "dup"
    BY <1>1, <1>2, <2>3 DEF MadeOK, Registered, Tracked
  <2> QED
    BY <1>3, <2>1, <2>2, <2>3
<1> QED
  BY <1>1, <1>2, <1>4 DEF MadeOK

LEMMA MadeStep ==
    ASSUME Stepping
    PROVE  MadeRegistered'
<1> SUFFICES ASSUME NEW u \in Threads, Made(u)' PROVE MadeOK(u)'
  BY DEF MadeRegistered, MadeOK
<1>1. ASSUME pc'[u] = pc[u], call'[u] = call[u] PROVE MadeOK(u)'
  BY <1>1, MadeWaits DEF Made
<1>2. ASSUME NEW t \in Threads, Begin(t) \/ Continue(t), t # u PROVE MadeOK(u)'
  BY <1>1, <1>2, SteppingFacts, OthersKeepCalls
<1>3. CASE Begin(u)
  BY <1>3, SteppingFacts, BeginEffect DEF Made
<1>4. CASE UseEntry(u) \/ enforce_request(u)
  BY <1>4, SteppingFacts, UseEffect, EnforceEffect DEF Made
<1>5. CASE LibcIo(u) \/ LibcAllocateFails(u) \/ LibcClose(u)
  <2>1. PICK res \in {0, -1, NullPtr} :
            Executed(u, res) /\ (call[u].h.libc \in Allocates => res # 0)
    <3>1. CASE LibcIo(u)
      BY <3>1 DEF LibcIo, Allocates
    <3>2. CASE LibcAllocateFails(u)
      BY <3>2, TableAssumption DEF LibcAllocateFails
    <3>3. CASE LibcClose(u)
      BY <3>3 DEF LibcClose, Allocates, Closers
    <3> QED
      BY <1>5, <3>1, <3>2, <3>3
  <2>2. call'[u].res = res /\ call'[u].h = call[u].h
    BY <2>1, SteppingFacts, ExecutedEffect DEF SameCall
  <2> QED
    BY <2>1, <2>2, FailuresAreNoKeys DEF Made
<1>6. CASE LibcAllocate(u)
  BY <1>6, MadeAllocated
<1>7. CASE UpdateTable(u)
  BY <1>7, MadeTabled, SteppingFacts, TableEffect DEF Made
<1>8. CASE update_statistics(u)
  BY <1>8, SteppingFacts, StatisticsEffect DEF Made
<1>9. ASSUME NEW j \in Keys, UnhandledOpen(j) \/ UnhandledClose(j) PROVE MadeOK(u)'
  BY <1>1, <1>9 DEF UnhandledOpen, UnhandledClose, callVars
<1>10. CASE UNCHANGED vars
  BY <1>1, <1>10 DEF vars
<1> QED
  BY <1>2, <1>3, <1>4, <1>5, <1>6, <1>7, <1>8, <1>9, <1>10, SteppingFacts
     DEF Next, Continue

--------------------------------------------------------------------------------
(* From the registration to the decision.                                  *)

\* A pick on an entry of a mount point yields either nothing but the invalid
\* workflow or only valid ones: the decision does not depend on which one.
LEMMA PickIsUniform ==
    ASSUME NEW mp, NEW wf \in pick_workflow_id(mp)
    PROVE  wf # InvalidWorkflow <=> pick_workflow_id(mp) # {InvalidWorkflow}
<1>1. InvalidWorkflow \notin default_mount_point_workflows
  BY SMT DEF default_mount_point_workflows, InvalidWorkflow
<1>2. InvalidWorkflow \notin default_remote_mount_point_workflows
  BY TableAssumption, SMT DEF default_remote_mount_point_workflows, InvalidWorkflow
<1>3. InvalidWorkflow \notin registered_workflows(mp)
  BY <1>1, <1>2 DEF registered_workflows
<1> QED
  BY <1>3 DEF pick_workflow_id, select_workflow_from_mountpoint,
     select_workflow_from_metadata_unit

\* An operation on a tracked descriptor that stays where it is keeps its
\* descriptor, its file and its entry.
LEMMA TrackedCallStays ==
    ASSUME Stepping, NEW t \in Threads, TrackedCall(t)', SameCall(t),
           pc[t] # "idle", pc'[t] # "idle"
    PROVE  /\ TrackedCall(t) /\ call[t].key \in held /\ call[t].key \in Keys
           /\ file'[call[t].key] = file[call[t].key]
           /\ SameEntry(call[t].key)
<1>1. call[t].h.libc = "io" /\ call[t].h.pick = "fd" /\ Tracked(call[t].key)'
  BY DEF TrackedCall, SameCall, Tracked
<1>2. call[t].key # -1
  BY <1>1, TableAssumption DEF Tracked, SameCall
<1>3. Using(t) /\ Using(t)'
  BY <1>1, <1>2 DEF Using, SameCall, Closers
<1>4. call[t].key \in held /\ call[t].key \in held'
  BY <1>3, SteppingFacts DEF HandleOwnership, Stepping, SameCall
<1>5. PICK k \in held : k = call[t].key /\ k \in held'
  BY <1>4
<1>6. Tracked(k)'
  BY <1>1, <1>5 DEF Tracked, SameCall
<1>7. Tracked(k) /\ SameEntry(k) /\ file'[k] = file[k]
  BY <1>5, <1>6, HeldStay
<1> QED
  BY <1>1, <1>5, <1>7, SteppingFacts DEF TrackedCall, TypeOK, SameEntry

\* What the two properties say of one handler.
PickOK(t) ==
    TrackedCall(t) => /\ pc[t] = "use" => call[t].ptr = table[call[t].key]
                      /\ pc[t] = "enforce" => call[t].wf \in pick_workflow_id(file[call[t].key])
                      /\ pc[t] = "libc" => (call[t].enforced <=>
                              pick_workflow_id(file[call[t].key]) # {InvalidWorkflow})

LEMMA PickStep ==
    ASSUME Stepping
    PROVE  PickFollowsFile' /\ DecisionFollowsFile'
<1> SUFFICES ASSUME NEW u \in Threads, TrackedCall(u)' PROVE PickOK(u)'
  BY DEF PickFollowsFile, DecisionFollowsFile, TrackedCall, PickOK
<1>0. PickOK(u)
  BY SteppingFacts DEF PickFollowsFile, DecisionFollowsFile, TrackedCall, PickOK
<1>1. ASSUME pc'[u] = pc[u], call'[u] = call[u] PROVE PickOK(u)'
  <2>1. CASE pc[u] \notin {"use", "enforce", "libc"}
    BY <1>1, <2>1 DEF PickOK
  <2>2. CASE pc[u] \in {"use", "enforce", "libc"}
    BY <1>0, <1>1, <2>2, TrackedCallStays DEF SameCall, PickOK, SameEntry
  <2> QED
    BY <2>1, <2>2
<1>2. ASSUME NEW t \in Threads, Begin(t) \/ Continue(t), t # u PROVE PickOK(u)'
  BY <1>1, <1>2, SteppingFacts, OthersKeepCalls
<1>3. CASE Begin(u)
  <2>1. call'[u].h.pick = "fd" /\ Tracked(call[u].key)'
    BY DEF TrackedCall
  <2>2. pc'[u] = "use" /\ call'[u].ptr = get_mount_point_entry(call'[u].key) /\ table' = table
    BY <1>3, <2>1, SteppingFacts, BeginEffect
  <2>3. IsValidKey(call'[u].key)
    BY <2>1, TableAssumption DEF Tracked, IsValidKey, Keys
  <2> QED
    BY <2>2, <2>3 DEF PickOK, get_mount_point_entry
<1>4. CASE UseEntry(u)
  <2>1. PICK k \in Keys : k = call[u].key
    BY <1>4, SteppingFacts, UseEffect, TrackedCallStays
  <2>2. /\ TrackedCall(u) /\ k \in held /\ file'[k] = file[k] /\ pc'[u] = "enforce"
        /\ call'[u].key = k /\ call[u].ptr = table[k]
    BY <1>0, <1>4, <2>1, SteppingFacts, UseEffect, TrackedCallStays DEF PickOK, SameCall
  <2>3. RegisteredAs(k, file[k]) /\ Tracked(k)
    BY <2>1, <2>2, SteppingFacts DEF HeldFilesRegistered, TrackedCall
  <2>4. WorkflowsOfEntry(table[k]) = pick_workflow_id(file[k])
    <3>1. get_mount_point(table[k]) = {file[k]}
      BY <2>3, SteppingFacts DEF RegisteredAs, get_mount_point, EntryOwnership
    <3> QED
      BY <2>3, <3>1 DEF WorkflowsOfEntry, RegisteredAs
  <2>5. call'[u].wf \in pick_workflow_id(file[k])
    BY <1>4, <2>2, <2>4, SteppingFacts, UseEffect DEF close_fallback, TrackedCall
  <2> QED
    BY <2>2, <2>5 DEF PickOK
<1>5. CASE enforce_request(u)
  <2>1. PICK k \in Keys : k = call[u].key
    BY <1>5, SteppingFacts, EnforceEffect, TrackedCallStays
  <2>2. /\ file'[k] = file[k] /\ pc'[u] = "libc" /\ call'[u].key = k
        /\ call[u].wf \in pick_workflow_id(file[k])
        /\ call'[u].enforced = (call[u].wf # InvalidWorkflow)
    BY <1>0, <1>5, <2>1, SteppingFacts, EnforceEffect, TrackedCallStays DEF PickOK, SameCall
  <2> QED
    BY <2>2, PickIsUniform DEF PickOK
<1>6. CASE LibcIo(u) \/ LibcAllocate(u) \/ LibcAllocateFails(u) \/ LibcClose(u)
  <2>1. PICK res : Executed(u, res)
    BY <1>6 DEF LibcIo, LibcAllocate, LibcAllocateFails, LibcClose
  <2> QED
    BY <2>1, SteppingFacts, ExecutedEffect DEF PickOK
<1>7. CASE UpdateTable(u) \/ update_statistics(u)
  BY <1>7, SteppingFacts, TableEffect, StatisticsEffect DEF PickOK
<1>8. ASSUME NEW j \in Keys, UnhandledOpen(j) \/ UnhandledClose(j) PROVE PickOK(u)'
  BY <1>1, <1>8 DEF UnhandledOpen, UnhandledClose, callVars
<1>9. CASE UNCHANGED vars
  BY <1>1, <1>9 DEF vars
<1> QED
  BY <1>2, <1>3, <1>4, <1>5, <1>6, <1>7, <1>8, <1>9, SteppingFacts DEF Next, Continue

--------------------------------------------------------------------------------
(* What is enforced: nothing here depends on the application.              *)

\* Every pick yields a registered workflow or the invalid one, of a mount point that
\* is a member of the enumeration or of one that is not.
LEMMA PicksAreKnown ==
    /\ \A mp : pick_workflow_id(mp) \subseteq KnownWorkflows \cup {InvalidWorkflow}
    /\ pick_workflow_id_by_force \subseteq KnownWorkflows \cup {InvalidWorkflow}
<1>1. \A mp : registered_workflows(mp) \subseteq KnownWorkflows
  BY DEF registered_workflows, KnownWorkflows, MountPoints
<1> QED
  BY <1>1 DEF pick_workflow_id, pick_workflow_id_by_force, select_workflow_from_mountpoint,
     select_workflow_from_metadata_unit

\* What PicksOK says of one handler.
PickedOK(t) ==
    /\ pc[t] = "use" => call[t].h.pick \in {"fd", "stream", "minus_one"}
    /\ pc[t] = "enforce" =>
        /\ call[t].h.pick # "none" /\ call[t].wf \in KnownWorkflows \cup {InvalidWorkflow}
        /\ call[t].h.pick = "path" => call[t].wf \in pick_workflow_id(call[t].mp)
    /\ pc[t] = "libc" /\ call[t].enforced /\ call[t].h.libc # "sync" =>
        call[t].wf \in KnownWorkflows

LEMMA PickedByBegin ==
    ASSUME TypeOK, NEW t \in Threads, Begin(t)
    PROVE  PickedOK(t)'
<1>1. PICK h \in Handlers : \/ \E p \in Paths : CallOnPath(t, h, p)
                            \/ \E k \in Handles : CallOnKey(t, h, k)
                            \/ \E k \in Handles : CallUnpicked(t, h, k)
  BY DEF Begin
<1>2. ASSUME NEW step, NEW c, Start(t, step, c)
      PROVE  pc'[t] = step /\ call'[t] = c
  BY <1>2 DEF Start, TypeOK
<1>3. ASSUME NEW p \in Paths, CallOnPath(t, h, p)
      PROVE  PickedOK(t)'
  <2> DEFINE mp == extract_mount_point(p)
  <2>1. PICK wf \in pick_workflow_id(mp) :
            Start(t, "enforce", Call(h, -1, mp, NoEntry, wf, FALSE))
    BY <1>3 DEF CallOnPath
  <2>2. /\ pc'[t] = "enforce" /\ h.pick = "path" /\ call'[t].h = h
        /\ call'[t].wf = wf /\ call'[t].mp = mp
    BY <1>2, <1>3, <2>1 DEF CallOnPath, Call
  <2> QED
    BY <2>1, <2>2, PicksAreKnown DEF PickedOK
<1>4. ASSUME NEW k \in Handles, CallOnKey(t, h, k)
      PROVE  PickedOK(t)'
  <2>1. pc'[t] = "use" /\ call'[t].h = h /\ h.pick \in {"fd", "stream", "minus_one"}
    BY <1>2, <1>4 DEF CallOnKey, Call
  <2> QED
    BY <2>1 DEF PickedOK
<1>5. ASSUME NEW k \in Handles, CallUnpicked(t, h, k)
      PROVE  PickedOK(t)'
  <2>1. pc'[t] = "libc" /\ call'[t].h = h /\ call'[t].enforced = (h.libc = "sync")
    BY <1>2, <1>5 DEF CallUnpicked, Call
  <2> QED
    BY <2>1 DEF PickedOK
<1> QED
  BY <1>1, <1>3, <1>4, <1>5

LEMMA PickedByContinue ==
    ASSUME TypeOK, NEW t \in Threads, Continue(t), PickedOK(t)
    PROVE  PickedOK(t)'
<1>1. CASE UseEntry(t)
  <2>1. PICK picked \in WorkflowsOfEntry(call[t].ptr) :
            call'[t].wf \in close_fallback(call[t].h, picked)
    BY <1>1, UseEffect
  <2>2. picked \in KnownWorkflows \cup {InvalidWorkflow}
    BY PicksAreKnown DEF WorkflowsOfEntry
  <2>3. call'[t].wf \in KnownWorkflows \cup {InvalidWorkflow}
    BY <2>1, <2>2, PicksAreKnown DEF close_fallback
  <2> QED
    BY <1>1, <2>3, UseEffect DEF SameCall, PickedOK
<1>2. CASE enforce_request(t)
  <2>1. call'[t].wf = call[t].wf
    BY <1>2 DEF enforce_request, TypeOK, CallType
  <2> QED
    BY <1>2, <2>1, EnforceEffect DEF SameCall, PickedOK
<1>3. CASE LibcIo(t) \/ LibcAllocate(t) \/ LibcAllocateFails(t) \/ LibcClose(t)
  <2>1. PICK res : Executed(t, res)
    BY <1>3 DEF LibcIo, LibcAllocate, LibcAllocateFails, LibcClose
  <2> QED
    BY <2>1, ExecutedEffect DEF PickedOK
<1>4. CASE UpdateTable(t) \/ update_statistics(t)
  BY <1>4, TableEffect, StatisticsEffect DEF PickedOK
<1> QED
  BY <1>1, <1>2, <1>3, <1>4 DEF Continue

LEMMA PicksStep ==
    ASSUME TypeOK, PicksOK, [Next]_vars
    PROVE  PicksOK'
<1> SUFFICES ASSUME NEW u \in Threads PROVE PickedOK(u)'
  BY DEF PicksOK, PickedOK
<1>0. PickedOK(u)
  BY DEF PicksOK, PickedOK
<1>1. ASSUME NEW t \in Threads, Begin(t) \/ Continue(t) PROVE PickedOK(u)'
  <2>1. CASE t = u
    BY <1>0, <1>1, <2>1, PickedByBegin, PickedByContinue
  <2>2. CASE t # u
    BY <1>0, <1>1, <2>2, OthersKeepCalls DEF PickedOK
  <2> QED
    BY <2>1, <2>2
<1>2. ASSUME UNCHANGED callVars PROVE PickedOK(u)'
  BY <1>0, <1>2 DEF callVars, PickedOK
<1> QED
  BY <1>1, <1>2 DEF Next, UnhandledOpen, UnhandledClose, vars, callVars

LEMMA PicksInit == Init => PicksOK
BY DEF Init, PicksOK

--------------------------------------------------------------------------------
(* Entries of closed handles, with and without option_hard_remove.         *)

\* What EntriesJustified says of one key.
Justified(k) ==
    /\ ~IsValidKey(k) => table[k] = NoEntry
    /\ k \notin open /\ (k \in FilePtrs \/ HardRemove) /\ table[k] # NoEntry =>
        \E t \in Threads : Removing(t, k)

LEMMA JustifiedInit == Init => EntriesJustified
BY DEF Init, TableInit, EntriesJustified

\* A handler that is to remove an entry still is after a step of another.
LEMMA RemoversStay ==
    ASSUME TypeOK, NEW t \in Threads, Begin(t) \/ Continue(t), NEW k, NEW u \in Threads,
           Removing(u, k), ~UpdateTable(t)
    PROVE  Removing(u, k)'
<1>1. CASE u # t
  BY <1>1, OthersKeepCalls DEF Removing
<1>2. CASE u = t
  <2>1. pc[t] = "table"
    BY <1>2 DEF Removing
  <2> QED
    BY <2>1 DEF Begin, CallOnPath, CallOnKey, CallUnpicked, Start, Continue, UseEntry,
       enforce_request, LibcIo, LibcAllocate, LibcAllocateFails, LibcClose, Executed,
       update_statistics
<1> QED
  BY <1>1, <1>2

\* Closing a handle makes the handler responsible for its entry.
LEMMA JustifiedByClose ==
    ASSUME ClosedInv, NEW t \in Threads, LibcClose(t), NEW k \in Keys
    PROVE  Justified(k)'
<1>0. TypeOK /\ StepOK /\ EntriesJustified /\ Continue(t) /\ table' = table
  BY DEF ClosedInv, LibcClose, Executed, tableVars, Continue
<1>1. CASE k # call[t].key
  <2>1. k \in open' <=> k \in open
    BY <1>1 DEF LibcClose
  <2>2. \A u \in Threads : Removing(u, k) => Removing(u, k)'
    BY <1>0, RemoversStay DEF LibcClose, UpdateTable, Executed
  <2> QED
    BY <1>0, <2>1, <2>2 DEF EntriesJustified, Justified
<1>2. CASE k = call[t].key
  <2>1. PICK res : Executed(t, res)
    BY DEF LibcClose
  <2>2. /\ call'[t].key = k /\ call'[t].h = call[t].h /\ call[t].h.libc \in Closers
        /\ pc'[t] = "table"
    BY <1>0, <1>2, <2>1, ExecutedEffect DEF LibcClose, SameCall, Closers
  <2>3. k \in FilePtrs \/ HardRemove => Removing(t, k)'
    BY <1>0, <1>2, <2>2, TableAssumption DEF Removing, Closers, StepOK
  <2> QED
    BY <1>0, <2>3 DEF EntriesJustified, Justified
<1> QED
  BY <1>1, <1>2

\* What the table operation of a handler does to the entry of one key.
LEMMA JustifiedByUpdate ==
    ASSUME ClosedInv, NEW t \in Threads, UpdateTable(t), NEW k \in Keys
    PROVE  Justified(k)'
<1> DEFINE c == call[t]
<1>0. /\ TypeOK /\ TableTypeOK /\ HandleOwnership /\ StepOK /\ EntriesJustified /\ Continue(t)
      /\ c.key \in Results /\ c.res \in Results
  BY DEF ClosedInv, TypeOK, CallType, Handles, Results, Continue
<1>1. pc[t] = "table" /\ open' = open
  BY <1>0, TableEffect
<1>2. ASSUME table'[k] \in {table[k], NoEntry}, ~Removing(t, k) \/ table'[k] = NoEntry
      PROVE  Justified(k)'
  <2>1. \A u \in Threads : u # t => (Removing(u, k) => Removing(u, k)')
    BY <1>0, OthersKeepCalls DEF Removing
  <2> QED
    BY <1>0, <1>1, <1>2, <2>1 DEF EntriesJustified, Justified
<1>3. ASSUME k \in open, IsValidKey(k) PROVE Justified(k)'
  BY <1>1, <1>3 DEF Justified
<1>4. ASSUME c.h.libc \in Allocates, IsValidKey(c.res), k = c.res PROVE Justified(k)'
  BY <1>0, <1>1, <1>3, <1>4 DEF HandleOwnership, Made
<1>5. CASE c.h.libc \in {"open", "fopen"} /\ create_mount_point_entry(c.res, c.mp)
  <2>1. ~Removing(t, k)
    BY <1>5 DEF Removing
  <2>2. CASE k = c.res /\ IsValidKey(c.res)
    BY <1>4, <1>5, <2>2 DEF Allocates
  <2>3. CASE ~(k = c.res /\ IsValidKey(c.res))
    BY <1>0, <1>2, <1>5, <2>1, <2>3 DEF create_mount_point_entry, tableVars, TableTypeOK
  <2> QED
    BY <2>2, <2>3
<1>6. CASE remove_mount_point_entry(c.key)
  <2>1. table'[k] = IF k = c.key THEN NoEntry ELSE table[k]
    BY <1>0, <1>6 DEF remove_mount_point_entry, tableVars, TableTypeOK, EntriesJustified
  <2> QED
    BY <1>2, <2>1 DEF Removing
<1>7. CASE c.h.libc = "close" /\ ~HardRemove /\ UNCHANGED tableVars
  BY <1>2, <1>7 DEF Removing, tableVars
<1>8. CASE c.h.libc = "dup" /\ replace_file_descriptor(c.key, c.res)
  <2>1. ~Removing(t, k)
    BY <1>8 DEF Removing
  <2>2. CASE k = c.res /\ IsValidKey(c.res)
    BY <1>4, <1>8, <2>2 DEF Allocates
  <2>3. CASE ~(k = c.res /\ IsValidKey(c.res))
    BY <1>0, <1>2, <1>8, <2>1, <2>3 DEF replace_file_descriptor, tableVars, TableTypeOK
  <2> QED
    BY <2>2, <2>3
<1> QED
  BY <1>5, <1>6, <1>7, <1>8 DEF UpdateTable

LEMMA JustifiedStep ==
    ASSUME ClosedInv, "close" \notin Unhandled, [Next]_vars
    PROVE  EntriesJustified'
<1> SUFFICES ASSUME NEW k \in Keys PROVE Justified(k)'
  BY DEF EntriesJustified, Justified
<1>0. TypeOK /\ Justified(k)
  BY DEF ClosedInv, EntriesJustified, Justified
<1>1. ASSUME NEW t \in Threads, Begin(t) \/ Continue(t), ~LibcClose(t), ~UpdateTable(t)
      PROVE  Justified(k)'
  <2>1. table' = table
    BY <1>1, <1>0, OthersKeepTable DEF tableVars
  <2>2. open \subseteq open'
    BY <1>1 DEF Begin, CallOnPath, CallOnKey, CallUnpicked, Continue, UseEntry,
       enforce_request, LibcIo, LibcAllocate, LibcAllocateFails, update_statistics, osVars
  <2>3. \A u \in Threads : Removing(u, k) => Removing(u, k)'
    BY <1>0, <1>1, RemoversStay
  <2> QED
    BY <1>0, <2>1, <2>2, <2>3 DEF Justified
<1>2. ASSUME NEW j \in Keys, UnhandledOpen(j) PROVE Justified(k)'
  BY <1>0, <1>2 DEF UnhandledOpen, tableVars, callVars, Justified, Removing
<1>3. CASE UNCHANGED vars
  BY <1>0, <1>3 DEF vars, Justified, Removing
<1> QED
  BY <1>1, <1>2, <1>3, JustifiedByClose, JustifiedByUpdate DEF Next, UnhandledClose

--------------------------------------------------------------------------------
(* Counting modulo CounterModulus.                                         *)

LEMMA Division ==
    /\ \A x \in Int : x = (x \div CounterModulus) * CounterModulus + (x % CounterModulus)
    /\ \A x \in Int : x \div CounterModulus \in Int
    /\ \A x \in Int, q \in Int, r \in 0 .. CounterModulus - 1 :
            x = q * CounterModulus + r => x % CounterModulus = r
<1>1. CounterModulus \in Nat \ {0}
  BY OptionsAssumption
<1>2. ASSUME NEW x \in Int
      PROVE  x = (x \div CounterModulus) * CounterModulus + (x % CounterModulus)
  BY <1>1, SMTT(60)
<1>3. ASSUME NEW x \in Int, NEW q \in Int, NEW r \in 0 .. CounterModulus - 1,
             x = q * CounterModulus + r
      PROVE  x % CounterModulus = r
  BY <1>1, <1>3, SMTT(60)
<1> QED
  BY <1>1, <1>2, <1>3

LEMMA CongruentIs ==
    ASSUME NEW a \in Int, NEW b \in Int
    PROVE  Congruent(a, b) <=> \E q \in Int : a - b = q * CounterModulus
<1>1. CounterModulus \in Nat \ {0}
  BY OptionsAssumption
<1>2. CASE Congruent(a, b)
  <2>1. a - b = ((a - b) \div CounterModulus) * CounterModulus + 0
    BY <1>2, Division DEF Congruent
  <2>2. ((a - b) \div CounterModulus) \in Int
    BY Division
  <2> QED
    BY <1>1, <1>2, <2>1, <2>2
<1>3. ASSUME NEW q \in Int, a - b = q * CounterModulus
      PROVE  Congruent(a, b)
  <2>1. a - b \in Int /\ a - b = q * CounterModulus + 0 /\ 0 \in 0 .. CounterModulus - 1
    BY <1>1, <1>3
  <2> QED
    BY <2>1, Division DEF Congruent
<1> QED
  BY <1>2, <1>3

LEMMA Multiples ==
    \A p, q \in Int :
        /\ p * CounterModulus + q * CounterModulus = (p + q) * CounterModulus
        /\ (-p) * CounterModulus = -(p * CounterModulus)
        /\ p * CounterModulus \in Int
        /\ p > 0 => p * CounterModulus >= CounterModulus
        /\ p < 0 => p * CounterModulus <= -CounterModulus
BY OptionsAssumption, SMTT(30)

\* Two sides that agree still do after the same change, in any representation.
LEMMA Advance ==
    ASSUME NEW a \in Int, NEW b \in Int, NEW a2 \in Int, NEW b2 \in Int, NEW d \in Int,
           Congruent(a, b), Congruent(a2, a + d), Congruent(b2, b + d)
    PROVE  Congruent(a2, b2)
<1>1. PICK p \in Int : a - b = p * CounterModulus
  BY CongruentIs
<1>2. PICK q \in Int : a2 - (a + d) = q * CounterModulus
  BY CongruentIs
<1>3. PICK r \in Int : b2 - (b + d) = r * CounterModulus
  BY CongruentIs
<1>4. /\ (p + q) * CounterModulus = p * CounterModulus + q * CounterModulus
      /\ (-r) * CounterModulus = -(r * CounterModulus)
      /\ p * CounterModulus \in Int /\ q * CounterModulus \in Int
      /\ r * CounterModulus \in Int
  BY Multiples
<1>5. p + q \in Int /\ -r \in Int /\ (p + q) + -r \in Int
  OBVIOUS
<1>6. ((p + q) + -r) * CounterModulus = (p + q) * CounterModulus + (-r) * CounterModulus
  BY <1>5, Multiples
<1>7. a2 - b2 = p * CounterModulus + q * CounterModulus - r * CounterModulus
  BY <1>1, <1>2, <1>3, <1>4
<1>8. a2 - b2 = ((p + q) + -r) * CounterModulus
  BY <1>4, <1>6, <1>7
<1> QED
  BY <1>5, <1>8, CongruentIs

LEMMA CongruentSame == \A a \in Int : Congruent(a, a)
<1>1. \A a \in Int : a - a = 0 * CounterModulus
  BY OptionsAssumption
<1> QED
  BY <1>1, CongruentIs

\* An increment, next to something else.
LEMMA CongruentAdd ==
    ASSUME NEW m \in Int, NEW n \in Int, NEW k \in Int
    PROVE  /\ Add(m, n) \in Int
           /\ Congruent(Add(m, n) + k, m + n + k)
<1>1. CounterModulus \in Nat \ {0}
  BY OptionsAssumption
<1>2. m + n = ((m + n) \div CounterModulus) * CounterModulus + Add(m, n)
      /\ ((m + n) \div CounterModulus) \in Int
  BY <1>1, Division DEF Add
<1>3. Add(m, n) \in Int
  BY <1>1 DEF Add
<1>4. PICK q \in Int : q = (m + n) \div CounterModulus
  BY <1>2
<1>5. (-q) * CounterModulus = -(q * CounterModulus) /\ q * CounterModulus \in Int
  BY Multiples
<1>6. (Add(m, n) + k) - (m + n + k) = (-q) * CounterModulus
  BY <1>1, <1>2, <1>3, <1>4, <1>5
<1>7. Add(m, n) + k \in Int /\ m + n + k \in Int /\ -q \in Int
  BY <1>1, <1>3
<1>8. Congruent(Add(m, n) + k, m + n + k)
  BY <1>6, <1>7, CongruentIs
<1> QED
  BY <1>3, <1>8

\* Counters that are congruent are equal.
LEMMA CongruentCounters ==
    ASSUME NEW m \in Counter, NEW n \in Counter, Congruent(m, n)
    PROVE  m = n
<1>1. m \in Int /\ n \in Int
  BY DEF Counter
<1>2. PICK q \in Int : m - n = q * CounterModulus
  BY <1>1, CongruentIs
<1>3. q = 0
  BY <1>2, Multiples, OptionsAssumption DEF Counter
<1> QED
  BY <1>1, <1>2, <1>3, OptionsAssumption

\* A call that happened is owed: both sides grow.
LEMMA Owe ==
    ASSUME NEW a \in Int, NEW b \in Int, NEW k \in Int, NEW n \in {0, 1}, Congruent(a, b + k)
    PROVE  Congruent(a + n, Add(b, n) + k)
<1>0. n \in Int
  OBVIOUS
<1>1. Add(b, n) \in Int /\ Congruent(Add(b, n) + k, b + n + k)
  BY <1>0, CongruentAdd
<1>2. /\ b + n + k = (b + k) + n
      /\ a + n \in Int /\ b + k \in Int /\ Add(b, n) + k \in Int
  BY <1>0, <1>1
<1>3. Congruent(Add(b, n) + k, (b + k) + n) /\ Congruent(a + n, a + n)
  BY <1>1, <1>2, CongruentSame
<1> QED
  BY <1>0, <1>2, <1>3, Advance

\* Congruence is transitive.
LEMMA Through ==
    ASSUME NEW a \in Int, NEW b \in Int, NEW m \in Int, Congruent(a, m), Congruent(m, b)
    PROVE  Congruent(a, b)
<1>1. PICK p \in Int : a - m = p * CounterModulus
  BY CongruentIs
<1>2. PICK q \in Int : m - b = q * CounterModulus
  BY CongruentIs
<1>3. /\ (p + q) * CounterModulus = p * CounterModulus + q * CounterModulus
      /\ p * CounterModulus \in Int /\ q * CounterModulus \in Int
  BY Multiples
<1>4. a - b = p * CounterModulus + q * CounterModulus
  BY <1>1, <1>2, <1>3
<1>5. a - b = (p + q) * CounterModulus /\ p + q \in Int
  BY <1>3, <1>4
<1> QED
  BY <1>5, CongruentIs

\* A call that is counted is no longer owed: what one counter gains the debt loses.
LEMMA Pay ==
    ASSUME NEW m \in Int, NEW k \in Int, NEW b \in Int, NEW n \in {0, 1}, Congruent(m + k, b)
    PROVE  Congruent(Add(m, n) + (k - n), b)
<1>0. n \in Int /\ k - n \in Int
  OBVIOUS
<1>1. Add(m, n) \in Int /\ Congruent(Add(m, n) + (k - n), m + n + (k - n))
  BY <1>0, CongruentAdd
<1>2. m + n + (k - n) = m + k /\ m + k \in Int /\ Add(m, n) + (k - n) \in Int
  BY <1>0, <1>1
<1> QED
  BY <1>1, <1>2, Through

LEMMA AddInt ==
    /\ \A m \in Int : Add(m, 1) \in Int
    /\ \A m \in Int, n \in {0, 1} : Add(m, n) \in Int
BY OptionsAssumption DEF Add

--------------------------------------------------------------------------------
(* Every call is counted.                                                  *)

One(p) == IF p THEN 1 ELSE 0

LEMMA CardinalityMoves ==
    ASSUME NEW S, NEW R, NEW t, IsFiniteSet(S), \A u : u # t => (u \in S <=> u \in R)
    PROVE  /\ IsFiniteSet(R) /\ Cardinality(S) \in Nat /\ Cardinality(R) \in Nat
           /\ Cardinality(R) = Cardinality(S) + One(t \in R) - One(t \in S)
<1> DEFINE rest == S \ {t}
<1>1. /\ IsFiniteSet(rest) /\ Cardinality(S) \in Nat /\ Cardinality(rest) \in Nat
      /\ Cardinality(rest) = IF t \in S THEN Cardinality(S) - 1 ELSE Cardinality(S)
  BY FS_RemoveElement, FS_CardinalityType
<1>2. CASE t \in R
  <2>1. R = rest \cup {t}
    BY <1>2
  <2>2. IsFiniteSet(rest \cup {t}) /\ Cardinality(rest \cup {t}) = Cardinality(rest) + 1
    BY <1>1, FS_AddElement
  <2> HIDE DEF rest
  <2> QED
    BY <1>1, <1>2, <2>1, <2>2 DEF One
<1>3. CASE t \notin R
  <2>1. R = rest
    BY <1>3
  <2> HIDE DEF rest
  <2> QED
    BY <1>1, <1>3, <2>1 DEF One
<1> QED
  BY <1>2, <1>3

\* What a step of one thread does to the debts of a class.
LEMMA DebtsMove ==
    ASSUME TypeOK, IsFiniteSet(Busy), NEW t \in Threads, Begin(t) \/ Continue(t), NEW c
    PROVE  /\ IsFiniteSet(Busy')
           /\ Cardinality(OwedOperations(c)) \in Nat
           /\ Cardinality(OwedExecuted(c)) \in Nat
           /\ Cardinality(OwedFailed(c)) \in Nat
           /\ Cardinality(OwedOperations(c))' = Cardinality(OwedOperations(c))
                + One(t \in OwedOperations(c)') - One(t \in OwedOperations(c))
           /\ Cardinality(OwedExecuted(c))' = Cardinality(OwedExecuted(c))
                + One(t \in OwedExecuted(c)') - One(t \in OwedExecuted(c))
           /\ Cardinality(OwedFailed(c))' = Cardinality(OwedFailed(c))
                + One(t \in OwedFailed(c)') - One(t \in OwedFailed(c))
<1>1. \A u : u # t =>
        /\ u \in Busy <=> u \in Busy'
        /\ u \in OwedOperations(c) <=> u \in OwedOperations(c)'
        /\ u \in OwedExecuted(c) <=> u \in OwedExecuted(c)'
        /\ u \in OwedFailed(c) <=> u \in OwedFailed(c)'
  BY OthersKeepCalls DEF Busy, OwedOperations, OwedExecuted, OwedFailed
<1>2. /\ OwedOperations(c) \in SUBSET Busy
      /\ OwedExecuted(c) \in SUBSET Busy
      /\ OwedFailed(c) \in SUBSET Busy
  BY DEF Busy, OwedOperations, OwedExecuted, OwedFailed
<1>3. /\ IsFiniteSet(OwedOperations(c)) /\ IsFiniteSet(OwedExecuted(c))
      /\ IsFiniteSet(OwedFailed(c))
  BY <1>2, FS_Subset
<1>4. IsFiniteSet(Busy')
  BY <1>1, CardinalityMoves
<1> QED
  BY <1>1, <1>3, <1>4, CardinalityMoves

\* The debts of a class that a step does not concern.
LEMMA CountUnmoved ==
    ASSUME TypeOK, IsFiniteSet(Busy), NEW t \in Threads, Begin(t) \/ Continue(t), NEW c,
           CountOK(c), stats'[c] = stats[c], ledger'[c] = ledger[c],
           t \in OwedOperations(c)' <=> t \in OwedOperations(c),
           t \in OwedExecuted(c)' <=> t \in OwedExecuted(c),
           t \in OwedFailed(c)' <=> t \in OwedFailed(c)
    PROVE  CountOK(c)'
<1>1. /\ Cardinality(OwedOperations(c))' = Cardinality(OwedOperations(c))
      /\ Cardinality(OwedExecuted(c))' = Cardinality(OwedExecuted(c))
      /\ Cardinality(OwedFailed(c))' = Cardinality(OwedFailed(c))
  BY DebtsMove DEF One
<1> QED
  BY <1>1 DEF CountOK

LEMMA DebtsAreNumbers ==
    ASSUME TypeOK, IsFiniteSet(Busy), NEW c \in Classes
    PROVE  /\ Cardinality(OwedOperations(c)) \in Nat
           /\ Cardinality(OwedExecuted(c)) \in Nat
           /\ Cardinality(OwedFailed(c)) \in Nat
           /\ stats[c] \in StatsType /\ ledger[c] \in LedgerType
           /\ Counter \subseteq Int
<1>1. /\ OwedOperations(c) \in SUBSET Busy
      /\ OwedExecuted(c) \in SUBSET Busy
      /\ OwedFailed(c) \in SUBSET Busy
  BY DEF Busy, OwedOperations, OwedExecuted, OwedFailed
<1>2. /\ IsFiniteSet(OwedOperations(c)) /\ IsFiniteSet(OwedExecuted(c))
      /\ IsFiniteSet(OwedFailed(c))
  BY <1>1, FS_Subset
<1> QED
  BY <1>2, FS_CardinalityType DEF TypeOK, Counter

\* A submitted request is an operation its handler owes.
LEMMA CountSubmitted ==
    ASSUME TypeOK, IsFiniteSet(Busy), NEW t \in Threads, Begin(t) \/ Continue(t),
           NEW c \in Classes, CountOK(c),
           t \notin OwedOperations(c), t \in OwedOperations(c)',
           t \notin OwedExecuted(c), t \notin OwedExecuted(c)',
           t \notin OwedFailed(c), t \notin OwedFailed(c)',
           stats'[c] = stats[c],
           ledger'[c] = [ledger[c] EXCEPT !.submitted = Add(@, 1)]
    PROVE  CountOK(c)'
<1>1. /\ Cardinality(OwedOperations(c))' = Cardinality(OwedOperations(c)) + 1
      /\ Cardinality(OwedExecuted(c))' = Cardinality(OwedExecuted(c))
      /\ Cardinality(OwedFailed(c))' = Cardinality(OwedFailed(c))
  BY DebtsMove, DebtsAreNumbers DEF One
<1>2. PICK o \in Int, op \in Int, sub \in Int, syn \in Int :
        /\ o = Cardinality(OwedOperations(c)) /\ op = stats[c].operations
        /\ sub = ledger[c].submitted /\ syn = ledger[c].synced
  BY DebtsAreNumbers DEF StatsType, LedgerType
<1>3. Congruent(op + o, sub + syn) /\ op + o \in Int
  BY <1>2 DEF CountOK
<1>4. Congruent((op + o) + 1, Add(sub, 1) + syn)
  BY <1>3, Owe
<1>5. (op + o) + 1 = op + (o + 1)
  OBVIOUS
<1>6. /\ ledger'[c].submitted = Add(sub, 1) /\ ledger'[c].synced = syn
      /\ ledger'[c].executed = ledger[c].executed /\ ledger'[c].failed = ledger[c].failed
  BY <1>2, DebtsAreNumbers DEF LedgerType
<1> QED
  BY <1>1, <1>2, <1>4, <1>5, <1>6 DEF CountOK

\* A libc call that was made is owed; a sync becomes an operation, and the failure
\* of an enforced call an error, that is owed too.
LEMMA CountExecuted ==
    ASSUME TypeOK, IsFiniteSet(Busy), NEW t \in Threads, Begin(t) \/ Continue(t),
           NEW c \in Classes, CountOK(c), NEW n \in {0, 1}, NEW f \in {0, 1},
           One(t \in OwedOperations(c)') - One(t \in OwedOperations(c)) = n,
           t \notin OwedExecuted(c), t \in OwedExecuted(c)',
           One(t \in OwedFailed(c)') - One(t \in OwedFailed(c)) = f,
           stats'[c] = stats[c],
           ledger'[c] = [ledger[c] EXCEPT !.executed = Add(@, 1), !.synced = Add(@, n),
                                          !.failed = Add(@, f)]
    PROVE  CountOK(c)'
<1>1. /\ Cardinality(OwedOperations(c))' = Cardinality(OwedOperations(c)) + n
      /\ Cardinality(OwedExecuted(c))' = Cardinality(OwedExecuted(c)) + 1
      /\ Cardinality(OwedFailed(c))' = Cardinality(OwedFailed(c)) + f
  BY DebtsMove, DebtsAreNumbers DEF One
<1>2. PICK o \in Int, x \in Int, e \in Int :
        /\ o = Cardinality(OwedOperations(c)) /\ x = Cardinality(OwedExecuted(c))
        /\ e = Cardinality(OwedFailed(c))
  BY DebtsAreNumbers
<1>3. PICK op \in Int, by \in Int, er \in Int :
        op = stats[c].operations /\ by = stats[c].bypassed /\ er = stats[c].errors
  BY DebtsAreNumbers DEF StatsType
<1>4. PICK sub \in Int, syn \in Int, ex \in Int, fa \in Int :
        /\ sub = ledger[c].submitted /\ syn = ledger[c].synced
        /\ ex = ledger[c].executed /\ fa = ledger[c].failed
  BY DebtsAreNumbers DEF LedgerType
<1>5. /\ Congruent(op + o, syn + sub) /\ Congruent(op + by + x, ex + 0)
      /\ Congruent(er + e, fa + 0)
  <2>1. sub + syn = syn + sub /\ ex + 0 = ex /\ fa + 0 = fa
    OBVIOUS
  <2> QED
    BY <1>2, <1>3, <1>4, <2>1 DEF CountOK
<1>6. op + o \in Int /\ op + by + x \in Int /\ er + e \in Int
  OBVIOUS
<1>7. /\ Congruent((op + o) + n, Add(syn, n) + sub)
      /\ Congruent((op + by + x) + 1, Add(ex, 1) + 0)
      /\ Congruent((er + e) + f, Add(fa, f) + 0)
  BY <1>5, <1>6, Owe
<1>8. Add(syn, n) \in Int /\ Add(ex, 1) \in Int /\ Add(fa, f) \in Int
  BY AddInt
<1>9. /\ (op + o) + n = op + (o + n) /\ Add(syn, n) + sub = sub + Add(syn, n)
      /\ (op + by + x) + 1 = op + by + (x + 1) /\ Add(ex, 1) + 0 = Add(ex, 1)
      /\ (er + e) + f = er + (e + f) /\ Add(fa, f) + 0 = Add(fa, f)
  BY <1>8
<1>10. /\ ledger'[c].submitted = sub /\ ledger'[c].synced = Add(syn, n)
       /\ ledger'[c].executed = Add(ex, 1) /\ ledger'[c].failed = Add(fa, f)
  BY <1>4, DebtsAreNumbers DEF LedgerType
<1> QED
  BY <1>1, <1>2, <1>3, <1>7, <1>9, <1>10 DEF CountOK

\* What is counted is no longer owed.
LEMMA CountPaid ==
    ASSUME TypeOK, IsFiniteSet(Busy), NEW t \in Threads, Begin(t) \/ Continue(t),
           NEW c \in Classes, CountOK(c), NEW n \in {0, 1}, NEW f \in {0, 1},
           One(t \in OwedOperations(c)) - One(t \in OwedOperations(c)') = n,
           t \in OwedExecuted(c), t \notin OwedExecuted(c)',
           One(t \in OwedFailed(c)) - One(t \in OwedFailed(c)') = f,
           ledger'[c] = ledger[c],
           stats'[c].operations = IF n = 1 THEN Add(stats[c].operations, 1)
                                  ELSE stats[c].operations,
           stats'[c].bypassed = IF n = 1 THEN stats[c].bypassed
                                ELSE Add(stats[c].bypassed, 1),
           stats'[c].errors = IF f = 1 THEN Add(stats[c].errors, 1) ELSE stats[c].errors
    PROVE  CountOK(c)'
<1>1. /\ Cardinality(OwedOperations(c))' = Cardinality(OwedOperations(c)) - n
      /\ Cardinality(OwedExecuted(c))' = Cardinality(OwedExecuted(c)) - 1
      /\ Cardinality(OwedFailed(c))' = Cardinality(OwedFailed(c)) - f
  BY DebtsMove, DebtsAreNumbers DEF One
<1>2. PICK o \in Int, x \in Int, e \in Int :
        /\ o = Cardinality(OwedOperations(c)) /\ x = Cardinality(OwedExecuted(c))
        /\ e = Cardinality(OwedFailed(c))
  BY DebtsAreNumbers
<1>3. PICK op \in Int, by \in Int, er \in Int :
        op = stats[c].operations /\ by = stats[c].bypassed /\ er = stats[c].errors
  BY DebtsAreNumbers DEF StatsType
<1>4. PICK sub \in Int, syn \in Int, ex \in Int, fa \in Int :
        /\ sub = ledger[c].submitted /\ syn = ledger[c].synced
        /\ ex = ledger[c].executed /\ fa = ledger[c].failed
  BY DebtsAreNumbers DEF LedgerType
<1>5. /\ Congruent(op + o, sub + syn) /\ Congruent(op + by + x, ex)
      /\ Congruent(er + e, fa)
  BY <1>2, <1>3, <1>4 DEF CountOK
<1>6. /\ op + (by + x) = op + by + x /\ by + (op + x) = op + by + x
      /\ by + x \in Int /\ op + x \in Int /\ sub + syn \in Int
  OBVIOUS
<1>7. /\ Congruent(Add(op, 1) + (o - 1), sub + syn)
      /\ Congruent(Add(op, 1) + ((by + x) - 1), ex)
      /\ Congruent(Add(by, 1) + ((op + x) - 1), ex)
      /\ Congruent(Add(er, 1) + (e - 1), fa)
  BY <1>5, <1>6, Pay
<1>8. Add(op, 1) \in Int /\ Add(by, 1) \in Int
  BY AddInt
<1>9. /\ Add(op, 1) + ((by + x) - 1) = Add(op, 1) + by + (x - 1)
      /\ Add(by, 1) + ((op + x) - 1) = op + Add(by, 1) + (x - 1)
      /\ o - 0 = o /\ e - 0 = e
  BY <1>8
<1>10. Congruent(stats'[c].errors + (e - f), fa)
  BY <1>3, <1>5, <1>7, <1>9
<1>11. CASE n = 1
  BY <1>1, <1>2, <1>3, <1>4, <1>7, <1>9, <1>10, <1>11 DEF CountOK
<1>12. CASE n = 0
  BY <1>1, <1>2, <1>3, <1>4, <1>5, <1>7, <1>9, <1>10, <1>12 DEF CountOK
<1> QED
  BY <1>11, <1>12

LEMMA CountBegin ==
    ASSUME TypeOK, IsFiniteSet(Busy), SyncsClaim, NEW t \in Threads, Begin(t),
           NEW c \in Classes, CountOK(c)
    PROVE  CountOK(c)'
<1>1. PICK h \in Handlers : \/ \E p \in Paths : CallOnPath(t, h, p)
                            \/ \E k \in Handles : CallOnKey(t, h, k)
                            \/ \E k \in Handles : CallUnpicked(t, h, k)
  BY DEF Begin
<1>2. /\ pc[t] = "idle" /\ UNCHANGED <<stats, ledger>>
      /\ call'[t].h = h
      /\ \/ pc'[t] \in {"enforce", "use"}
         \/ pc'[t] = "libc" /\ (call'[t].enforced => h.libc = "sync")
  <2>s. ASSUME NEW step, NEW u, Start(t, step, u)
        PROVE  pc[t] = "idle" /\ pc'[t] = step /\ call'[t] = u
    BY <2>s DEF Start, TypeOK
  <2>1. CASE \E p \in Paths : CallOnPath(t, h, p)
    BY <2>1, <2>s DEF CallOnPath, Call
  <2>2. CASE \E k \in Handles : CallOnKey(t, h, k)
    BY <2>2, <2>s DEF CallOnKey, Call
  <2>3. CASE \E k \in Handles : CallUnpicked(t, h, k)
    <3>1. PICK k \in Handles : CallUnpicked(t, h, k)
      BY <2>3
    <3>2. /\ pc[t] = "idle" /\ pc'[t] = "libc"
          /\ call'[t] = Call(h, k, "kNone", NoEntry, InvalidWorkflow, h.libc = "sync")
      BY <3>1, <2>s DEF CallUnpicked
    <3>3. call'[t].h = h /\ call'[t].enforced = (h.libc = "sync")
      BY <3>2 DEF Call
    <3> QED
      BY <3>1, <3>2, <3>3 DEF CallUnpicked
  <2> QED
    BY <1>1, <2>1, <2>2, <2>3
<1>3. /\ t \notin OwedOperations(c) /\ t \notin OwedOperations(c)'
      /\ t \notin OwedExecuted(c) /\ t \notin OwedExecuted(c)'
      /\ t \notin OwedFailed(c) /\ t \notin OwedFailed(c)'
  BY <1>2 DEF OwedOperations, OwedExecuted, OwedFailed
<1> QED
  BY <1>2, <1>3, CountUnmoved

LEMMA CountUse ==
    ASSUME TypeOK, IsFiniteSet(Busy), NEW t \in Threads, UseEntry(t),
           NEW c \in Classes, CountOK(c)
    PROVE  CountOK(c)'
<1>1. /\ pc[t] = "use" /\ pc'[t] = "enforce" /\ UNCHANGED <<stats, ledger>>
  BY DEF UseEntry, TypeOK
<1>2. /\ t \notin OwedOperations(c) /\ t \notin OwedOperations(c)'
      /\ t \notin OwedExecuted(c) /\ t \notin OwedExecuted(c)'
      /\ t \notin OwedFailed(c) /\ t \notin OwedFailed(c)'
  BY <1>1 DEF OwedOperations, OwedExecuted, OwedFailed
<1> QED
  BY <1>1, <1>2, CountUnmoved DEF Continue

LEMMA CountEnforce ==
    ASSUME TypeOK, IsFiniteSet(Busy), SyncsClaim, NEW t \in Threads, enforce_request(t),
           NEW c \in Classes, CountOK(c)
    PROVE  CountOK(c)'
<1>1. /\ pc[t] = "enforce" /\ pc'[t] = "libc" /\ UNCHANGED stats
      /\ call'[t] = [call[t] EXCEPT !.enforced = (call[t].wf # InvalidWorkflow)]
      /\ ledger' = IF call[t].wf # InvalidWorkflow
                   THEN [ledger EXCEPT ![call[t].h.class].submitted = Add(@, 1)]
                   ELSE ledger
  BY DEF enforce_request, TypeOK
<1>2. /\ t \notin OwedOperations(c)
      /\ t \notin OwedExecuted(c) /\ t \notin OwedExecuted(c)'
      /\ t \notin OwedFailed(c) /\ t \notin OwedFailed(c)'
  BY <1>1 DEF OwedOperations, OwedExecuted, OwedFailed
<1>3. call[t] \in CallType /\ call[t].h.libc # "sync"
  BY <1>1 DEF SyncsClaim, TypeOK
<1>4. call'[t].h = call[t].h /\ call'[t].enforced = (call[t].wf # InvalidWorkflow)
  BY <1>1, <1>3 DEF CallType
<1>5. CASE call[t].wf # InvalidWorkflow /\ call[t].h.class = c
  <2>1. t \in OwedOperations(c)'
    BY <1>1, <1>3, <1>4, <1>5 DEF OwedOperations
  <2>2. ledger'[c] = [ledger[c] EXCEPT !.submitted = Add(@, 1)]
    BY <1>1, <1>5 DEF TypeOK
  <2> QED
    BY <1>1, <1>2, <2>1, <2>2, CountSubmitted DEF Continue
<1>6. CASE ~(call[t].wf # InvalidWorkflow /\ call[t].h.class = c)
  <2>1. t \notin OwedOperations(c)'
    BY <1>1, <1>4, <1>6 DEF OwedOperations
  <2>2. ledger'[c] = ledger[c]
    BY <1>1, <1>6 DEF TypeOK
  <2> QED
    BY <1>1, <1>2, <2>1, <2>2, CountUnmoved DEF Continue
<1> QED
  BY <1>5, <1>6

LEMMA CountLibc ==
    ASSUME TypeOK, IsFiniteSet(Busy), SyncsClaim, NEW t \in Threads, Continue(t),
           NEW res, Executed(t, res), NEW c \in Classes, CountOK(c)
    PROVE  CountOK(c)'
<1>1. /\ pc[t] = "libc" /\ pc'[t] \in {"table", "stats"} /\ UNCHANGED stats
      /\ call'[t] = [call[t] EXCEPT !.res = res, !.wf = InvalidWorkflow]
  BY DEF Executed, TypeOK
<1>2. call[t] \in CallType
  BY DEF TypeOK
<1>3. call'[t].h = call[t].h /\ call'[t].enforced = call[t].enforced /\ call'[t].res = res
  BY <1>1, <1>2 DEF CallType
<1>4. /\ t \notin OwedExecuted(c)
      /\ t \notin OwedFailed(c)
  BY <1>1 DEF OwedExecuted, OwedFailed
<1>5. CASE call[t].h.class = c
  <2>1. t \in OwedExecuted(c)'
    BY <1>1, <1>3, <1>5 DEF OwedExecuted
  <2>2. PICK n \in {0, 1} : n = IF call[t].h.libc = "sync" THEN 1 ELSE 0
    OBVIOUS
  <2>3. PICK f \in {0, 1} : f = IF call[t].enforced /\ Failed(res) THEN 1 ELSE 0
    OBVIOUS
  <2>4. One(t \in OwedOperations(c)') - One(t \in OwedOperations(c)) = n
    <3>1. CASE call[t].h.libc = "sync"
      <4>1. call[t].enforced
        BY <1>1, <3>1 DEF SyncsClaim
      <4>2. t \in OwedOperations(c)' /\ t \notin OwedOperations(c)
        BY <1>1, <1>3, <1>5, <3>1, <4>1 DEF OwedOperations
      <4> QED
        BY <2>2, <3>1, <4>2 DEF One
    <3>2. CASE call[t].h.libc # "sync"
      <4>1. t \in OwedOperations(c)' <=> t \in OwedOperations(c)
        BY <1>1, <1>3, <1>5, <3>2 DEF OwedOperations
      <4> QED
        BY <2>2, <3>2, <4>1 DEF One
    <3> QED
      BY <3>1, <3>2
  <2>5. t \in OwedFailed(c)' <=> call[t].enforced /\ Failed(res)
    BY <1>3, <2>1 DEF OwedFailed
  <2>6. One(t \in OwedFailed(c)') - One(t \in OwedFailed(c)) = f
    BY <1>4, <2>3, <2>5 DEF One
  <2>7. ledger'[c] = [ledger[c] EXCEPT !.executed = Add(@, 1), !.synced = Add(@, n),
                                       !.failed = Add(@, f)]
    BY <1>5, <2>2, <2>3 DEF Executed, TypeOK
  <2> QED
    BY <1>1, <1>4, <2>1, <2>4, <2>6, <2>7, CountExecuted
<1>6. CASE call[t].h.class # c
  <2>1. /\ t \notin OwedOperations(c) /\ t \notin OwedOperations(c)'
        /\ t \notin OwedExecuted(c)' /\ t \notin OwedFailed(c)'
    BY <1>3, <1>6 DEF OwedOperations, OwedExecuted, OwedFailed
  <2>2. ledger'[c] = ledger[c]
    BY <1>6 DEF Executed, TypeOK
  <2> QED
    BY <1>1, <1>4, <2>1, <2>2, CountUnmoved
<1> QED
  BY <1>5, <1>6

LEMMA CountTable ==
    ASSUME TypeOK, IsFiniteSet(Busy), NEW t \in Threads, UpdateTable(t),
           NEW c \in Classes, CountOK(c)
    PROVE  CountOK(c)'
<1>1. /\ pc[t] = "table" /\ pc'[t] = "stats" /\ UNCHANGED <<call, stats, ledger>>
  BY DEF UpdateTable, TypeOK
<1>2. /\ t \in OwedOperations(c)' <=> t \in OwedOperations(c)
      /\ t \in OwedExecuted(c)' <=> t \in OwedExecuted(c)
      /\ t \in OwedFailed(c)' <=> t \in OwedFailed(c)
  BY <1>1 DEF OwedOperations, OwedExecuted, OwedFailed
<1> QED
  BY <1>1, <1>2, CountUnmoved DEF Continue

LEMMA CountStats ==
    ASSUME TypeOK, IsFiniteSet(Busy), Collect, NEW t \in Threads, update_statistics(t),
           NEW c \in Classes, CountOK(c)
    PROVE  CountOK(c)'
<1>1. /\ pc[t] = "stats" /\ pc'[t] = "idle" /\ UNCHANGED ledger
      /\ stats' = [stats EXCEPT ![call[t].h.class] =
                update_statistic_entry(@, call[t].enforced, Failed(call[t].res))]
  BY DEF update_statistics, TypeOK
<1>2. /\ t \notin OwedOperations(c)' /\ t \notin OwedExecuted(c)'
      /\ t \notin OwedFailed(c)'
  BY <1>1 DEF OwedOperations, OwedExecuted, OwedFailed
<1>3. CASE call[t].h.class = c
  <2>1. t \in OwedExecuted(c)
    BY <1>1, <1>3 DEF OwedExecuted
  <2>2. PICK n \in {0, 1} : n = IF call[t].enforced THEN 1 ELSE 0
    OBVIOUS
  <2>3. PICK f \in {0, 1} : f = IF call[t].enforced /\ Failed(call[t].res) THEN 1 ELSE 0
    OBVIOUS
  <2>4. /\ t \in OwedOperations(c) <=> call[t].enforced
        /\ t \in OwedFailed(c) <=> call[t].enforced /\ Failed(call[t].res)
    BY <1>1, <1>3, <2>1 DEF OwedOperations, OwedFailed
  <2>5. One(t \in OwedOperations(c)) - One(t \in OwedOperations(c)') = n
    BY <1>2, <2>2, <2>4 DEF One
  <2>6. One(t \in OwedFailed(c)) - One(t \in OwedFailed(c)') = f
    BY <1>2, <2>3, <2>4 DEF One
  <2>7. /\ stats[c] \in StatsType
        /\ stats'[c] = update_statistic_entry(stats[c], call[t].enforced,
                                              Failed(call[t].res))
    BY <1>1, <1>3 DEF TypeOK
  <2>8. /\ stats'[c].operations = IF n = 1 THEN Add(stats[c].operations, 1)
                                  ELSE stats[c].operations
        /\ stats'[c].bypassed = IF n = 1 THEN stats[c].bypassed
                                ELSE Add(stats[c].bypassed, 1)
        /\ stats'[c].errors = IF f = 1 THEN Add(stats[c].errors, 1) ELSE stats[c].errors
    <3>1. CASE call[t].enforced /\ ~Failed(call[t].res)
      <4>1. stats'[c] = [stats[c] EXCEPT !.operations = Add(@, 1)] /\ n = 1 /\ f = 0
        BY <2>2, <2>3, <2>7, <3>1 DEF update_statistic_entry
      <4> QED
        BY <2>7, <4>1 DEF StatsType
    <3>2. CASE call[t].enforced /\ Failed(call[t].res)
      <4>1. /\ stats'[c] = [stats[c] EXCEPT !.operations = Add(@, 1), !.errors = Add(@, 1)]
            /\ n = 1 /\ f = 1
        BY <2>2, <2>3, <2>7, <3>2 DEF update_statistic_entry
      <4> QED
        BY <2>7, <4>1 DEF StatsType
    <3>3. CASE ~call[t].enforced
      <4>1. stats'[c] = [stats[c] EXCEPT !.bypassed = Add(@, 1)] /\ n = 0 /\ f = 0
        BY <2>2, <2>3, <2>7, <3>3 DEF update_statistic_entry
      <4> QED
        BY <2>7, <4>1 DEF StatsType
    <3> QED
      BY <3>1, <3>2, <3>3
  <2>9. Begin(t) \/ Continue(t)
    BY DEF Continue
  <2> QED
    BY <1>1, <1>2, <2>1, <2>5, <2>6, <2>8, <2>9, CountPaid
<1>4. CASE call[t].h.class # c
  <2>1. /\ t \notin OwedOperations(c) /\ t \notin OwedExecuted(c)
        /\ t \notin OwedFailed(c)
    BY <1>4 DEF OwedOperations, OwedExecuted, OwedFailed
  <2>2. stats'[c] = stats[c]
    BY <1>1, <1>4 DEF TypeOK
  <2> QED
    BY <1>1, <1>2, <2>1, <2>2, CountUnmoved DEF Continue
<1> QED
  BY <1>3, <1>4

LEMMA CountContinue ==
    ASSUME TypeOK, IsFiniteSet(Busy), SyncsClaim, Collect, NEW t \in Threads, Continue(t),
           NEW c \in Classes, CountOK(c)
    PROVE  CountOK(c)'
<1>1. ASSUME LibcIo(t) \/ LibcAllocate(t) \/ LibcAllocateFails(t) \/ LibcClose(t)
      PROVE  \E res : Executed(t, res)
  BY <1>1 DEF LibcIo, LibcAllocate, LibcAllocateFails, LibcClose
<1> QED
  BY <1>1, CountUse, CountEnforce, CountLibc, CountTable, CountStats DEF Continue

LEMMA SyncsStep ==
    ASSUME TypeOK, SyncsClaim, NEW t \in Threads, Begin(t) \/ Continue(t)
    PROVE  SyncsClaim'
<1>1. ASSUME NEW u \in Threads, u # t, call'[u].h.libc = "sync"
      PROVE  pc'[u] \notin {"use", "enforce"} /\ (pc'[u] = "libc" => call'[u].enforced)
  BY <1>1, OthersKeepCalls DEF SyncsClaim
<1>2. ASSUME Begin(t), call'[t].h.libc = "sync"
      PROVE  pc'[t] \notin {"use", "enforce"} /\ (pc'[t] = "libc" => call'[t].enforced)
  <2>1. PICK h \in Handlers : \/ \E p \in Paths : CallOnPath(t, h, p)
                              \/ \E k \in Handles : CallOnKey(t, h, k)
                              \/ \E k \in Handles : CallUnpicked(t, h, k)
    BY <1>2 DEF Begin
  <2>s. ASSUME NEW step, NEW u, Start(t, step, u)
        PROVE  pc[t] = "idle" /\ pc'[t] = step /\ call'[t] = u
    BY <2>s DEF Start, TypeOK
  <2>h. h.libc = "sync" => h.pick = "none"
    BY HandlersAssumption
  <2>2. CASE \E p \in Paths : CallOnPath(t, h, p)
    <3>1. call'[t].h = h /\ h.pick = "path"
      BY <2>2, <2>s DEF CallOnPath, Call
    <3> QED
      BY <1>2, <2>h, <3>1
  <2>3. CASE \E k \in Handles : CallOnKey(t, h, k)
    <3>1. call'[t].h = h /\ h.pick # "none"
      BY <2>3, <2>s DEF CallOnKey, Call
    <3> QED
      BY <1>2, <2>h, <3>1
  <2>4. CASE \E k \in Handles : CallUnpicked(t, h, k)
    <3>1. PICK k \in Handles : CallUnpicked(t, h, k)
      BY <2>4
    <3>2. /\ pc'[t] = "libc"
          /\ call'[t] = Call(h, k, "kNone", NoEntry, InvalidWorkflow, h.libc = "sync")
      BY <3>1, <2>s DEF CallUnpicked
    <3>3. call'[t].h = h /\ call'[t].enforced = (h.libc = "sync")
      BY <3>2 DEF Call
    <3> QED
      BY <1>2, <3>2, <3>3
  <2> QED
    BY <2>1, <2>2, <2>3, <2>4
<1>3. ASSUME Continue(t), call'[t].h.libc = "sync"
      PROVE  pc'[t] \notin {"use", "enforce"} /\ (pc'[t] = "libc" => call'[t].enforced)
  <2>1. CASE pc[t] \in {"use", "enforce"}
    <3>1. UseEntry(t) \/ enforce_request(t)
      BY <1>3, <2>1 DEF Continue, LibcIo, LibcAllocate, LibcAllocateFails, LibcClose,
         Executed, UpdateTable, update_statistics
    <3>2. call[t] \in CallType
      BY DEF TypeOK
    <3>3. ASSUME UseEntry(t) PROVE call'[t].h = call[t].h
      <4>1. PICK wf : call' = [call EXCEPT ![t].wf = wf, ![t].ptr = NoEntry]
        BY <3>3 DEF UseEntry
      <4> QED
        BY <3>2, <4>1 DEF TypeOK, CallType
    <3>4. ASSUME enforce_request(t) PROVE call'[t].h = call[t].h
      BY <3>2, <3>4 DEF enforce_request, TypeOK, CallType
    <3>5. call'[t].h = call[t].h
      BY <3>1, <3>3, <3>4
    <3> QED
      BY <1>3, <2>1, <3>5 DEF SyncsClaim
  <2>2. CASE pc[t] \notin {"use", "enforce"}
    <3>1. pc'[t] \in {"table", "stats", "idle"}
      BY <1>3, <2>2 DEF Continue, UseEntry, enforce_request, LibcIo, LibcAllocate,
         LibcAllocateFails, LibcClose, Executed, UpdateTable, update_statistics, TypeOK
    <3> QED
      BY <3>1
  <2> QED
    BY <2>1, <2>2
<1> QED
  BY <1>1, <1>2, <1>3 DEF SyncsClaim

LEMMA CountsInit == Init => CountsInv
<1> SUFFICES ASSUME Init PROVE CountsInv
  OBVIOUS
<1>1. TypeOK
  BY TypeInit
<1>2. Busy = {} /\ IsFiniteSet(Busy)
  BY FS_EmptySet DEF Init, Busy
<1>3. SyncsClaim
  BY DEF Init, SyncsClaim, NoCall, Call, Handler
<1>4. ASSUME NEW c \in Classes
      PROVE  CountOK(c)
  <2>1. OwedOperations(c) = {} /\ OwedExecuted(c) = {} /\ OwedFailed(c) = {}
    BY DEF Init, OwedOperations, OwedExecuted, OwedFailed
  <2>2. Cardinality({}) = 0
    BY FS_EmptySet
  <2>3. /\ stats[c].operations = 0 /\ stats[c].bypassed = 0 /\ stats[c].errors = 0
        /\ ledger[c].submitted = 0 /\ ledger[c].synced = 0
        /\ ledger[c].executed = 0 /\ ledger[c].failed = 0
    BY DEF Init
  <2>4. Congruent(0, 0) /\ 0 + 0 = 0
    BY CongruentSame
  <2> QED
    BY <2>1, <2>2, <2>3, <2>4 DEF CountOK
<1> QED
  BY <1>1, <1>2, <1>3, <1>4 DEF CountsInv

LEMMA CountsStep == CountsInv /\ [Next]_vars => CountsInv'
<1> SUFFICES ASSUME CountsInv, [Next]_vars PROVE CountsInv'
  OBVIOUS
<1>1. TypeOK /\ IsFiniteSet(Busy) /\ SyncsClaim
  BY DEF CountsInv
<1>2. TypeOK'
  BY <1>1, TypeUnhandled, TypeBegin, TypeContinue, TypeStutter DEF Next
<1>3. CASE UNCHANGED <<pc, call, stats, ledger>>
  <2>1. Busy' = Busy
    BY <1>3 DEF Busy
  <2>2. SyncsClaim'
    BY <1>1, <1>3 DEF SyncsClaim
  <2>3. ASSUME NEW c \in Classes, CountOK(c)
        PROVE  CountOK(c)'
    <3>1. /\ OwedOperations(c)' = OwedOperations(c) /\ OwedExecuted(c)' = OwedExecuted(c)
          /\ OwedFailed(c)' = OwedFailed(c)
      BY <1>3 DEF OwedOperations, OwedExecuted, OwedFailed
    <3> QED
      BY <1>3, <2>3, <3>1 DEF CountOK
  <2> QED
    BY <1>1, <1>2, <2>1, <2>2, <2>3 DEF CountsInv
<1>4. ASSUME NEW t \in Threads, Begin(t) \/ Continue(t)
      PROVE  CountsInv'
  <2>1. IsFiniteSet(Busy')
    BY <1>1, <1>4, DebtsMove
  <2>2. SyncsClaim'
    BY <1>1, <1>4, SyncsStep
  <2>3. ASSUME Collect, NEW c \in Classes
        PROVE  CountOK(c)'
    <3>1. CountOK(c)
      BY <2>3 DEF CountsInv
    <3> QED
      BY <1>1, <1>4, <2>3, <3>1, CountBegin, CountContinue
  <2> QED
    BY <1>2, <2>1, <2>2, <2>3 DEF CountsInv
<1>5. CASE \E k \in Keys : UnhandledOpen(k) \/ UnhandledClose(k)
  BY <1>3, <1>5 DEF UnhandledOpen, UnhandledClose, callVars
<1>6. CASE UNCHANGED vars
  BY <1>3, <1>6 DEF vars
<1> QED
  BY <1>4, <1>5, <1>6 DEF Next

\* Nothing is owed in a class none of whose handlers is running.
LEMMA SettledCounts ==
    ASSUME CountsInv, Collect, NEW c \in Classes,
           \A t \in Threads : pc[t] # "idle" => call[t].h.class # c
    PROVE  /\ stats[c].operations = Add(ledger[c].submitted, ledger[c].synced)
           /\ Add(stats[c].operations, stats[c].bypassed) = ledger[c].executed
           /\ stats[c].errors = ledger[c].failed
<1>1. OwedOperations(c) = {} /\ OwedExecuted(c) = {} /\ OwedFailed(c) = {}
  BY DEF OwedOperations, OwedExecuted, OwedFailed
<1>2. Cardinality({}) = 0
  BY FS_EmptySet
<1>3. PICK op \in Counter, by \in Counter, er \in Counter :
        op = stats[c].operations /\ by = stats[c].bypassed /\ er = stats[c].errors
  BY DEF CountsInv, TypeOK, StatsType
<1>4. PICK sub \in Counter, syn \in Counter, ex \in Counter, fa \in Counter :
        /\ sub = ledger[c].submitted /\ syn = ledger[c].synced
        /\ ex = ledger[c].executed /\ fa = ledger[c].failed
  BY DEF CountsInv, TypeOK, LedgerType
<1>5. /\ Congruent(op + 0, sub + syn) /\ Congruent(op + by + 0, ex)
      /\ Congruent(er + 0, fa)
  BY <1>1, <1>2, <1>3, <1>4 DEF CountsInv, CountOK
<1>6. /\ op \in Int /\ by \in Int /\ er \in Int /\ sub \in Int /\ syn \in Int
      /\ ex \in Int /\ fa \in Int
      /\ sub + syn \in Int /\ op + by \in Int
      /\ op + 0 = op /\ op + by + 0 = op + by /\ er + 0 = er
  BY DEF Counter
<1>7. Add(sub, syn) \in Counter /\ Add(op, by) \in Counter
  BY <1>6, OptionsAssumption DEF Add, Counter
<1>8. \A a, b \in Int, k \in {0} : Congruent(Add(a, b) + k, a + b + k)
  BY CongruentAdd
<1>9. \A a, b \in Int : Add(a, b) \in Int => Congruent(Add(a, b), a + b)
  BY <1>8
<1>10. Add(sub, syn) \in Int /\ Add(op, by) \in Int
  BY <1>7 DEF Counter
<1>11. \A a, b \in Int : Congruent(a, b) => Congruent(b, a)
  <2> SUFFICES ASSUME NEW a \in Int, NEW b \in Int, Congruent(a, b) PROVE Congruent(b, a)
    OBVIOUS
  <2>1. PICK q \in Int : a - b = q * CounterModulus
    BY CongruentIs
  <2>2. b - a = (-q) * CounterModulus /\ -q \in Int
    BY <2>1, Multiples
  <2> QED
    BY <2>2, CongruentIs
<1>12. Congruent(op, Add(sub, syn))
  BY <1>5, <1>6, <1>9, <1>10, <1>11, Through
<1>13. Congruent(Add(op, by), ex)
  BY <1>5, <1>6, <1>9, <1>10, Through
<1>14. op = Add(sub, syn) /\ Add(op, by) = ex /\ er = fa
  BY <1>5, <1>6, <1>7, <1>12, <1>13, CongruentCounters
<1> QED
  BY <1>3, <1>4, <1>14

--------------------------------------------------------------------------------
(* The theorems.                                                           *)

LEMMA IInvInit == Init => IInv
<1> SUFFICES ASSUME Init PROVE IInv
  OBVIOUS
<1>1. EntryOwnership
  BY TableAssumption DEF Init, TableInit, EntryOwnership
<1>2. \A k \in Keys : ~Tracked(k)
  BY DEF Init, Tracked
<1>3. \A t \in Threads : pc[t] = "idle" /\ call[t].h.pick = "none"
  BY DEF Init, NoCall, Call, Handler
<1>4. HeldFilesRegistered
  BY <1>2, TypeInit DEF HeldFilesRegistered, TypeOK
<1>5. MadeRegistered /\ PickFollowsFile /\ DecisionFollowsFile
  BY <1>3 DEF MadeRegistered, Made, PickFollowsFile, TrackedCall, DecisionFollowsFile
<1> QED
  BY <1>1, <1>4, <1>5, TypeInit, HandleInit, StepInit, PicksInit, ClosedInit DEF IInv

LEMMA IInvStep ==
    ASSUME IInv, [Next]_vars, Disciplined, ~HardRemove
    PROVE  IInv'
<1>1. TypeOK'
  BY TypeBegin, TypeContinue, TypeUnhandled, TypeStutter DEF Next, IInv
<1>2. EntryOwnership'
  BY OwnershipStep DEF IInv
<1>3. StepOK' /\ PicksOK' /\ HandleOwnership' /\ ClosedUnknown'
  BY StepStep, PicksStep, HandleStep, ClosedStep DEF IInv
<1>4. Stepping
  BY <1>1, <1>3 DEF Stepping
<1> QED
  BY <1>1, <1>2, <1>3, <1>4, HeldStep, MadeStep, PickStep DEF IInv

\* With lazy removal and an application that respects the ownership of its
\* descriptors, the handles, the calls in progress and the tables agree in every
\* reachable state.
THEOREM InvariantCorrect ==
    ASSUME Disciplined, ~HardRemove
    PROVE  Spec => []IInv
<1>1. IInv /\ [Next]_vars => IInv'
  BY IInvStep
<1> QED
  BY IInvInit, <1>1, PTL DEF Spec

\* Under the same assumptions, every descriptor the application got from open,
\* creat or openat is registered on the mount point of its file as long as it
\* holds it: the entries lazy removal leaves behind never shadow a reused number.
THEOREM HeldFilesRegisteredCorrect ==
    ASSUME Disciplined, ~HardRemove
    PROVE  Spec => []HeldFilesRegistered
<1>1. IInv => HeldFilesRegistered
  BY DEF IInv
<1> QED
  BY InvariantCorrect, <1>1, PTL

\* Under the same assumptions, a call on such a descriptor reaches libc enforced
\* exactly if the mount point of its file has workflows, whatever other threads do
\* between the pick, the enforcement and the call.
THEOREM DecisionFollowsFileCorrect ==
    ASSUME Disciplined, ~HardRemove
    PROVE  Spec => []DecisionFollowsFile
<1>1. IInv => DecisionFollowsFile
  BY DEF IInv
<1> QED
  BY InvariantCorrect, <1>1, PTL

\* Under no assumption on the application or the options: a request that was
\* enforced named a registered workflow, although the handler read it through a
\* pointer to an entry that may have been destroyed, or replaced, meanwhile.
THEOREM OnlyRegisteredWorkflowsCorrect == Spec => []OnlyRegisteredWorkflows
<1>1. TypeOK /\ TypeOK' /\ PicksOK /\ [Next]_vars => PicksOK'
  BY PicksStep
<1>2. PicksOK => OnlyRegisteredWorkflows
  BY DEF PicksOK, OnlyRegisteredWorkflows, KnownWorkflows
<1> QED
  BY PicksInit, TypeCorrect, <1>1, <1>2, PTL DEF Spec

\* With either kind of removal, if the application respects the ownership of its
\* descriptors and closes its handles through PADLL, an entry of a closed handle is
\* one that lazy removal leaves behind or one that a handler is about to remove.
THEOREM ClosedInvCorrect ==
    ASSUME Disciplined, "close" \notin Unhandled
    PROVE  Spec => []ClosedInv
<1>1. Init => ClosedInv
  BY TypeInit, HandleInit, StepInit, JustifiedInit DEF ClosedInv
<1>2. TypeOK /\ TypeOK' /\ ClosedInv /\ [Next]_vars => ClosedInv'
  BY HandleStep, StepStep, JustifiedStep DEF ClosedInv
<1> QED
  BY <1>1, <1>2, TypeCorrect, PTL DEF Spec

\* So where closing removes entries, the table has forgotten a closed handle once no
\* call works on it any more, however closes and reuses of its number interleave.
THEOREM ClosedHandlesForgottenCorrect ==
    ASSUME Disciplined, "close" \notin Unhandled
    PROVE  Spec => []ClosedHandlesForgotten
<1>1. ClosedInv => ClosedHandlesForgotten
  BY DEF ClosedInv, EntriesJustified, ClosedHandlesForgotten, Removing, Concerns
<1> QED
  BY ClosedInvCorrect, <1>1, PTL

\* CountsInv is an inductive invariant: at every moment the counters of a class and
\* what the handlers in progress still owe them add up to what really happened,
\* modulo the width of the counters.
THEOREM CountsInvCorrect == Spec => []CountsInv
<1>1. Init => CountsInv
  BY CountsInit
<1>2. CountsInv /\ [Next]_vars => CountsInv'
  BY CountsStep
<1> QED
  BY <1>1, <1>2, PTL DEF Spec

\* However many threads count in a class, and however their calls interleave, fail
\* or wrap the counters around, every call is counted once and in the right column.
THEOREM CallsCountedOnceCorrect == Spec => []CallsCountedOnce
<1>1. CountsInv => CallsCountedOnce
  BY SettledCounts DEF CallsCountedOnce
<1> QED
  BY <1>1, CountsInvCorrect, PTL

================================================================================
