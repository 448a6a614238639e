-------------------------- MODULE ThrottledFilesProofs -------------------------
(***************************************************************************)
(* LdPreloadedPosix implements ThrottledFiles, for any number of threads,  *)
(* descriptors, streams, paths and workflows: IInv makes each of its steps *)
(* a step of the promise or a stutter.                                     *)
(***************************************************************************)
EXTENDS ThrottledFilesRefinement, LdPreloadedPosixInvProofs

Behind == [k \in Keys |-> MountBehind(k)]

ThrottledMounts == {mp \in MountPoints : pick_workflow_id(mp) # {InvalidWorkflow}}

LEMMA OthersKeepPromise ==
    ASSUME TypeOK, NEW t \in Threads, Begin(t) \/ Continue(t)
    PROVE  \A u \in Threads : u # t => PhaseOf(u)' = PhaseOf(u) /\ SubjectOf(u)' = SubjectOf(u)
BY OthersKeepCalls DEF PhaseOf, SubjectOf

\* The functions of the promise, from their values.
LEMMA PhaseUpdate ==
    ASSUME TypeOK, NEW t \in Threads, Begin(t) \/ Continue(t)
    PROVE  [u \in Threads |-> PhaseOf(u)]' =
           [[u \in Threads |-> PhaseOf(u)] EXCEPT ![t] = PhaseOf(t)']
BY OthersKeepPromise

LEMMA SubjectUpdate ==
    ASSUME TypeOK, NEW t \in Threads, Begin(t) \/ Continue(t)
    PROVE  [u \in Threads |-> SubjectOf(u)]' =
           [[u \in Threads |-> SubjectOf(u)] EXCEPT ![t] = SubjectOf(t)']
BY OthersKeepPromise

\* Within a call its subject is fixed.
LEMMA SubjectStays ==
    ASSUME TypeOK, NEW t \in Threads, Begin(t) \/ Continue(t), SameCall(t),
           pc[t] # "idle", pc'[t] # "idle"
    PROVE  UNCHANGED [u \in Threads |-> SubjectOf(u)]
<1>1. SubjectOf(t)' = SubjectOf(t)
  BY DEF SubjectOf, SameCall
<1> QED
  BY <1>1, OthersKeepPromise

LEMMA BehindForgets ==
    ASSUME NEW gone, \A k \in Keys : MountBehind(k)' = IF k \in gone THEN Foreign ELSE MountBehind(k)
    PROVE  Behind' = Promise!Forget(gone)
BY DEF Behind, Promise!Forget

LEMMA BehindStays ==
    ASSUME UNCHANGED <<held, file, shared>>
    PROVE  Behind' = Behind /\ Behind' = Promise!Forget({})
<1>1. \A k \in Keys : MountBehind(k)' = MountBehind(k)
  BY DEF MountBehind, Tracked
<1> QED
  BY <1>1 DEF Behind, Promise!Forget

--------------------------------------------------------------------------------
(* The steps of a call.                                                    *)

\* What a call is about, in the terms of the promise.
LEMMA SubjectIs ==
    ASSUME TypeOK, StepOK, NEW t \in Threads
    PROVE  /\ pc[t] = "idle" => SubjectOf(t) = <<"none", Foreign>>
           /\ pc[t] # "idle" /\ call[t].h.pick = "path" =>
                SubjectOf(t) = <<"path", call[t].mp>> /\ call[t].mp \in MountPoints
           /\ pc[t] # "idle" /\ OnDescriptor(call[t].h) =>
                SubjectOf(t) = <<"handle", call[t].key>> /\ call[t].key \in Keys
           /\ call[t].h.pick # "path" /\ ~OnDescriptor(call[t].h) =>
                SubjectOf(t) = <<"none", Foreign>>
           /\ SubjectOf(t) \in Promise!Subjects
<1>1. call[t] \in CallType
  BY DEF TypeOK
<1>2. pc[t] # "idle" => ~(call[t].h.pick = "path" /\ OnDescriptor(call[t].h))
  BY HandlersAssumption DEF StepOK, OnDescriptor
<1>3. CASE pc[t] # "idle" /\ OnDescriptor(call[t].h)
  <2>1. SubjectOf(t) = <<"handle", call[t].key>> /\ call[t].h.pick # "path"
    BY <1>2, <1>3 DEF SubjectOf, OnDescriptor
  <2>2. call[t].key \in Keys
    BY <1>1, <1>3 DEF StepOK, CallType, Handles
  <2> QED
    BY <1>3, <2>1, <2>2 DEF Promise!Subjects
<1>4. CASE pc[t] # "idle" /\ call[t].h.pick = "path"
  <2>1. SubjectOf(t) = <<"path", call[t].mp>> /\ ~OnDescriptor(call[t].h)
    BY <1>2, <1>4 DEF SubjectOf, OnDescriptor
  <2>2. call[t].mp \in MountPoints
    BY <1>1 DEF CallType
  <2> QED
    BY <1>4, <2>1, <2>2 DEF Promise!Subjects
<1>5. CASE pc[t] = "idle" \/ (call[t].h.pick # "path" /\ ~OnDescriptor(call[t].h))
  <2>1. SubjectOf(t) = <<"none", Foreign>>
    BY <1>5 DEF SubjectOf, OnDescriptor
  <2> QED
    BY <1>5, <2>1 DEF Promise!Subjects
<1> QED
  BY <1>3, <1>4, <1>5

SubjectsTyped == \A t \in Threads : SubjectOf(t) \in Promise!Subjects

LEMMA SubjectsAre == TypeOK /\ StepOK => SubjectsTyped
BY SubjectIs DEF SubjectsTyped

LEMMA BeginKeeps ==
    ASSUME IInv, IInv', NEW t \in Threads, Begin(t)
    PROVE  Promise!Next
<1>0. TypeOK /\ StepOK /\ TypeOK' /\ StepOK' /\ Disciplined
  BY RefinementAssumption DEF IInv
<1>1. /\ pc[t] = "idle" /\ UNCHANGED <<open, file, shared>>
      /\ pc'[t] \in {"enforce", "use", "libc"}
  BY <1>0, BeginEffect
<1>2. PhaseOf(t) = "idle" /\ PhaseOf(t)' \in {"deciding", "bypassed"}
  <2>1. CASE pc'[t] \in {"use", "enforce"}
    BY <1>0, <1>1, <2>1 DEF PhaseOf
  <2>2. CASE pc'[t] = "libc"
    <3>1. PICK h \in Handlers, k \in Handles : CallUnpicked(t, h, k)
      BY <2>2, <1>0, <1>1 DEF Begin, CallOnPath, CallOnKey, Start, TypeOK
    <3>2. call'[t].h = h /\ call'[t].enforced = (h.libc = "sync")
      BY <3>1, <1>0 DEF CallUnpicked, Start, Call, TypeOK
    <3> QED
      BY <1>1, <2>2, <3>2 DEF PhaseOf
  <2> QED
    BY <1>1, <2>1, <2>2
<1>3. SubjectOf(t)' \in Promise!Subjects
  <2>1. TypeOK' /\ StepOK' => SubjectsTyped'
    BY SubjectsAre, PTL
  <2> QED
    BY <1>0, <2>1 DEF SubjectsTyped
<1>4. PICK given \in {{}} \cup {{k} : k \in held} :
        /\ held' = held \ given
        /\ Behind' = Promise!Forget(given)
  <2>1. CASE held' = held
    BY <1>1, <2>1, BehindStays
  <2>2. CASE held' # held
    <3>1. call'[t].key \in held /\ held' = held \ {call'[t].key}
      BY <1>0, <2>2, BeginEffect, HandlersAssumption DEF Closers
    <3>2. \A k \in Keys : MountBehind(k)' =
            IF k \in {call'[t].key} THEN Foreign ELSE MountBehind(k)
      BY <1>1, <3>1 DEF MountBehind, Tracked
    <3>3. Behind' = Promise!Forget({call'[t].key})
      BY <3>2, BehindForgets
    <3> QED
      BY <3>1, <3>3
  <2> QED
    BY <2>1, <2>2
<1>5. Promise!Begin(t, SubjectOf(t)')
  BY <1>0, <1>2, <1>4, PhaseUpdate, SubjectUpdate DEF Promise!Begin, Behind, Promise!Forget
<1> QED
  BY <1>3, <1>5 DEF Promise!Next

\* Picking a workflow and updating the table are invisible.
LEMMA InvisibleSteps ==
    ASSUME IInv, NEW t \in Threads, UseEntry(t) \/ UpdateTable(t)
    PROVE  UNCHANGED Promise!vars
<1>0. TypeOK /\ Continue(t)
  BY DEF IInv, Continue
<1>1. /\ SameCall(t) /\ UNCHANGED <<held, file, shared>>
      /\ pc[t] # "idle" /\ pc'[t] # "idle"
  BY <1>0, UseEffect, TableEffect DEF SameCall
<1>2. PhaseOf(t)' = PhaseOf(t)
  BY <1>0, UseEffect, TableEffect DEF PhaseOf
<1>3. UNCHANGED [u \in Threads |-> PhaseOf(u)]
  BY <1>0, <1>2, OthersKeepPromise
<1>4. UNCHANGED <<held, Behind, [u \in Threads |-> SubjectOf(u)]>>
  BY <1>0, <1>1, SubjectStays, BehindStays
<1> QED
  BY <1>3, <1>4 DEF Promise!vars, Behind

\* The promise itself: what is enforced follows from the mount point.
LEMMA EnforceKeeps ==
    ASSUME IInv, NEW t \in Threads, enforce_request(t)
    PROVE  Promise!Next
<1> DEFINE c == call[t]
           m == Promise!MountOf(SubjectOf(t))
<1>0. TypeOK /\ StepOK /\ PicksOK /\ Continue(t)
  BY DEF IInv, Continue
<1>1. /\ pc[t] = "enforce" /\ pc'[t] = "libc" /\ SameCall(t)
      /\ call'[t].enforced = (c.wf # InvalidWorkflow)
      /\ UNCHANGED <<held, file, shared>>
  BY <1>0, EnforceEffect
<1>2. c.h \in Handlers /\ c.h.pick # "none"
  BY <1>0, <1>1 DEF StepOK, PicksOK
<1>3. c.h.libc # "sync" /\ c.h.libc # "dup"
  BY <1>2, HandlersAssumption
<1>4. /\ c.wf # InvalidWorkflow => m \in ThrottledMounts \cup {Foreign}
      /\ c.wf = InvalidWorkflow => m \notin ThrottledMounts
  <2>1. CASE c.h.pick = "path"
    <3>1. m = c.mp /\ c.mp \in MountPoints
      BY <1>0, <1>1, <2>1, SubjectIs DEF Promise!MountOf
    <3>2. c.wf \in pick_workflow_id(c.mp)
      BY <1>0, <1>1, <2>1 DEF PicksOK
    <3> QED
      BY <3>1, <3>2, PickIsUniform DEF ThrottledMounts
  <2>2. CASE OnDescriptor(c.h)
    <3>1. m = MountBehind(c.key) /\ c.key \in Keys
      BY <1>0, <1>1, <2>2, SubjectIs DEF Promise!MountOf
    <3>2. CASE c.key \in held /\ Tracked(c.key)
      <4>1. TrackedCall(t)
        BY <1>3, <2>2, <3>2 DEF TrackedCall, OnDescriptor
      <4>2. c.wf \in pick_workflow_id(file[c.key])
        BY <1>1, <4>1 DEF IInv, PickFollowsFile
      <4>3. m = file[c.key] /\ file[c.key] \in MountPoints
        BY <1>0, <3>1, <3>2 DEF MountBehind, Tracked, TypeOK
      <4> QED
        BY <4>2, <4>3, PickIsUniform DEF ThrottledMounts
    <3>3. CASE ~(c.key \in held /\ Tracked(c.key))
      BY <3>1, <3>3, OptionsAssumption DEF MountBehind, ThrottledMounts
    <3> QED
      BY <3>2, <3>3
  <2>3. CASE c.h.pick # "path" /\ ~OnDescriptor(c.h)
    <3>1. m = Foreign
      BY <1>0, <2>3, SubjectIs DEF Promise!MountOf
    <3> QED
      BY <3>1, OptionsAssumption DEF ThrottledMounts
  <2> QED
    BY <2>1, <2>2, <2>3
<1>5. /\ PhaseOf(t) = "deciding"
      /\ PhaseOf(t)' = IF c.wf # InvalidWorkflow THEN "admitted" ELSE "bypassed"
  BY <1>1, <1>3 DEF PhaseOf, SameCall
<1>6. UNCHANGED <<held, Behind, [u \in Threads |-> SubjectOf(u)]>>
  BY <1>0, <1>1, SubjectStays, BehindStays
<1>7. Promise!Decide(t)
  <2> HIDE DEF m
  <2>1. m = Promise!MountOf(SubjectOf(t))
    BY DEF m
  <2> QED
    BY <1>0, <1>4, <1>5, <1>6, <2>1, PhaseUpdate DEF Promise!Decide, Behind, ThrottledMounts
<1> QED
  BY <1>7 DEF Promise!Next

\* The libc call is Execute; a duplicated handle is vouched for no longer.
LEMMA ExecutedPhase ==
    ASSUME TypeOK, NEW t \in Threads, NEW res, Executed(t, res)
    PROVE  PhaseOf(t) \in {"admitted", "bypassed"} /\ PhaseOf(t)' = "executed"
<1>1. pc[t] = "libc" /\ pc'[t] \in {"table", "stats"}
  BY ExecutedEffect
<1> QED
  BY <1>1 DEF PhaseOf

LEMMA LibcKeeps ==
    ASSUME IInv, NEW t \in Threads,
           LibcIo(t) \/ LibcAllocate(t) \/ LibcAllocateFails(t) \/ LibcClose(t)
    PROVE  Promise!Next
<1>0. TypeOK /\ StepOK /\ HandleOwnership /\ Continue(t)
  BY DEF IInv, Continue
<1>1. PICK res : Executed(t, res)
  BY DEF LibcIo, LibcAllocate, LibcAllocateFails, LibcClose
<1>2. /\ pc[t] = "libc" /\ SameCall(t) /\ pc'[t] # "idle"
      /\ PhaseOf(t) \in {"admitted", "bypassed"} /\ PhaseOf(t)' = "executed"
  BY <1>0, <1>1, ExecutedEffect, ExecutedPhase
<1>3. UNCHANGED <<held, [u \in Threads |-> SubjectOf(u)]>>
  BY <1>0, <1>2, SubjectStays DEF LibcIo, LibcAllocate, LibcAllocateFails, LibcClose, osVars
<1>4. PICK gone \in {{}, {k \in Keys : SubjectOf(t) = <<"handle", k>>}} :
        Behind' = Promise!Forget(gone)
  <2>1. CASE LibcIo(t) \/ LibcAllocateFails(t)
    BY <2>1, BehindStays DEF LibcIo, LibcAllocateFails, osVars
  <2>2. CASE LibcClose(t)
    <3>1. Closing(t)
      BY <1>2, <2>2 DEF LibcClose, Closing
    <3>2. call[t].key \notin held
      BY <1>0, <3>1 DEF HandleOwnership
    <3>3. \A k \in Keys : k # call[t].key =>
            file'[k] = file[k] /\ (k \in shared' <=> k \in shared)
      BY <2>2 DEF LibcClose
    <3>4. \A k \in Keys : MountBehind(k)' = IF k \in {} THEN Foreign ELSE MountBehind(k)
      BY <1>3, <3>2, <3>3 DEF MountBehind, Tracked
    <3> QED
      BY <3>4, BehindForgets
  <2>3. CASE LibcAllocate(t)
    <3>1. PICK n \in FreeHandles(call[t].h.libc) : \E new :
            /\ file' = [file EXCEPT ![n] = new]
            /\ shared' = IF call[t].h.libc = "dup" THEN shared \cup {n, call[t].key}
                         ELSE shared
      BY <2>3 DEF LibcAllocate
    <3>2. n \notin held /\ \A k \in Keys : k # n => file'[k] = file[k]
      BY <1>0, <3>1 DEF FreeHandles, HandleOwnership, TypeOK
    <3>3. CASE call[t].h.libc = "dup"
      <4>1. SubjectOf(t) = <<"handle", call[t].key>> /\ call[t].key \in Keys
        BY <1>0, <1>2, <3>3, SubjectIs DEF OnDescriptor
      <4>2. {k \in Keys : SubjectOf(t) = <<"handle", k>>} = {call[t].key}
        BY <4>1
      <4>3. \A k \in Keys : MountBehind(k)' =
                IF k \in {call[t].key} THEN Foreign ELSE MountBehind(k)
        BY <1>3, <3>1, <3>2, <3>3 DEF MountBehind, Tracked
      <4> QED
        BY <4>2, <4>3, BehindForgets
    <3>4. CASE call[t].h.libc # "dup"
      <4>1. \A k \in Keys : MountBehind(k)' = IF k \in {} THEN Foreign ELSE MountBehind(k)
        BY <1>3, <3>1, <3>2, <3>4 DEF MountBehind, Tracked
      <4> QED
        BY <4>1, BehindForgets
    <3> QED
      BY <3>3, <3>4
  <2> QED
    BY <2>1, <2>2, <2>3
<1>5. Promise!Execute(t)
  BY <1>0, <1>2, <1>3, <1>4, PhaseUpdate DEF Promise!Execute, Behind, Promise!Forget
<1> QED
  BY <1>5 DEF Promise!Next

\* A handler that returns hands out the handle it made: on the file it was about, if
\* PADLL vouches for the handle at all.
LEMMA ReturnKeeps ==
    ASSUME IInv, NEW t \in Threads, update_statistics(t)
    PROVE  Promise!Next
<1>0. TypeOK /\ StepOK /\ HandleOwnership /\ MadeRegistered /\ Continue(t)
  BY DEF IInv, Continue
<1>1. /\ pc[t] = "stats" /\ pc'[t] = "idle" /\ call'[t] = NoCall
      /\ held' = IF Made(t) THEN held \cup {call[t].res} ELSE held
      /\ UNCHANGED <<file, shared>>
  BY <1>0, StatisticsEffect
<1>2. /\ PhaseOf(t) = "executed" /\ PhaseOf(t)' = "idle"
      /\ SubjectOf(t)' = <<"none", Foreign>>
  BY <1>1 DEF PhaseOf, SubjectOf
<1>3. \/ UNCHANGED <<held, Behind>>
      \/ \E k \in Keys \ held, m \in {Promise!MountOf(SubjectOf(t)), Foreign} :
            /\ held' = held \cup {k}
            /\ Behind' = [Behind EXCEPT ![k] = m]
  <2>1. CASE ~Made(t)
    BY <1>1, <2>1, BehindStays
  <2>2. CASE Made(t)
    <3>0. PICK k \in Keys \ held : k = call[t].res
      BY <1>0, <2>2 DEF Made, HandleOwnership
    <3>1. k \in Keys \ held /\ call[t].h.libc \in Allocates
      BY <2>2 DEF Made
    <3>2. PICK m : m = MountBehind(k)'
      OBVIOUS
    <3>3. \A j \in Keys : MountBehind(j)' = IF j = k THEN m ELSE MountBehind(j)
      BY <1>1, <2>2, <3>0, <3>2 DEF MountBehind, Tracked
    <3>4. Behind' = [Behind EXCEPT ![k] = m]
      BY <3>3 DEF Behind
    <3>5. m \in {Promise!MountOf(SubjectOf(t)), Foreign}
      <4>1. CASE m = Foreign
        BY <4>1
      <4>2. CASE m # Foreign
        <5>1. m = file[k] /\ Tracked(k)
          BY <1>1, <3>2, <4>2 DEF MountBehind, Tracked
        <5>2. call[t].h.libc = "open" /\ file[k] = call[t].mp
          BY <1>0, <2>2, <3>0, <3>1, <5>1, TableAssumption DEF MadeRegistered, Tracked, Allocates
        <5>3. call[t].h.pick = "path"
          BY <1>0, <1>1, <5>2, HandlersAssumption DEF StepOK
        <5>4. SubjectOf(t) = <<"path", call[t].mp>>
          BY <1>0, <1>1, <5>3, SubjectIs
        <5> QED
          BY <5>1, <5>2, <5>4 DEF Promise!MountOf
      <4> QED
        BY <4>1, <4>2
    <3> QED
      BY <1>1, <2>2, <3>0, <3>4, <3>5
  <2> QED
    BY <2>1, <2>2
<1>4. Promise!Return(t)
  BY <1>0, <1>2, <1>3, PhaseUpdate, SubjectUpdate DEF Promise!Return, Behind
<1> QED
  BY <1>4 DEF Promise!Next

\* Calls that do not come through PADLL.
LEMMA OutsideKeeps ==
    ASSUME IInv, NEW k \in Keys, UnhandledOpen(k) \/ UnhandledClose(k)
    PROVE  Promise!Next
<1>0. TypeOK /\ HandleOwnership /\ ClosedUnknown
  BY DEF IInv
<1>1. UNCHANGED <<pc, call>>
  BY DEF UnhandledOpen, UnhandledClose, callVars
<1>2. UNCHANGED <<[u \in Threads |-> PhaseOf(u)], [u \in Threads |-> SubjectOf(u)]>>
  BY <1>1 DEF PhaseOf, SubjectOf
<1>3. held' = IF k \in held THEN held \ {k} ELSE held \cup {k}
  BY <1>0 DEF UnhandledOpen, UnhandledClose, HandleOwnership
<1>4. \A j \in Keys : MountBehind(j)' = IF j \in {k} THEN Foreign ELSE MountBehind(j)
  <2>1. CASE UnhandledOpen(k)
    BY <1>0, <2>1 DEF UnhandledOpen, ClosedUnknown, MountBehind, Tracked
  <2>2. CASE UnhandledClose(k)
    BY <1>0, <2>2 DEF UnhandledClose, MountBehind, Tracked, TypeOK
  <2> QED
    BY <2>1, <2>2
<1>5. Promise!Outside(k)
  BY <1>2, <1>3, <1>4, BehindForgets DEF Promise!Outside, Behind, Promise!Forget
<1> QED
  BY <1>5 DEF Promise!Next

\* With lazy removal and an application that respects the ownership of its
\* descriptors, the handlers of LdPreloadedPosix, whose steps other threads
\* interleave with at will, keep the promise of ThrottledFiles: no call on a
\* throttled mount point gets past the stage and no other call is held up by it.
THEOREM ImplementsThrottledFilesCorrect == Spec => ImplementsThrottledFiles
<1>0. Spec => []IInv
  BY InvariantCorrect, RefinementAssumption
<1>1. Init => Promise!Init
  <2> SUFFICES ASSUME Init PROVE Promise!Init
    OBVIOUS
  <2>1. \A k \in Keys : MountBehind(k) = Foreign
    BY DEF Init, MountBehind, Tracked
  <2>2. \A t \in Threads : PhaseOf(t) = "idle" /\ SubjectOf(t) = <<"none", Foreign>>
    BY DEF Init, PhaseOf, SubjectOf
  <2>3. held \in SUBSET Keys
    BY DEF Init
  <2> QED
    BY <2>1, <2>2, <2>3 DEF Promise!Init
<1>2. IInv /\ IInv' /\ [Next]_vars => [Promise!Next]_Promise!vars
  <2> SUFFICES ASSUME IInv, IInv', [Next]_vars PROVE [Promise!Next]_Promise!vars
    OBVIOUS
  <2>1. CASE UNCHANGED vars
    <3>1. /\ \A k \in Keys : MountBehind(k)' = MountBehind(k)
          /\ \A t \in Threads : PhaseOf(t)' = PhaseOf(t) /\ SubjectOf(t)' = SubjectOf(t)
          /\ held' = held
      BY <2>1 DEF vars, MountBehind, Tracked, PhaseOf, SubjectOf
    <3> QED
      BY <3>1 DEF Promise!vars
  <2>2. ASSUME NEW t \in Threads, Begin(t) \/ Continue(t)
        PROVE  [Promise!Next]_Promise!vars
    BY <2>2, BeginKeeps, InvisibleSteps, EnforceKeeps, LibcKeeps, ReturnKeeps DEF Continue
  <2>3. ASSUME NEW k \in Keys, UnhandledOpen(k) \/ UnhandledClose(k)
        PROVE  [Promise!Next]_Promise!vars
    BY <2>3, OutsideKeeps
  <2> QED
    BY <2>1, <2>2, <2>3 DEF Next
<1> QED
  BY <1>0, <1>1, <1>2, PTL DEF ImplementsThrottledFiles, Promise!Spec, Spec

================================================================================
