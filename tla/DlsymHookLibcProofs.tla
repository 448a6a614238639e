--------------------------- MODULE DlsymHookLibcProofs -------------------------
(***************************************************************************)
(* What the handlers call is libc's function, for any number of threads,   *)
(* functions and handlers, when PADLL is configured with the name of libc, *)
(* dlopen of it does not change its answer once the constructor is done,   *)
(* and no handler runs before the constructor.  Without the first two of   *)
(* these conditions it is still never a null pointer.                      *)
(***************************************************************************)
EXTENDS DlsymHookLibc, TLAPS

Usual == LibraryPath = "libc.so.6" /\ Early = {} /\ "varies" \notin Openings

\* The handle is null or libc's, and libc's as soon as somebody relies on it.
HandleOK ==
    /\ name \in {"unset", "libc.so.6"}
    /\ opening \in {"succeeds", "fails", "recovers"}
    /\ handle \in {Null, "libc"}
    /\ opening = "fails" => handle = Null

\* A thread in a hook: what it has tested or opened still holds.
HooksOK ==
    /\ at \in [Threads -> {"idle", "test_pointer", "test_handle", "retest_pointer", "lock",
                           "dlopen", "assign_opened", "assign", "call"}]
    /\ function = [t \in Threads |-> function[t]]
    /\ opened = [t \in Threads |-> opened[t]]
    /\ \A t \in Threads :
        /\ at[t] # "idle" => name # "unset" /\ function[t] \in Functions
        /\ at[t] \in {"retest_pointer", "assign"} => handle = "libc"
        /\ at[t] = "assign_opened" /\ opened[t] => handle = "libc"
        /\ at[t] = "call" => pointer[function[t]] = "libc"

HookInv == HandleOK /\ pointer \in [Functions -> {Null, "libc"}] /\ HooksOK

\* The two lookups that can be reached find libc's function.
LEMMA LookupsFindLibc == ASSUME NEW s PROVE dlsym("libc", s) = "libc" /\ dlsym("RTLD_NEXT", s) = "libc"
BY DEF dlsym

LEMMA HookInit == ASSUME Usual PROVE Init => HookInv
BY DlsymHookLibcAssumption DEF Usual, Init, HookInv, HandleOK, HooksOK, Null

LEMMA ConstructorKeepsInv ==
    ASSUME Usual, HookInv, DlsymHookLibc
    PROVE  HookInv'
<1>1. \A t \in Threads : at[t] = "idle"
  BY DEF HookInv, HooksOK, DlsymHookLibc
<1>2. HandleOK'
  BY DEF HookInv, HandleOK, DlsymHookLibc, dlopen, Usual, Null
<1>3. pointer' \in [Functions -> {Null, "libc"}]
  BY DEF DlsymHookLibc
<1>4. HooksOK'
  BY <1>1 DEF HookInv, HooksOK, DlsymHookLibc
<1> QED
  BY <1>2, <1>3, <1>4 DEF HookInv

\* dlopen gives libc's handle again, or null where it always did.
LEMMA OpeningKeepsInv ==
    ASSUME Usual, HookInv, NEW t \in Threads, dlopen_library_handle(t)
    PROVE  HookInv'
<1>1. at[t] = "dlopen" /\ name = "libc.so.6"
  BY DEF HookInv, HandleOK, HooksOK, dlopen_library_handle, Goes
<1>2. PICK h \in dlopen(name, FALSE) :
        /\ handle' = h
        /\ opened' = [opened EXCEPT ![t] = (h # Null)]
  BY DEF dlopen_library_handle
<1>3. /\ h \in {Null, "libc"}
      /\ opening = "fails" => h = Null
      /\ opening # "fails" => h = "libc"
  BY <1>1, <1>2 DEF dlopen, HookInv, HandleOK, Null
<1>4. HandleOK'
  BY <1>2, <1>3 DEF dlopen_library_handle, HookInv, HandleOK
<1>5. handle = "libc" => handle' = "libc"
  BY <1>2, <1>3 DEF HookInv, HandleOK, Null
<1>6. HooksOK'
  BY <1>1, <1>2, <1>3, <1>5 DEF dlopen_library_handle, HookInv, HooksOK, Goes, Null
<1> QED
  BY <1>4, <1>6 DEF dlopen_library_handle, HookInv

\* A pointer is set to what is found through a handle that is libc's.
LEMMA AssigningKeepsInv ==
    ASSUME HookInv, NEW t \in Threads, AssignOpened(t) \/ Assign(t)
    PROVE  HookInv'
<1>1. function[t] \in Functions /\ at' = [at EXCEPT ![t] = "call"]
  BY DEF HookInv, HooksOK, AssignOpened, Assign, Goes
<1>2. pointer' = [pointer EXCEPT ![function[t]] = "libc"]
  <2>1. CASE AssignOpened(t)
    <3>1. Through(t) \in {"libc", "RTLD_NEXT"}
      BY <2>1 DEF AssignOpened, Goes, Through, HookInv, HooksOK
    <3> QED
      BY <2>1, <3>1, LookupsFindLibc DEF AssignOpened
  <2>2. CASE Assign(t)
    BY <2>2, LookupsFindLibc DEF Assign, Goes, HookInv, HooksOK
  <2> QED
    BY <2>1, <2>2
<1>3. UNCHANGED <<name, handle, opening, function, opened>>
  BY DEF AssignOpened, Assign
<1>4. pointer' \in [Functions -> {Null, "libc"}] /\ pointer'[function[t]] = "libc"
  BY <1>1, <1>2 DEF HookInv
<1>5. \A f : pointer[f] = "libc" /\ f \in Functions => pointer'[f] = "libc"
  BY <1>1, <1>2 DEF HookInv
<1>6. HooksOK'
  <2>1. name' = name /\ handle' = handle /\ function' = function /\ opened' = opened
    BY <1>3
  <2>2. at'[t] = "call" /\ \A u \in Threads : u # t => at'[u] = at[u]
    BY <1>1 DEF HookInv, HooksOK
  <2>3. ASSUME NEW u \in Threads, u # t
        PROVE  /\ at'[u] # "idle" => name' # "unset" /\ function'[u] \in Functions
               /\ at'[u] \in {"retest_pointer", "assign"} => handle' = "libc"
               /\ at'[u] = "assign_opened" /\ opened'[u] => handle' = "libc"
               /\ at'[u] = "call" => pointer'[function'[u]] = "libc"
    <3>1. at[u] = "call" => pointer[function[u]] = "libc" /\ function[u] \in Functions
      BY DEF HookInv, HooksOK
    <3> QED
      BY <1>5, <2>1, <2>2, <2>3, <3>1 DEF HookInv, HooksOK
  <2>4. at[t] # "idle" /\ name # "unset"
    BY DEF HookInv, HooksOK, AssignOpened, Assign, Goes
  <2>5. at' \in [Threads -> {"idle", "test_pointer", "test_handle", "retest_pointer", "lock",
                             "dlopen", "assign_opened", "assign", "call"}]
    BY <1>1 DEF HookInv, HooksOK
  <2>6. (function = [u \in Threads |-> function[u]])' /\ (opened = [u \in Threads |-> opened[u]])'
    BY <2>1 DEF HookInv, HooksOK
  <2> QED
    BY <1>1, <1>4, <2>1, <2>2, <2>3, <2>4, <2>5, <2>6 DEF HooksOK
<1> QED
  BY <1>3, <1>4, <1>6 DEF HookInv, HandleOK

\* The other steps only move a thread.
LEMMA TestsKeepInv ==
    ASSUME Usual, HookInv, NEW t \in Threads,
           \/ TestPointer(t) \/ TestHandle(t) \/ RetestPointer(t) \/ Lock(t) \/ Call(t)
           \/ \E f \in Functions : Hook(t, f)
    PROVE  HookInv'
<1>1. CASE TestPointer(t)
  BY <1>1 DEF TestPointer, HookInv, HandleOK, HooksOK
<1>2. CASE TestHandle(t)
  BY <1>2 DEF TestHandle, HookInv, HandleOK, HooksOK
<1>3. CASE RetestPointer(t)
  BY <1>3 DEF RetestPointer, HookInv, HandleOK, HooksOK
<1>4. CASE Lock(t) \/ Call(t)
  BY <1>4 DEF Lock, Call, Goes, HookInv, HandleOK, HooksOK
<1>5. CASE \E f \in Functions : Hook(t, f)
  BY <1>5 DEF Hook, Goes, HookInv, HandleOK, HooksOK, Usual
<1> QED
  BY <1>1, <1>2, <1>3, <1>4, <1>5

LEMMA HookNext == ASSUME Usual PROVE HookInv /\ [Next]_vars => HookInv'
<1> SUFFICES ASSUME HookInv, [Next]_vars PROVE HookInv'
  OBVIOUS
<1>1. CASE UNCHANGED vars
  BY <1>1 DEF vars, HookInv, HandleOK, HooksOK
<1>2. CASE DlsymHookLibc
  BY <1>2, ConstructorKeepsInv
<1>3. ASSUME NEW t \in Threads, Step(t) \/ Lock(t) \/ \E f \in Functions : Hook(t, f)
      PROVE  HookInv'
  BY <1>3, OpeningKeepsInv, AssigningKeepsInv, TestsKeepInv DEF Step
<1> QED
  BY <1>1, <1>2, <1>3 DEF Next

\* Threads race for the pointers and the handle without a lock, yet what each of
\* them calls is libc's function: neither null nor PADLL's own wrapper.
THEOREM CalledIsLibcCorrect == ASSUME Usual PROVE Spec => []CalledIsLibc
<1>1. HookInv => CalledIsLibc
  BY DEF HookInv, HooksOK, CalledIsLibc
<1> QED
  BY <1>1, HookInit, HookNext, PTL DEF Spec

--------------------------------------------------------------------------------
(* What is left when dlopen answers differently each time, or gets no name. *)

\* No handler calls through a null pointer.
CalledIsSet == \A t \in Threads : at[t] = "call" => pointer[function[t]] # Null

\* Nothing sets a pointer back to null once a thread may have tested it.
PointersInv ==
    /\ at = [t \in Threads |-> at[t]]
    /\ function = [t \in Threads |-> function[t]]
    /\ pointer \in [Functions -> {Null, "libc", "own"}]
    /\ \A t \in Threads : at[t] # "idle" => name # "unset" /\ function[t] \in Functions
    /\ CalledIsSet

LEMMA PointersInit == Init => PointersInv
BY DEF Init, PointersInv, CalledIsSet

\* The constructor resets the pointers when no handler has run.
LEMMA ConstructorKeepsPointers ==
    ASSUME PointersInv, DlsymHookLibc
    PROVE  PointersInv'
<1>1. \A t \in Threads : at[t] = "idle"
  BY DEF PointersInv, DlsymHookLibc
<1>2. name' # "unset"
  BY DlsymHookLibcAssumption DEF DlsymHookLibc
<1> QED
  BY <1>1, <1>2 DEF PointersInv, CalledIsSet, DlsymHookLibc

\* A lookup finds something, through whatever handle.
LEMMA AssigningKeepsPointers ==
    ASSUME PointersInv, NEW t \in Threads, AssignOpened(t) \/ Assign(t)
    PROVE  PointersInv'
<1>1. PICK found \in {"libc", "own"} : pointer' = [pointer EXCEPT ![function[t]] = found]
  BY DEF AssignOpened, Assign, dlsym
<1>2. /\ at[t] # "idle" /\ at' = [at EXCEPT ![t] = "call"]
      /\ UNCHANGED <<name, function>>
  BY DEF AssignOpened, Assign, Goes
<1>3. name # "unset" /\ function[t] \in Functions
  BY <1>2 DEF PointersInv
<1>4. pointer' \in [Functions -> {Null, "libc", "own"}]
  BY <1>1 DEF PointersInv
<1>5. \A f \in Functions : pointer[f] # Null \/ f = function[t] => pointer'[f] # Null
  BY <1>1 DEF PointersInv, Null
<1>6. \A u \in Threads : u # t => at'[u] = at[u]
  BY <1>2 DEF PointersInv
<1>7. \A u \in Threads : at'[u] = "call" => pointer'[function'[u]] # Null
  BY <1>2, <1>3, <1>5, <1>6 DEF PointersInv, CalledIsSet
<1>8. \A u \in Threads : at'[u] # "idle" => name' # "unset" /\ function'[u] \in Functions
  BY <1>2, <1>3, <1>6 DEF PointersInv
<1>9. at' = [u \in Threads |-> at'[u]] /\ function' = [u \in Threads |-> function'[u]]
  BY <1>2 DEF PointersInv
<1> QED
  BY <1>4, <1>7, <1>8, <1>9 DEF PointersInv, CalledIsSet

\* A test of the pointer goes to the call only if it finds it set.
LEMMA StepsKeepPointers ==
    ASSUME Early = {}, PointersInv, NEW t \in Threads,
           \/ TestPointer(t) \/ TestHandle(t) \/ RetestPointer(t) \/ Lock(t) \/ Call(t)
           \/ dlopen_library_handle(t) \/ \E f \in Functions : Hook(t, f)
    PROVE  PointersInv'
<1>1. CASE TestPointer(t) \/ RetestPointer(t)
  BY <1>1 DEF TestPointer, RetestPointer, PointersInv, CalledIsSet
<1>2. CASE TestHandle(t) \/ Lock(t) \/ Call(t)
  BY <1>2 DEF TestHandle, Lock, Call, Goes, PointersInv, CalledIsSet
<1>3. CASE dlopen_library_handle(t)
  BY <1>3 DEF dlopen_library_handle, Goes, PointersInv, CalledIsSet
<1>4. CASE \E f \in Functions : Hook(t, f)
  BY <1>4 DEF Hook, Goes, PointersInv, CalledIsSet
<1> QED
  BY <1>1, <1>2, <1>3, <1>4

LEMMA PointersNext == ASSUME Early = {} PROVE PointersInv /\ [Next]_vars => PointersInv'
<1> SUFFICES ASSUME PointersInv, [Next]_vars PROVE PointersInv'
  OBVIOUS
<1>1. CASE UNCHANGED vars
  BY <1>1 DEF vars, PointersInv, CalledIsSet
<1>2. CASE DlsymHookLibc
  BY <1>2, ConstructorKeepsPointers
<1>3. ASSUME NEW t \in Threads, Step(t) \/ Lock(t) \/ \E f \in Functions : Hook(t, f)
      PROVE  PointersInv'
  BY <1>3, AssigningKeepsPointers, StepsKeepPointers DEF Step
<1> QED
  BY <1>1, <1>2, <1>3 DEF Next

\* Whatever dlopen answers, and whatever the library is called, no handler that runs
\* after the constructor calls through a null pointer, although the pointers are
\* tested and set without a lock.  That is the part of CalledIsLibc that does not
\* depend on the handle.
THEOREM CalledIsSetCorrect == ASSUME Early = {} PROVE Spec => []CalledIsSet
<1>1. PointersInv => CalledIsSet
  BY DEF PointersInv
<1> QED
  BY <1>1, PointersInit, PointersNext, PTL DEF Spec
================================================================================
