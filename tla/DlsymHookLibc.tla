------------------------------ MODULE DlsymHookLibc ----------------------------
(***************************************************************************)
(* The first thing every handler does: make sure that its pointer to       *)
(* libc's function is set.  The pointers and the library handle are plain  *)
(* members, read and written without a lock; m_lock is held for dlopen and *)
(* the assignment of its result, and given back before the caller uses     *)
(* either.  Threads race each other and, for the handlers that can be      *)
(* reached before it, the constructor.                                     *)
(*                                                                         *)
(* dlopen and dlsym are external.  A lookup through libc's handle or       *)
(* RTLD_NEXT finds libc's function.  One through a null handle, which is   *)
(* RTLD_DEFAULT, or through that of the program itself finds the first     *)
(* definition of the symbol, and that is PADLL's own wrapper.              *)
(***************************************************************************)
EXTENDS Integers

CONSTANTS
    Threads,
    Functions,    \* the functions whose handlers the threads run
    Early,        \* those that are reached before the constructor has run
    LibraryPath,  \* what the constructor gets: "libc.so.6" or ""
    Openings,     \* how dlopen of libc may behave: always the same, failing in
                  \* the constructor only ("recovers"), or differently each time
    MaxHooks,     \* handlers run by each thread
    Nobody        \* owner of a free m_lock

ASSUME DlsymHookLibcAssumption ==
    /\ LibraryPath \in {"libc.so.6", ""}
    /\ Openings \subseteq {"succeeds", "fails", "recovers", "varies"}
    /\ Early \subseteq Functions
    /\ MaxHooks \in Nat
    /\ Nobody \notin Threads

--------------------------------------------------------------------------------
(* The hooks, and the symbol each looks up.                                *)

ReadWriteHooks == [f \in {"read", "write", "pread", "pwrite", "pread64", "pwrite64"} |-> f]
MapHooks == [f \in {"mmap", "munmap"} |-> f]
OpenHooks == [open_variadic |-> "open", open |-> "open", creat |-> "creat",
              creat64 |-> "creat64"]
OpenatHooks == [openat_variadic |-> "openat", openat |-> "openat",
                open64_variadic |-> "open64", open64 |-> "open64"]
CloseHooks == [f \in {"close", "sync", "statfs", "fstatfs", "statfs64", "fstatfs64"} |-> f]
NamespaceHooks == [f \in {"unlink", "unlinkat", "rename", "renameat"} |-> f]
StreamHooks == [f \in {"fopen", "fopen64", "fclose"} |-> f]
DirectoryHooks == [f \in {"mkdir", "mkdirat", "rmdir", "mknod", "mknodat"} |-> f]
GetSetxattrHooks == [f \in {"getxattr", "lgetxattr", "fgetxattr",
                            "setxattr", "lsetxattr", "fsetxattr"} |-> f]
ListxattrHooks == [f \in {"listxattr", "llistxattr", "flistxattr"} |-> f]
SpecialHooks == [f \in {"socket", "fcntl"} |-> f]

Hooks == {ReadWriteHooks, MapHooks, OpenHooks, OpenatHooks, CloseHooks, NamespaceHooks,
          StreamHooks, DirectoryHooks, GetSetxattrHooks, ListxattrHooks, SpecialHooks}

symbol(f) == (CHOOSE h \in Hooks : f \in DOMAIN h)[f]

\* The symbols PADLL defines are those it hooks.
Exported == UNION {{h[f] : f \in DOMAIN h} : h \in Hooks}

ASSUME FunctionsAssumption == Functions \subseteq UNION {DOMAIN h : h \in Hooks}

--------------------------------------------------------------------------------

VARIABLES
    name,     \* m_lib_name; "unset" is that of an object not yet constructed
    handle,   \* m_lib_handle
    pointer,  \* the pointer to libc's function of each handler
    lock,     \* m_lock
    opening,  \* external: how dlopen of libc behaves
    at,       \* the step each thread is at
    function, \* the function whose handler it runs
    opened,   \* what dlopen_library_handle returned to it
    hooks     \* handlers it has run

vars == <<name, handle, pointer, lock, opening, at, function, opened, hooks>>

Null == "null"

\* External: dlopen of a null or empty name is the program itself.
dlopen(n, first) ==
    IF n \in {"unset", ""} THEN {"program"}
    ELSE CASE opening = "succeeds" -> {"libc"}
           [] opening = "fails"    -> {Null}
           [] opening = "recovers" -> {IF first THEN Null ELSE "libc"}
           [] opening = "varies"   -> {"libc", Null}

\* External: what a lookup finds.
dlsym(where, s) ==
    IF where \in {"libc", "RTLD_NEXT"} \/ s \notin Exported THEN "libc" ELSE "own"

\* Thread t goes from step s to step s2.
Goes(t, s, s2) == at[t] = s /\ at' = [at EXCEPT ![t] = s2]

--------------------------------------------------------------------------------

\* The constructor.  An empty path is not opened; the members are initialised.
DlsymHookLibc ==
    /\ name = "unset"
    /\ name' = LibraryPath
    /\ pointer' = [f \in Functions |-> Null]
    /\ IF LibraryPath = "" THEN handle' = Null ELSE \E h \in dlopen(LibraryPath, TRUE) : handle' = h
    /\ UNCHANGED <<lock, opening, at, function, opened, hooks>>

\* A handler calls its hook.
Hook(t, f) ==
    /\ Goes(t, "idle", "test_pointer")
    /\ name # "unset" \/ f \in Early
    /\ hooks[t] < MaxHooks
    /\ function' = [function EXCEPT ![t] = f]
    /\ hooks' = [hooks EXCEPT ![t] = @ + 1]
    /\ UNCHANGED <<name, handle, pointer, lock, opening, opened>>

\* if (!ptr && !handle): the pointer is read first.
TestPointer(t) ==
    /\ at[t] = "test_pointer"
    /\ at' = [at EXCEPT ![t] = IF pointer[function[t]] = Null THEN "test_handle" ELSE "call"]
    /\ UNCHANGED <<name, handle, pointer, lock, opening, function, opened, hooks>>

TestHandle(t) ==
    /\ at[t] = "test_handle"
    /\ at' = [at EXCEPT ![t] = IF handle = Null THEN "lock" ELSE "retest_pointer"]
    /\ UNCHANGED <<name, handle, pointer, lock, opening, function, opened, hooks>>

\* else if (!ptr)
RetestPointer(t) ==
    /\ at[t] = "retest_pointer"
    /\ at' = [at EXCEPT ![t] = IF pointer[function[t]] = Null THEN "assign" ELSE "call"]
    /\ UNCHANGED <<name, handle, pointer, lock, opening, function, opened, hooks>>

Lock(t) ==
    /\ Goes(t, "lock", "dlopen")
    /\ lock = Nobody
    /\ lock' = t
    /\ UNCHANGED <<name, handle, pointer, opening, function, opened, hooks>>

\* Mutant: the lock is kept when dlopen fails.
keep_when_failed(h, owner) == IF h = Null THEN owner ELSE Nobody

\* The unique_lock is released on every return.
unlock(h, owner) == Nobody

\* The assignment of the handle, the return value, and the release.
dlopen_library_handle(t) ==
    /\ Goes(t, "dlopen", "assign_opened")
    /\ \E h \in dlopen(name, FALSE) :
        /\ handle' = h
        /\ opened' = [opened EXCEPT ![t] = (h # Null)]
        /\ lock' = unlock(h, lock)
    /\ UNCHANGED <<name, pointer, opening, function, hooks>>

\* Mutant: the lookup goes through the handle whether it was opened or not.
through_handle(t) == handle

\* Through the handle, read again, if it was opened; through the next link if not.
Through(t) == IF opened[t] THEN handle ELSE "RTLD_NEXT"

AssignOpened(t) ==
    /\ Goes(t, "assign_opened", "call")
    /\ pointer' = [pointer EXCEPT ![function[t]] = dlsym(Through(t), symbol(function[t]))]
    /\ UNCHANGED <<name, handle, lock, opening, function, opened, hooks>>

Assign(t) ==
    /\ Goes(t, "assign", "call")
    /\ pointer' = [pointer EXCEPT ![function[t]] = dlsym(handle, symbol(function[t]))]
    /\ UNCHANGED <<name, handle, lock, opening, function, opened, hooks>>

\* The handler calls through its pointer and returns.
Call(t) ==
    /\ Goes(t, "call", "idle")
    /\ UNCHANGED <<name, handle, pointer, lock, opening, function, opened, hooks>>

--------------------------------------------------------------------------------

Init ==
    /\ name = "unset"
    /\ handle = Null
    /\ pointer = [f \in Functions |-> Null]
    /\ lock = Nobody
    /\ opening \in Openings
    /\ at = [t \in Threads |-> "idle"]
    /\ function \in [Threads -> {CHOOSE f \in Functions : TRUE}]
    /\ opened = [t \in Threads |-> FALSE]
    /\ hooks = [t \in Threads |-> 0]

\* A hook on its way, up to the call.
Step(t) ==
    \/ TestPointer(t) \/ TestHandle(t) \/ RetestPointer(t)
    \/ dlopen_library_handle(t) \/ AssignOpened(t) \/ Assign(t) \/ Call(t)

Next ==
    \/ DlsymHookLibc
    \/ \E t \in Threads : Step(t) \/ Lock(t) \/ \E f \in Functions : Hook(t, f)

Spec == Init /\ [][Next]_vars

\* A thread that can run does, and one that waits for a mutex that is released
\* again and again gets it in the end.
FairSpec == Spec /\ \A t \in Threads : WF_vars(Step(t)) /\ SF_vars(Lock(t))

--------------------------------------------------------------------------------
(* Properties.                                                             *)

\* What a handler calls is libc's function: not a null pointer, however the first
\* calls race each other for pointer and handle, and not PADLL's wrapper, which
\* would run the handler again without end.
CalledIsLibc == \A t \in Threads : at[t] = "call" => pointer[function[t]] = "libc"

\* Every hook comes to its call, those that wait for m_lock included.
HooksReturn == \A t \in Threads : at[t] # "idle" ~> at[t] = "idle"
================================================================================
