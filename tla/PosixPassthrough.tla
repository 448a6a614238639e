---------------------------- MODULE PosixPassthrough ---------------------------
(***************************************************************************)
(* What becomes of one call in the statistics.  PosixPassthrough runs      *)
(* libc's function (dlsym(RTLD_NEXT, name)) and accounts the call by a     *)
(* test of the result of its own for every function; LdPreloadedPosix has  *)
(* one test per class of operations.                                       *)
(*                                                                         *)
(* A function is named by its entry in the statistics enumerations, so     *)
(* open with a mode is open_variadic.  A result is -1, 0 or 1; 1 stands    *)
(* for every other byte count, descriptor and address, 0 is the null       *)
(* pointer where the function returns a FILE.                              *)
(***************************************************************************)
EXTENDS Integers, FiniteSets

Passthrough(class, test) == [class |-> class, test |-> test]

\* The results each kind of test takes for a success.
Successes ==
    [non_negative  |-> {0, 1},   \* result >= 0
     zero          |-> {0},      \* result == 0
     not_minus_one |-> {0, 1},   \* result != -1
     not_null      |-> {-1, 1},  \* result != nullptr
     not_failed    |-> {0, 1},   \* result != MAP_FAILED
     none          |-> {-1, 0, 1}]

ReadWritePassthroughs ==
    [f \in {"read", "write", "pread", "pwrite", "pread64", "pwrite64"} |->
        Passthrough("data_calls", "non_negative")]

MapPassthroughs ==
    [mmap   |-> Passthrough("data_calls", "not_failed"),
     munmap |-> Passthrough("data_calls", "zero")]

OpenPassthroughs ==
    [f \in {"open_variadic", "open", "creat", "creat64"} |->
        Passthrough("metadata_calls", "non_negative")]

OpenatPassthroughs ==
    [f \in {"openat_variadic", "openat", "open64_variadic", "open64"} |->
        Passthrough("metadata_calls", "non_negative")]

ClosePassthroughs ==
    [close |-> Passthrough("metadata_calls", "non_negative"),
     sync  |-> Passthrough("metadata_calls", "none")]

StatfsPassthroughs ==
    [f \in {"statfs", "fstatfs", "statfs64", "fstatfs64"} |->
        Passthrough("metadata_calls", "zero")]

NamespacePassthroughs ==
    [f \in {"unlink", "unlinkat", "rename", "renameat"} |->
        Passthrough("metadata_calls", "zero")]

\* Mutant: the stream is compared with -1, as in the calls around it.
stream_not_minus_one ==
    [fopen   |-> Passthrough("metadata_calls", "not_minus_one"),
     fopen64 |-> Passthrough("metadata_calls", "not_null"),
     fclose  |-> Passthrough("metadata_calls", "zero")]

StreamPassthroughs ==
    [fopen   |-> Passthrough("metadata_calls", "not_null"),
     fopen64 |-> Passthrough("metadata_calls", "not_null"),
     fclose  |-> Passthrough("metadata_calls", "zero")]

DirectoryPassthroughs ==
    [f \in {"mkdir", "mkdirat", "rmdir", "mknod", "mknodat"} |->
        Passthrough("directory_calls", "zero")]

GetSetxattrPassthroughs ==
    [f \in {"getxattr", "lgetxattr", "fgetxattr",
            "setxattr", "lsetxattr", "fsetxattr"} |->
        Passthrough("ext_attr_calls", "not_minus_one")]

ListxattrPassthroughs ==
    [f \in {"listxattr", "llistxattr", "flistxattr"} |->
        Passthrough("ext_attr_calls", "not_minus_one")]

SocketPassthrough == [socket |-> Passthrough("special_calls", "not_minus_one")]

Tables == {ReadWritePassthroughs, MapPassthroughs, OpenPassthroughs,
           OpenatPassthroughs, ClosePassthroughs, StatfsPassthroughs,
           NamespacePassthroughs, StreamPassthroughs, DirectoryPassthroughs,
           GetSetxattrPassthroughs, ListxattrPassthroughs, SocketPassthrough}

\* fcntl has a handler and no passthrough.
PassedFunctions == UNION {DOMAIN t : t \in Tables}
AllFunctions == PassedFunctions \cup {"fcntl"}

passthrough(f) == (CHOOSE t \in Tables : f \in DOMAIN t)[f]

\* open64 with a mode is accounted as open64 when it is passed through.
passed_entry(f) == IF f = "open64_variadic" THEN "open64" ELSE f

--------------------------------------------------------------------------------
(* What one call adds to its entry.                                        *)

Columns == {"operation", "byte", "error", "bypass"}

Added(operation, byte, error, bypass) ==
    [operation |-> operation, byte |-> byte, error |-> error, bypass |-> bypass]

Nothing == Added(0, 0, 0, 0)
Failure == Added(1, 0, 1, 0)
Bypass  == Added(0, 0, 0, 1)

\* Mutant: the result is added to the bytes before it is tested.
adds_untested(f, result) ==
    Added(1, IF f \in DOMAIN ReadWritePassthroughs THEN result ELSE 0,
          IF result \in Successes[passthrough(f).test] THEN 0 ELSE 1, 0)

\* Only read, write and their kind add their result to the bytes.
passed_adds(f, result) ==
    IF result \in Successes[passthrough(f).test]
    THEN Added(1, IF f \in DOMAIN ReadWritePassthroughs THEN result ELSE 0, 0, 0)
    ELSE Failure

Class(f) == IF f = "fcntl" THEN "special_calls" ELSE passthrough(f).class

\* The result a handler passes to update_statistics: an address becomes 0 or -1,
\* and sync has no result and passes 1.
handler_result(f, result) ==
    CASE f \in {"fopen", "fopen64"} -> IF result # 0 THEN 0 ELSE -1
      [] f = "mmap" -> IF result = -1 THEN -1 ELSE 0
      [] f = "sync" -> 1
      [] OTHER -> result

update_statistic_entry_data(result) ==
    IF result >= 0 THEN Added(1, result, 0, 0) ELSE Failure

update_statistic_entry_metadata(result) ==
    IF result >= 0 THEN Added(1, 0, 0, 0) ELSE Failure

update_statistic_entry_dir(result) ==
    IF result = 0 THEN Added(1, 0, 0, 0) ELSE Failure

update_statistic_entry_ext_attr(result) ==
    IF result >= 0 THEN Added(1, result, 0, 0) ELSE Failure

\* socket and fcntl are never enforced: the entry is a bypass.
handled_adds(f, result, enforced) ==
    LET r == handler_result(f, result) IN
    IF ~enforced THEN Bypass
    ELSE CASE Class(f) = "data_calls"      -> update_statistic_entry_data(r)
           [] Class(f) = "metadata_calls"  -> update_statistic_entry_metadata(r)
           [] Class(f) = "directory_calls" -> update_statistic_entry_dir(r)
           [] Class(f) = "ext_attr_calls"  -> update_statistic_entry_ext_attr(r)

MayBeEnforced(f) == CASE f \in {"socket", "fcntl"} -> {FALSE}
                      [] f = "sync" -> {TRUE}
                      [] OTHER -> BOOLEAN

--------------------------------------------------------------------------------
(* External: what libc's functions return, and which results are failures. *)

Streams == {"fopen", "fopen64"}

Results(f) ==
    CASE f \in Streams -> {0, 1}
      [] f = "sync" -> {0}
      [] f = "mmap" -> {-1, 1}
      [] f \in {"munmap", "close", "fclose"}
            \cup DOMAIN StatfsPassthroughs \cup DOMAIN NamespacePassthroughs
            \cup DOMAIN DirectoryPassthroughs
            \cup {"setxattr", "lsetxattr", "fsetxattr"} -> {-1, 0}
      [] OTHER -> {-1, 0, 1}

Fails(f, result) == result = IF f \in Streams THEN 0 ELSE -1

\* The functions whose result is a number of bytes: of a file, of its attributes.
Transfers == {"read", "write", "pread", "pwrite", "pread64", "pwrite64",
              "getxattr", "lgetxattr", "fgetxattr",
              "listxattr", "llistxattr", "flistxattr"}

Moved(f, result) == IF f \in Transfers /\ ~Fails(f, result) THEN result ELSE 0
================================================================================
