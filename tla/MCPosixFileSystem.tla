---------------------------- MODULE MCPosixFileSystem ---------------------------
(***************************************************************************)
(* Small instances of PosixFileSystem.                                     *)
(***************************************************************************)
EXTENDS PosixFileSystem

CONSTANTS main, t1

\* The configuration of the repository, as far as these functions go.
OpenClose == {"open_variadic", "close", "fcntl"}

\* Reads of a configuration that handles them.
Reads == {"read"}
OnlyReads == {Reads}
ReadCalls == [t \in Threads |-> Reads]

EveryFunction == AllFunctions
Switches == {{"open_variadic"}, AllFunctions}

\* The main thread calls everything, the other opens.
EveryCall == [t \in Threads |-> IF t = Main THEN AllFunctions ELSE {"open_variadic"}]
OpenCalls == [t \in Threads |-> OpenClose]

\* The two largest an int holds, the first it does not, and the largest.
SomeSizes == {MaxInt - 1, MaxInt, MaxInt + 1, SizeModulus - 1}
TwoSizes == {MaxInt, MaxInt + 1}
================================================================================
