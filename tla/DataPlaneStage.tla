----------------------------- MODULE DataPlaneStage ----------------------------
(***************************************************************************)
(* What an enforced call costs.  The handler passes a payload to           *)
(* LdPreloadedPosix::enforce_request, which takes it as an int and hands   *)
(* it on to DataPlaneStage::enforce_request, which takes a uint64_t and    *)
(* submits it to PAIO.  The payload of read and write is their buffer      *)
(* size, a size_t.                                                         *)
(***************************************************************************)
EXTENDS Integers

CONSTANTS
    SizeModulus,  \* size_t and uint64_t are numbers modulo this (2^64)
    IntModulus    \* int is, signed, modulo this (2^32)

ASSUME DataPlaneStageAssumption ==
    /\ IntModulus \in Nat /\ IntModulus >= 4 /\ IntModulus % 2 = 0
    /\ SizeModulus \in Nat /\ IntModulus <= SizeModulus /\ SizeModulus % IntModulus = 0

MaxInt == IntModulus \div 2 - 1

\* size_t to int: the low bits, as a signed number.
AsInt(n) == LET low == n % IntModulus IN IF low > MaxInt THEN low - IntModulus ELSE low

\* int to uint64_t: the sign is extended.
AsUnsigned(n) == n % SizeModulus

DataOperations == {"read", "write", "pread", "pwrite", "pread64", "pwrite64"}

\* What the handler of an operation passes to enforce_request.
payload(operation, size) == IF operation \in DataOperations THEN size ELSE 1

\* The tokens PAIO is asked for.
cost(operation, size) == AsUnsigned(AsInt(payload(operation, size)))
================================================================================
