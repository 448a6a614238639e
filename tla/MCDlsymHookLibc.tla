----------------------------- MODULE MCDlsymHookLibc ---------------------------
(***************************************************************************)
(* Small instances of DlsymHookLibc.                                       *)
(***************************************************************************)
EXTENDS DlsymHookLibc

CONSTANTS t1, t2, t3

================================================================================
