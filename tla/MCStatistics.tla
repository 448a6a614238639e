------------------------------ MODULE MCStatistics -----------------------------
(***************************************************************************)
(* Small instances of Statistics for TLC.                                  *)
(***************************************************************************)
EXTENDS Statistics, SequencesExt

CONSTANTS u1, u2, r

\* The counters as the copy constructor initializes them, and the other way around.
AsWritten == <<"operation", "byte", "error", "bypass">>
InOrder == {AsWritten}
EitherWay == {AsWritten, Reverse(AsWritten)}

================================================================================
