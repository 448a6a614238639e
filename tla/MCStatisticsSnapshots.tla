------------------------- MODULE MCStatisticsSnapshots ------------------------
(***************************************************************************)
(* The instances of MCStatistics with the history of StatisticsSnapshots.  *)
(***************************************************************************)
EXTENDS MCStatistics, StatisticsSnapshots

================================================================================
