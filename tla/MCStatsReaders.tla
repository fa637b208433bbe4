--------------------------- MODULE MCStatsReaders ---------------------------
(* An instance of StatsReaders for TLC. *)
EXTENDS StatsReaders
=============================================================================
