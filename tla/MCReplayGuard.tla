--------------------------- MODULE MCReplayGuard ----------------------------
(* A window of three counters over seven: long enough for a counter to be  *)
(* opened, left behind by a whole window, and come again.                  *)
EXTENDS ReplayGuard

MCCounters == 0 .. 6
=============================================================================
