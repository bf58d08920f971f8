--------------------------- MODULE MCClientStream ---------------------------
(* One peer and one client of either platform; the log, the faults and the   *)
(* mounts are bounded so that a replay can be cut and a stream lost twice.    *)
EXTENDS ClientStream
=============================================================================
