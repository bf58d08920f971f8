----------------------------- MODULE MCEventLog -----------------------------
(* Instances of EventLog for TLC.  Broadcasters are interchangeable.        *)
EXTENDS EventLog, TLC

CONSTANTS b1, b2

Symmetry == Permutations(Broadcasters)
=============================================================================
