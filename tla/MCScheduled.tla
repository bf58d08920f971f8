----------------------------- MODULE MCScheduled -----------------------------
(***************************************************************************)
(* An instance of ScheduledMessages for TLC: one message, one file it may  *)
(* carry, one user's request at a time and the worker.                     *)
(***************************************************************************)
EXTENDS ScheduledMessages

CONSTANTS m1, f1, r1, worker
=============================================================================
