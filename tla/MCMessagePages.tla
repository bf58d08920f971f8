--------------------------- MODULE MCMessagePages ---------------------------
(* MessagePages on a channel of a few messages, pages of two.              *)
EXTENDS MessagePages
=============================================================================
