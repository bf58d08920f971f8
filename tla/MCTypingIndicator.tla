------------------------- MODULE MCTypingIndicator -------------------------
(* Two channels; requests take up to a second, so that a stop and the start  *)
(* of the next spell can change places.                                      *)
EXTENDS TypingIndicator
=============================================================================
