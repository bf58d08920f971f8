--------------------------- MODULE MCMessageCache ---------------------------
EXTENDS MessageCache
=============================================================================
