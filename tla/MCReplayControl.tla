--------------------------- MODULE MCReplayControl ---------------------------
EXTENDS ReplayControl
=============================================================================
