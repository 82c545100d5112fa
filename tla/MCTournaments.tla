--------------------------- MODULE MCTournaments ---------------------------
EXTENDS Tournaments
=============================================================================
