--------------------------- MODULE MCGameSessions ---------------------------
(* A short duel, with the handlers that race to end it.                      *)
EXTENDS GameSessions, TLC
=============================================================================
