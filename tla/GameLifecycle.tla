---------------------------- MODULE GameLifecycle ----------------------------
(***************************************************************************)
(* What the game platform promises of one game: it is played only once all   *)
(* have joined, it ends once, only play or an abandon gives it a winner, and *)
(* an ended game is never played again.  Moderation may still cancel a game  *)
(* that has just ended, and accounts may be deleted: their wins go with them. *)
(***************************************************************************)
CONSTANTS Players, Nobody

VARIABLE game

Open == {"WAITING", "ACTIVE"}
Ended == {"COMPLETED", "ABANDONED", "CANCELLED", "EXPIRED"}
Games == [status : {"NONE", "ERASED"} \cup Open \cup Ended, winner : Players \cup {Nobody}]
NoGame == [status |-> "NONE", winner |-> Nobody]

Offered(g) == IF g.status = "NONE" THEN {[g EXCEPT !.status = "WAITING"]} ELSE {}
Begun(g) == IF g.status = "WAITING" THEN {[g EXCEPT !.status = "ACTIVE"]} ELSE {}
PlayedOut(g) ==
  IF g.status = "ACTIVE"
  THEN {[status |-> "COMPLETED", winner |-> w] : w \in Players \cup {Nobody}}
         \cup {[status |-> "ABANDONED", winner |-> w] : w \in Players}
  ELSE {}
Closed(g) ==
  IF g.status \in Open THEN {[g EXCEPT !.status = s] : s \in {"CANCELLED", "EXPIRED"}} ELSE {}
LateCancelled(g) == IF g.status \in Ended THEN {[g EXCEPT !.status = "CANCELLED"]} ELSE {}
Forgotten(g) ==
  IF g.status \in Ended
  THEN {[g EXCEPT !.winner = Nobody], [status |-> "ERASED", winner |-> Nobody]}
  ELSE {}

\* The games one step may make of g.
After(g) ==
  Offered(g) \cup Begun(g) \cup PlayedOut(g) \cup Closed(g) \cup LateCancelled(g) \cup Forgotten(g)

Init == game = NoGame
Next == game' \in After(game)
Spec == Init /\ [][Next]_game
=============================================================================
