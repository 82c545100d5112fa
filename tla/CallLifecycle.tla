--------------------------- MODULE CallLifecycle ---------------------------
(***************************************************************************)
(* What a call is to the two people in it: it rings, it is answered or not, *)
(* it ends once, and neither of them is in another call meanwhile.           *)
(***************************************************************************)
CONSTANTS Calls, Users

VARIABLES
  status,    \* where each call is in its life
  parties    \* the two accounts of each call

callVars == <<status, parties>>

Live == {"RINGING", "ACTIVE"}
Engaged(u) == \E c \in Calls : status[c] \in Live /\ u \in parties[c]

Init ==
  /\ status = [c \in Calls |-> "NONE"]
  /\ parties = [c \in Calls |-> {}]

Ring(c, u, v) ==
  /\ status[c] = "NONE" /\ u # v
  /\ ~Engaged(u) /\ ~Engaged(v)
  /\ status' = [status EXCEPT ![c] = "RINGING"]
  /\ parties' = [parties EXCEPT ![c] = {u, v}]

Move(c, from, to) ==
  /\ status[c] = from
  /\ status' = [status EXCEPT ![c] = to]
  /\ UNCHANGED parties

Next ==
  \E c \in Calls :
    \/ \E u, v \in Users : Ring(c, u, v)
    \/ \E s \in {"ACTIVE", "REJECTED", "CANCELLED", "MISSED"} : Move(c, "RINGING", s)
    \/ Move(c, "ACTIVE", "ENDED")

Spec == Init /\ [][Next]_callVars
=============================================================================
