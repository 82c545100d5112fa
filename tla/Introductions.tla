---------------------------- MODULE Introductions ----------------------------
(***************************************************************************)
(* What matchmaking promises its members: two people whom no refusal keeps    *)
(* apart are introduced to one another, each to one at a time; both accept or  *)
(* the introduction is closed; an agreement is never an open proposal again;  *)
(* and a member who deletes the account is in no introduction any more.       *)
(***************************************************************************)
CONSTANTS Members, Places

VARIABLES
  proposal,   \* the introduction of each place
  apart       \* pairs that a refusal or a block keeps apart

introVars == <<proposal, apart>>

Closed == [status |-> "CLOSED", pair |-> {}, accepts |-> {}]
Busy(u) == \E p \in Places : proposal[p].status = "PENDING" /\ u \in proposal[p].pair

Init == proposal = [p \in Places |-> Closed] /\ apart = {}

Introduce(p, u, v) ==
  /\ proposal[p] = Closed
  /\ u # v /\ ~Busy(u) /\ ~Busy(v) /\ {u, v} \notin apart
  /\ proposal' = [proposal EXCEPT ![p] = [status |-> "PENDING", pair |-> {u, v}, accepts |-> {}]]
  /\ UNCHANGED apart

\* The acceptance that completes a pair of two concludes it.
Accept(p, u) ==
  LET accepts == proposal[p].accepts \cup {u}
      pair == proposal[p].pair
  IN /\ proposal[p].status = "PENDING" /\ u \in pair \ proposal[p].accepts
     /\ proposal' = [proposal EXCEPT ![p] =
          [status |-> IF accepts = pair /\ pair # {u} THEN "ACCEPTED" ELSE "PENDING",
           pair |-> pair, accepts |-> accepts]]
     /\ UNCHANGED apart

Refuse(p, u) ==
  /\ proposal[p].status = "PENDING" /\ u \in proposal[p].pair \ proposal[p].accepts
  /\ proposal' = [proposal EXCEPT ![p] = Closed]
  /\ apart' = apart \cup {{u, v} : v \in proposal[p].pair \ {u}}

\* It is left or expires; a leaving overtaken by the second acceptance still closes it.
Close(p) ==
  /\ proposal[p].status \in {"PENDING", "ACCEPTED"}
  /\ proposal' = [proposal EXCEPT ![p] = Closed]
  /\ UNCHANGED apart

\* Refusals are forgotten, and blocks are lifted.
Relent == UNCHANGED proposal /\ apart' \subseteq apart

\* The account of u is deleted, and the proposal it was in closed, if any was.
Forget(u) ==
  /\ \E open \in {proposal} \cup {[proposal EXCEPT ![p] = Closed] : p \in Places} :
       proposal' = [p \in Places |-> [open[p] EXCEPT !.pair = @ \ {u}, !.accepts = @ \ {u}]]
  /\ apart' = {pair \in apart : u \notin pair}

Next ==
  \/ Relent
  \/ \E p \in Places :
       \/ \E u, v \in Members : Introduce(p, u, v)
       \/ \E u \in Members : Accept(p, u) \/ Refuse(p, u)
       \/ Close(p)
  \/ \E u \in Members : Forget(u)

Spec == Init /\ [][Next]_introVars
=============================================================================
