------------------------------ MODULE PulseDuel ------------------------------
(***************************************************************************)
(* PulseDuelEngine (apps/api/src/games/game-platform.domain.ts): two players *)
(* choose a value each round, the first of the round alternates, the nearer  *)
(* to the server's target scores, and the higher score of all rounds wins.   *)
(***************************************************************************)
EXTENDS Integers

CONSTANTS
  Rounds,     \* rounds of a duel (5)
  MaxValue,   \* values are 1..MaxValue (9)
  Nobody      \* no position

ASSUME DuelAssumption ==
  /\ Rounds \in Nat \ {0} /\ MaxValue \in Nat \ {0}
  /\ Nobody \notin {0, 1}

Positions == {0, 1}
Other(p) == 1 - p
Values == 1..MaxValue

NoPulse == [position |-> Nobody, value |-> 0]
Pulses == [position : Positions \cup {Nobody}, value : 0..MaxValue]
Duels == [round : 1..Rounds, starter : Positions, turn : Positions, scores : [Positions -> Nat],
          pending : Pulses, over : BOOLEAN, winner : Positions \cup {Nobody}]

createInitialState ==
  [round |-> 1, starter |-> 0, turn |-> 0, scores |-> [p \in Positions |-> 0],
   pending |-> NoPulse, over |-> FALSE, winner |-> Nobody]

CanPulse(duel, p) == ~duel.over /\ p = duel.turn /\ duel.pending.position # p

Distance(value, target) == IF value >= target THEN value - target ELSE target - value

\* The position with the least of two numbers, or nobody.
Least(n) == IF n[0] = n[1] THEN Nobody ELSE IF n[0] < n[1] THEN 0 ELSE 1

Leader(scores) == Least([p \in Positions |-> -scores[p]])

ChooseFirst(duel, p, value) ==
  [duel EXCEPT !.pending = [position |-> p, value |-> value], !.turn = Other(p)]

\* The scores once p, the second of the round, has chosen.
Scores(duel, p, value, target) ==
  LET values == [q \in Positions |-> IF q = p THEN value ELSE duel.pending.value]
      point == Least([q \in Positions |-> Distance(values[q], target)])
  IN [q \in Positions |-> duel.scores[q] + (IF q = point THEN 1 ELSE 0)]

EndRound(duel, scores) ==
  IF duel.round >= Rounds
  THEN [duel EXCEPT !.scores = scores, !.pending = NoPulse, !.over = TRUE, !.winner = Leader(scores)]
  ELSE [duel EXCEPT !.scores = scores, !.pending = NoPulse, !.round = @ + 1,
                    !.starter = Other(@), !.turn = Other(duel.starter)]

Pulse(duel, p, value, target) ==
  IF duel.pending = NoPulse THEN ChooseFirst(duel, p, value)
  ELSE EndRound(duel, Scores(duel, p, value, target))
=============================================================================
