--------------------------- MODULE MCCallSessions ---------------------------
(* Accounts that may all call each other, or of which only one calls.        *)
EXTENDS CallSessions, TLC

CONSTANT alice

MCShared == {<<u, v>> \in Users \X Users : u # v}
MCOneWay == {<<alice, u>> : u \in Users \ {alice}}
MCRows == Permutations(Handlers) \cup Permutations(Calls) \cup Permutations(Keys)
MCSymmetry == MCRows \cup Permutations(Users)
=============================================================================
