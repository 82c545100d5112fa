-------------------------- MODULE MCKnowCoinLedger --------------------------
(* Two accounts and a stranger, two keys, two concurrent handlers.          *)
EXTENDS KnowCoinLedger, TLC

CONSTANTS alice, bob, nobody, k1, k2, c1, c2

MCOpening == (alice :> 2) @@ (bob :> 0)
MCAmounts == {-2, 1, 4}
Symmetric == Permutations(Callers)
=============================================================================
