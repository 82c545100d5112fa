-------------------------- MODULE MCSocialMatching --------------------------
EXTENDS SocialMatching, TLC

MCCompatible == Pairs
MCSymmetry == Permutations(Members \ Fickle) \cup Permutations(Proposals) \cup Permutations(Handlers \ Overtaken)
=============================================================================
