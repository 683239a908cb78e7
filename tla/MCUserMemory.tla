--------------------------- MODULE MCUserMemory ----------------------------
(* Memory maps: up to MaxFrames usable frames, with up to two gaps.         *)
EXTENDS UserMemory, FiniteSets

CONSTANT MaxFrames

InOrder(S) ==
    [i \in 1..Cardinality(S) |-> CHOOSE x \in S : Cardinality({y \in S : y < x}) = i - 1]
MCMaps ==
    {InOrder(0..n \ gaps) : n \in 1..MaxFrames,
                            gaps \in {g \in SUBSET (0..MaxFrames) : Cardinality(g) <= 2}}
=============================================================================
