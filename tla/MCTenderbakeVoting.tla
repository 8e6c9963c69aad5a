-------------------------- MODULE MCTenderbakeVoting --------------------------
(***************************************************************************)
(* Instances of TenderbakeVoting for TLC: four members, one of them not    *)
(* honest, any three of which are a quorum.                                *)
(***************************************************************************)
EXTENDS TenderbakeVoting, FiniteSets, TLC

CONSTANTS h1, h2, h3, z1, p, q   \* model values

ThreeOfFour == {Q \in SUBSET {h1, h2, h3, z1} : Cardinality(Q) = 3}

Interchangeable == Permutations(Honest) \union Permutations(Payload)
===============================================================================
