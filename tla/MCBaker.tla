-------------------------------- MODULE MCBaker --------------------------------
(***************************************************************************)
(* Instances of Baker for TLC: committees, proposers and bounds on rounds. *)
(***************************************************************************)
EXTENDS Baker

CONSTANTS b1, b2, p1, z1   \* model values

(* Committees.  Three members, any two of which are a quorum; two bakers   *)
(* that need each other; the same with a Byzantine third member; one baker *)
(* among peers that alone reach the threshold.                             *)
TwoOfThree == {Q \in SUBSET (Bakers \union Peers) : Cardinality(Q) = 2}
BothBakers == {{b1, b2}}
BothBakersAndByzantine == {{b1, b2, z1}}
PeersAlone == {{p1}}

(* Who proposes. *)
Alternating(level, round) == IF (level + round) % 2 = 1 THEN b1 ELSE b2
FirstBaker(level, round) == b1
ByzantineFirst(level, round) == IF round = 0 THEN z1 ELSE b1
OnlyPeers(level, round) == p1
BakerThenPeer(level, round) == IF round = 0 THEN b1 ELSE p1
BakerSecond(level, round) == IF level = 1 /\ round = 1 THEN b1 ELSE p1

(* Bounds on rounds: the last round of levels 0, 1, ... *)
Upto(rounds) == [level \in 0 .. Len(rounds) |-> IF level = 0 THEN 0 ELSE rounds[level]]
TwoRounds == Upto(<<1>>)
ThreeRounds == Upto(<<2>>)
OneRoundTwice == Upto(<<0, 0>>)
TwoRoundsTwice == Upto(<<1, 1>>)
===============================================================================
