--------------------------- MODULE TenderbakeVoting ---------------------------
(***************************************************************************)
(* What the bakers of one level promise each other: the discipline their   *)
(* votes follow, with nothing of how a baker comes to cast them.  Votes    *)
(* are never withdrawn; members outside Honest may have sent any vote.     *)
(* Baker implements this specification.                                    *)
(***************************************************************************)
EXTENDS Naturals

CONSTANTS Honest,   \* members that run the baker
          Quorums,  \* sets of members that reach the consensus threshold
          Round, Payload

(* Two quorums share an honest member: more than two thirds of the voting  *)
(* power, less than one third of it outside Honest.                        *)
ASSUME QuorumAssumption ==
  \A Q1, Q2 \in Quorums : Q1 \intersect Q2 \intersect Honest # {}
ASSUME RoundAssumption == Round \subseteq Nat

VARIABLES preattestations, attestations

votes == <<preattestations, attestations>>

Votes == [member : Honest, round : Round, payload : Payload]

vote(b, r, p) == [member |-> b, round |-> r, payload |-> p]

Prequorum(r, p) ==
  \E Q \in Quorums : \A b \in Q \intersect Honest : vote(b, r, p) \in preattestations
Quorum(r, p) ==
  \E Q \in Quorums : \A b \in Q \intersect Honest : vote(b, r, p) \in attestations

(* Mutant: having attested another payload does not matter. *)
Preattest_unlocked(b, r, p) ==
  /\ \A v \in preattestations : v.member = b => v.round # r
  /\ preattestations' = preattestations \union {vote(b, r, p)}
  /\ UNCHANGED attestations

(* An honest member preattests once per round.  If it attested another     *)
(* payload in an earlier round, a later prequorum for this one released it. *)
Preattest(b, r, p) ==
  /\ \A v \in preattestations : v.member = b => v.round # r
  /\ \A v \in attestations :
       v.member = b /\ v.round < r /\ v.payload # p =>
         \E r1 \in Round : v.round < r1 /\ r1 <= r /\ Prequorum(r1, p)
  /\ preattestations' = preattestations \union {vote(b, r, p)}
  /\ UNCHANGED attestations

(* Mutant: a round already left is attested. *)
Attest_left_round(b, r, p) ==
  /\ Prequorum(r, p)
  /\ \A v \in attestations : v.member = b => v.round # r
  /\ attestations' = attestations \union {vote(b, r, p)}
  /\ UNCHANGED preattestations

(* It attests once per round, what has a prequorum in that very round, and *)
(* never a round it has left by preattesting in a later one.               *)
Attest(b, r, p) ==
  /\ Prequorum(r, p)
  /\ \A v \in attestations : v.member = b => v.round # r
  /\ \A v \in preattestations : v.member = b => v.round <= r
  /\ attestations' = attestations \union {vote(b, r, p)}
  /\ UNCHANGED preattestations

Init == preattestations = {} /\ attestations = {}

Next == \E b \in Honest, r \in Round, p \in Payload :
          Preattest(b, r, p) \/ Attest(b, r, p)

Spec == Init /\ [][Next]_votes
-----------------------------------------------------------------------------
(* Votes are those of honest members, for rounds and payloads of the level. *)
TypeOK == preattestations \subseteq Votes /\ attestations \subseteq Votes

(* Two payloads never both reach a quorum at one level, whatever their     *)
(* rounds.                                                                 *)
Agreement ==
  \A r1, r2 \in Round, p1, p2 \in Payload :
    Quorum(r1, p1) /\ Quorum(r2, p2) => p1 = p2

(***************************************************************************)
(* Why agreement holds.  Voting in a later round for another payload needs *)
(* a prequorum, and whoever takes part in one either never attested the    *)
(* first payload or was released by an earlier prequorum: so a prequorum   *)
(* for another payload means that some whole quorum moved on past round r  *)
(* without attesting, and what moved on never attests round r again.       *)
(***************************************************************************)
(* One preattestation per member and round. *)
OnePreattestation ==
  \A v, w \in preattestations :
    v.member = w.member /\ v.round = w.round => v = w

(* What is attested has a prequorum in its round (may_inject_attestations). *)
AttestedHasPrequorum == \A v \in attestations : Prequorum(v.round, v.payload)

(* Member b is past round r and did not attest p there. *)
MovedOn(b, r, p) ==
  /\ vote(b, r, p) \notin attestations
  /\ \E w \in preattestations : w.member = b /\ w.round > r

(* A prequorum for another payload in a later round: some quorum moved on. *)
PrequorumMeansMovedOn ==
  \A r, r2 \in Round, p, q \in Payload :
    r < r2 /\ p # q /\ Prequorum(r2, q) =>
      \E Q \in Quorums : \A b \in Q \intersect Honest : MovedOn(b, r, p)

(* The lock: preattesting another payload after attesting p at round r     *)
(* takes a prequorum in between (handle_proposal).                         *)
LockHolds ==
  \A v \in attestations, w \in preattestations :
    /\ v.member = w.member /\ v.round < w.round /\ v.payload # w.payload
    => \E r1 \in Round : v.round < r1 /\ r1 <= w.round /\ Prequorum(r1, w.payload)

(* The inductive invariant behind Agreement. *)
IInv == /\ TypeOK
        /\ OnePreattestation
        /\ AttestedHasPrequorum
        /\ LockHolds
        /\ PrequorumMeansMovedOn
===============================================================================
