------------------------ MODULE TenderbakeVotingProofs ------------------------
(***************************************************************************)
(* Agreement of TenderbakeVoting, for every committee whose quorums share  *)
(* honest members, every set of rounds and every set of payloads.          *)
(***************************************************************************)
EXTENDS TenderbakeVoting, TLAPS

-----------------------------------------------------------------------------
(***************************************************************************)
(* Facts about votes                                                       *)
(***************************************************************************)
(* A vote is its member, its round and its payload. *)
LEMMA VoteIsTriple ==
  ASSUME NEW v \in Votes
  PROVE  /\ v.member \in Honest /\ v.round \in Round /\ v.payload \in Payload
         /\ v = vote(v.member, v.round, v.payload)
BY DEF Votes, vote

LEMMA VoteFields ==
  ASSUME NEW b \in Honest, NEW r \in Round, NEW p \in Payload
  PROVE  /\ vote(b, r, p) \in Votes
         /\ vote(b, r, p).member = b
         /\ vote(b, r, p).round = r
         /\ vote(b, r, p).payload = p
BY DEF Votes, vote

(* Prequorums are never lost. *)
LEMMA PrequorumStable ==
  ASSUME NEW r, NEW p, Prequorum(r, p), preattestations \subseteq preattestations'
  PROVE  Prequorum(r, p)'
BY DEF Prequorum

(* Every quorum has an honest member. *)
LEMMA QuorumHasHonest ==
  ASSUME NEW Q \in Quorums
  PROVE  \E b \in Q \intersect Honest : TRUE
BY QuorumAssumption

-----------------------------------------------------------------------------
(***************************************************************************)
(* Steps                                                                   *)
(***************************************************************************)
(* A preattestation keeps the invariant: the only hard part is a prequorum *)
(* it completes.                                                           *)
LEMMA PreattestKeepsIInv ==
  ASSUME IInv, NEW b \in Honest, NEW r \in Round, NEW p \in Payload,
         Preattest(b, r, p)
  PROVE  IInv'
<1> DEFINE new == vote(b, r, p)
<1>1. /\ preattestations' = preattestations \union {new}
      /\ attestations' = attestations
      /\ preattestations \subseteq preattestations'
  BY DEF Preattest
<1>2. new \in Votes /\ new.member = b /\ new.round = r /\ new.payload = p
  BY VoteFields
<1> HIDE DEF new
<1>3. TypeOK'
  BY <1>1, <1>2 DEF IInv, TypeOK
<1>4. OnePreattestation'
  <2>1. ASSUME NEW v \in preattestations, v.member = b, v.round = r  PROVE FALSE
    BY <2>1 DEF Preattest
  <2> QED  BY <2>1, <1>1, <1>2 DEF IInv, OnePreattestation
<1>5. AttestedHasPrequorum'
  BY <1>1, PrequorumStable DEF IInv, AttestedHasPrequorum
<1>6. LockHolds'
  <2> SUFFICES ASSUME NEW v \in attestations', NEW w \in preattestations',
                      v.member = w.member, v.round < w.round,
                      v.payload # w.payload
               PROVE  \E r1 \in Round : /\ v.round < r1 /\ r1 <= w.round
                                        /\ Prequorum(r1, w.payload)'
    BY DEF LockHolds
  <2>1. PICK r1 \in Round : v.round < r1 /\ r1 <= w.round /\ Prequorum(r1, w.payload)
    <3>1. CASE w \in preattestations
      BY <3>1, <1>1 DEF IInv, LockHolds
    <3>2. CASE w = new
      BY <3>2, <1>1, <1>2 DEF Preattest
    <3> QED  BY <3>1, <3>2, <1>1
  <2> QED  BY <2>1, <1>1, PrequorumStable
<1>7. PrequorumMeansMovedOn'
  <2> SUFFICES ASSUME NEW r0 \in Round, NEW r2 \in Round,
                      NEW p0 \in Payload, NEW q \in Payload,
                      r0 < r2, p0 # q, Prequorum(r2, q)'
               PROVE  \E Q \in Quorums : \A c \in Q \intersect Honest :
                         MovedOn(c, r0, p0)'
    BY <1>1 DEF PrequorumMeansMovedOn
  <2>0. \A c : MovedOn(c, r0, p0) => MovedOn(c, r0, p0)'
    BY <1>1 DEF MovedOn
  <2>1. CASE \E r1 \in Round : r0 < r1 /\ Prequorum(r1, q)
    BY <2>1, <2>0 DEF IInv, PrequorumMeansMovedOn
  (* Otherwise q had no prequorum after r0: nobody could be released, and  *)
  (* the quorum just completed is the one that moved on.                   *)
  <2>2. CASE \A r1 \in Round : r0 < r1 => ~Prequorum(r1, q)
    <3>1. PICK Q \in Quorums : \A c \in Q \intersect Honest :
                                 vote(c, r2, q) \in preattestations'
      BY DEF Prequorum
    <3>2. ASSUME NEW c \in Q \intersect Honest  PROVE MovedOn(c, r0, p0)'
      <4>1. /\ vote(c, r2, q) \in preattestations'
            /\ vote(c, r2, q).member = c
            /\ vote(c, r2, q).round = r2
            /\ vote(c, r2, q).payload = q
        BY <3>1, VoteFields
      <4>2. r2 > r0
        BY RoundAssumption
      <4>3. vote(c, r0, p0) \notin attestations
        <5> SUFFICES ASSUME vote(c, r0, p0) \in attestations  PROVE FALSE
          OBVIOUS
        <5>1. /\ vote(c, r0, p0).member = c
              /\ vote(c, r0, p0).round = r0
              /\ vote(c, r0, p0).payload = p0
          BY VoteFields
        <5>2. CASE vote(c, r2, q) \in preattestations
          BY <5>1, <5>2, <4>1, <2>2 DEF IInv, LockHolds
        <5>3. CASE vote(c, r2, q) = new
          <6>1. c = b /\ r2 = r /\ q = p
            BY <5>3, <4>1, <1>2
          <6> QED  BY <6>1, <5>1, <2>2 DEF Preattest
        <5> QED  BY <5>2, <5>3, <4>1, <1>1
      <4> QED  BY <4>1, <4>2, <4>3, <1>1 DEF MovedOn
    <3> QED  BY <3>2
  <2> QED  BY <2>1, <2>2
<1> QED  BY <1>3, <1>4, <1>5, <1>6, <1>7 DEF IInv

(* An attestation keeps the invariant: who moved on past its round is not  *)
(* the one who attests.                                                    *)
LEMMA AttestKeepsIInv ==
  ASSUME IInv, NEW b \in Honest, NEW r \in Round, NEW p \in Payload,
         Attest(b, r, p)
  PROVE  IInv'
<1> DEFINE new == vote(b, r, p)
<1>1. attestations' = attestations \union {new} /\ preattestations' = preattestations
  BY DEF Attest
<1>2. new \in Votes /\ new.member = b /\ new.round = r /\ new.payload = p
  BY VoteFields
<1>3. \A r1, q : Prequorum(r1, q) <=> Prequorum(r1, q)'
  BY <1>1 DEF Prequorum
<1>4. \A w \in preattestations : w.member = b => w.round <= r
  BY DEF Attest
<1> HIDE DEF new
<1>5. TypeOK'
  BY <1>1, <1>2 DEF IInv, TypeOK
<1>6. OnePreattestation'
  BY <1>1 DEF IInv, OnePreattestation
<1>7. AttestedHasPrequorum'
  <2>1. Prequorum(new.round, new.payload)
    BY <1>2 DEF Attest
  <2> QED  BY <2>1, <1>1, <1>3 DEF IInv, AttestedHasPrequorum
<1>8. LockHolds'
  <2> SUFFICES ASSUME NEW v \in attestations', NEW w \in preattestations,
                      v.member = w.member, v.round < w.round,
                      v.payload # w.payload
               PROVE  \E r1 \in Round : /\ v.round < r1 /\ r1 <= w.round
                                        /\ Prequorum(r1, w.payload)
    BY <1>1, <1>3 DEF LockHolds
  <2>1. CASE v \in attestations
    BY <2>1 DEF IInv, LockHolds
  <2>2. CASE v = new
    <3>1. w.round \in Nat /\ r \in Nat
      BY VoteIsTriple, RoundAssumption DEF IInv, TypeOK
    <3> QED  BY <3>1, <2>2, <1>2, <1>4
  <2> QED  BY <2>1, <2>2, <1>1
<1>9. PrequorumMeansMovedOn'
  <2> SUFFICES ASSUME NEW r0 \in Round, NEW r2 \in Round,
                      NEW p0 \in Payload, NEW q \in Payload,
                      r0 < r2, p0 # q, Prequorum(r2, q)
               PROVE  \E Q \in Quorums : \A c \in Q \intersect Honest :
                         MovedOn(c, r0, p0)'
    BY <1>3 DEF PrequorumMeansMovedOn
  <2>1. PICK Q \in Quorums : \A c \in Q \intersect Honest : MovedOn(c, r0, p0)
    BY DEF IInv, PrequorumMeansMovedOn
  <2>2. ASSUME NEW c \in Q \intersect Honest  PROVE MovedOn(c, r0, p0)'
    <3>1. PICK w \in preattestations : w.member = c /\ w.round > r0
      BY <2>1 DEF MovedOn
    <3>2. vote(c, r0, p0) # new
      <4> SUFFICES ASSUME vote(c, r0, p0) = new  PROVE FALSE
        OBVIOUS
      <4>1. c = b /\ r0 = r
        BY <1>2, VoteFields
      <4>2. w.round \in Nat /\ r \in Nat
        BY VoteIsTriple, RoundAssumption DEF IInv, TypeOK
      <4> QED  BY <4>1, <4>2, <3>1, <1>4
    <3> QED  BY <3>1, <3>2, <2>1, <1>1 DEF MovedOn
  <2> QED  BY <2>2
<1> QED  BY <1>5, <1>6, <1>7, <1>8, <1>9 DEF IInv

-----------------------------------------------------------------------------
(***************************************************************************)
(* The invariant gives agreement                                           *)
(***************************************************************************)
(* Two prequorums of one round are for one payload. *)
LEMMA OnePrequorum ==
  ASSUME OnePreattestation, NEW r \in Round,
         NEW p \in Payload, NEW q \in Payload, Prequorum(r, p), Prequorum(r, q)
  PROVE  p = q
<1>1. PICK Q1 \in Quorums : \A b \in Q1 \intersect Honest :
                              vote(b, r, p) \in preattestations
  BY DEF Prequorum
<1>2. PICK Q2 \in Quorums : \A b \in Q2 \intersect Honest :
                              vote(b, r, q) \in preattestations
  BY DEF Prequorum
<1>3. PICK b \in Honest : b \in Q1 /\ b \in Q2
  BY QuorumAssumption
<1>4. vote(b, r, p) = vote(b, r, q)
  BY <1>1, <1>2, <1>3, VoteFields DEF OnePreattestation
<1> QED  BY <1>4, VoteFields

(* A quorum rests on a prequorum of its round. *)
LEMMA QuorumHasPrequorum ==
  ASSUME AttestedHasPrequorum, NEW r \in Round, NEW p \in Payload, Quorum(r, p)
  PROVE  Prequorum(r, p)
<1>1. PICK Q \in Quorums : \A b \in Q \intersect Honest :
                             vote(b, r, p) \in attestations
  BY DEF Quorum
<1>2. PICK b \in Q \intersect Honest : TRUE
  BY QuorumHasHonest
<1> QED  BY <1>1, <1>2, VoteFields DEF AttestedHasPrequorum

(* A quorum for p at round r excludes a prequorum for q after r. *)
LEMMA QuorumIsFinal ==
  ASSUME PrequorumMeansMovedOn, NEW r \in Round, NEW r2 \in Round,
         NEW p \in Payload, NEW q \in Payload,
         Quorum(r, p), Prequorum(r2, q), r < r2
  PROVE  p = q
<1> SUFFICES ASSUME p # q  PROVE FALSE
  OBVIOUS
<1>1. PICK Q1 \in Quorums : \A b \in Q1 \intersect Honest : MovedOn(b, r, p)
  BY DEF PrequorumMeansMovedOn
<1>2. PICK Q2 \in Quorums : \A b \in Q2 \intersect Honest :
                              vote(b, r, p) \in attestations
  BY DEF Quorum
<1>3. PICK b \in Honest : b \in Q1 /\ b \in Q2
  BY QuorumAssumption
<1> QED  BY <1>1, <1>2, <1>3 DEF MovedOn

LEMMA IInvAgreement == IInv => Agreement
<1> SUFFICES ASSUME IInv, NEW r1 \in Round, NEW r2 \in Round,
                    NEW p1 \in Payload, NEW p2 \in Payload,
                    Quorum(r1, p1), Quorum(r2, p2)
             PROVE  p1 = p2
  BY DEF Agreement
<1>1. Prequorum(r1, p1) /\ Prequorum(r2, p2)
  BY QuorumHasPrequorum DEF IInv
<1>2. CASE r1 = r2
  BY <1>1, <1>2, OnePrequorum DEF IInv
<1>3. CASE r1 < r2
  BY <1>1, <1>3, QuorumIsFinal DEF IInv
<1>4. CASE r2 < r1
  BY <1>1, <1>4, QuorumIsFinal DEF IInv
<1>5. r1 \in Nat /\ r2 \in Nat
  BY RoundAssumption
<1> QED  BY <1>2, <1>3, <1>4, <1>5

-----------------------------------------------------------------------------
(***************************************************************************)
(* Theorems                                                                *)
(***************************************************************************)
(* The invariant holds in every behaviour: votes are well formed, a member *)
(* preattests once per round, attests on a prequorum, and a prequorum for  *)
(* another payload takes a quorum that moved on.                           *)
THEOREM Invariance == Spec => []IInv
<1>1. Init => IInv
  <2> SUFFICES ASSUME Init  PROVE IInv
    OBVIOUS
  <2>1. preattestations = {} /\ attestations = {}
    BY DEF Init
  <2>2. ASSUME NEW r, NEW p, Prequorum(r, p)  PROVE FALSE
    BY <2>1, <2>2, QuorumHasHonest DEF Prequorum
  <2>3. PrequorumMeansMovedOn
    BY <2>2 DEF PrequorumMeansMovedOn
  <2> QED  BY <2>1, <2>3 DEF IInv, TypeOK, OnePreattestation,
                               AttestedHasPrequorum, LockHolds
<1>2. IInv /\ [Next]_votes => IInv'
  <2> SUFFICES ASSUME IInv, [Next]_votes  PROVE IInv'
    OBVIOUS
  <2>1. CASE Next
    BY <2>1, PreattestKeepsIInv, AttestKeepsIInv DEF Next
  <2>2. CASE UNCHANGED votes
    BY <2>2 DEF votes, IInv, TypeOK, OnePreattestation, AttestedHasPrequorum,
                LockHolds, PrequorumMeansMovedOn, MovedOn, Prequorum
  <2> QED  BY <2>1, <2>2
<1> QED  BY <1>1, <1>2, PTL DEF Spec

(* Safety of Tenderbake at a level: two payloads never both reach an       *)
(* attestation quorum, in whatever rounds.                                 *)
THEOREM AgreementHolds == Spec => []Agreement
BY Invariance, IInvAgreement, PTL
===============================================================================
