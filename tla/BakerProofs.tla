------------------------------ MODULE BakerProofs ------------------------------
(***************************************************************************)
(* Safety of Baker for every committee, every bound, every schedule.       *)
(***************************************************************************)
EXTENDS Baker, StateTransitionsProofs, SequenceTheorems

(***************************************************************************)
(* The inductive invariant                                                 *)
(***************************************************************************)
Payloads(B) == [pred : B \union {None}, round : Nat, ops : Ops \union {None}]

(* A block that may be sent, for a set B of blocks and a set C of certified *)
(* votes: it extends one of B, within the bounds, and its certificate is   *)
(* real.                                                                   *)
Extends(p, B, C) ==
  /\ p \in Block(Payloads(B))
  /\ predecessor(p) \in B
  /\ p.level = predecessor(p).level + 1
  /\ p.level <= MaxLevel
  /\ p.round \in Rounds(p.level)
  /\ p.pqc # NoRound => Cert(p.level, p.pqc, p.payload) \in C

Chain(B, C) == Genesis \in B /\ \A p \in B : p = Genesis \/ Extends(p, B, C)

(* The votes that have a prequorum. *)
CertifiedBy(votes, B) ==
  {v \in [level : Nat, round : Nat, payload : Payloads(B)] :
     \E Q \in Quorums : Sent(votes, v, Q)}
Certified == CertifiedBy(preattestations, blocks)

BlockInv == Chain(blocks, Certified)

(* What a member has signed. *)
SentBy(m, votes) == {w.vote : w \in {x \in votes : x.member = m}}
Preattested(m) == SentBy(m, preattestations)
Attested(b) == SentBy(b, attestations) \union rs(b).early_attestations
Baked(b) == {p \in blocks \ {Genesis} : RoundProposer(p.level, p.round) = b}

OnePerRound(V) ==
  \A v, w \in V : v.level = w.level /\ v.round = w.round => v = w
Below(V, hw) == \A v \in V : ~may_sign(hw, v.level, v.round)

SentVotes == [member : Bakers \union Peers, vote : VotesFor(blocks)]
VoteInv ==
  /\ preattestations \subseteq SentVotes
  /\ attestations \subseteq SentVotes
  /\ \A m \in Peers : OnePerRound(Preattested(m))

StateInv(b) ==
  Good(state[b], b, blocks, Payloads(blocks), Certified, Attested(b))

StateData(B) == [level : OptRound, locked_round : Lock(Payloads(B)),
                 attestable_payload : Attestable(B)]
RecordedInv(b) ==
  LET d == recorded[b]
  IN  /\ d \in StateData(blocks)
      /\ SoundData(d.level, d.locked_round, d.attestable_payload, blocks, Certified)

(* What the workers of b may hold. *)
Watches == [kind : {"prequorum", "quorum"}, candidate : blocks]
Events == {e \in Watches : IF e.kind = "prequorum"
                           THEN Prequorum(Vote(e.candidate))
                           ELSE Quorum(Vote(e.candidate))}
Proposable(b, B, C) ==
  {p \in Block(Payloads(B)) :
     Extends(p, B, C) /\ RoundProposer(p.level, p.round) = b}
RequestsFor(V, R) ==
  [kind : {"preattestation", "attestation"}, content : V]
  \union [kind : {"block"}, content : R]
Requests(b) == RequestsFor(VotesFor(blocks), Proposable(b, blocks, Certified))

WorkerInv(b) ==
  /\ proposal_watched[b] \in Watches \union {None}
  /\ qc_event_stream[b] \in Seq(Events)
  /\ forge_requests[b] \in Seq(Requests(b))

(* Everything signed is below the high watermark of its kind, and differs  *)
(* in level or round.                                                      *)
Signed(V, hw) == OnePerRound(V) /\ Below(V, hw)
WatermarkInv(b) ==
  /\ Attested(b) \subseteq VotesFor(blocks)
  /\ Signed(Preattested(b), highwatermarks[b]["preattestation"])
  /\ Signed(Attested(b), highwatermarks[b]["attestation"])
  /\ Signed(Baked(b), highwatermarks[b]["block"])

DomainInv ==
  /\ DOMAIN state = Bakers
  /\ DOMAIN proposal_watched = Bakers
  /\ DOMAIN qc_event_stream = Bakers
  /\ DOMAIN forge_requests = Bakers
  /\ DOMAIN recorded = Bakers
  /\ DOMAIN unrecorded = Bakers
  /\ DOMAIN head = Bakers
  /\ highwatermarks \in [Bakers -> [Kinds -> [level : Int, round : Int]]]

BakerInv(b) ==
  /\ StateInv(b)
  /\ RecordedInv(b)
  /\ WorkerInv(b)
  /\ WatermarkInv(b)
  /\ head[b] \in blocks

Inv ==
  /\ BlockInv
  /\ VoteInv
  /\ DomainInv
  /\ \A b \in Bakers : BakerInv(b)

-----------------------------------------------------------------------------
(***************************************************************************)
(* Blocks and votes                                                        *)
(***************************************************************************)
(* The types of the blocks of a chain. *)
LEMMA BlockTypes ==
  ASSUME NEW B, NEW C, Chain(B, C)
  PROVE  /\ B \subseteq Block(Payloads(B))
         /\ \A p \in B : /\ p.level \in 0 .. MaxLevel
                         /\ p.level \in Nat /\ p.round \in Nat
                         /\ p # Genesis => p.level > 0
<1>1. /\ Genesis \in Block(Payloads(B))
      /\ Genesis.level = 0 /\ Genesis.round = 0
  BY DEF Genesis, Payloads, Block, OptRound
<1>2. \A p \in B : p \in Block(Payloads(B))
  BY <1>1 DEF Chain, Extends
<1>3. \A p \in B : p.level \in Nat /\ p.round \in Nat
  BY <1>2 DEF Block
<1> QED
  BY <1>1, <1>2, <1>3, BoundsAssumption DEF Chain, Extends

(* The types of votes. *)
LEMMA VoteTypes ==
  ASSUME BlockInv, NEW v \in VotesFor(blocks)
  PROVE  /\ v \in [level : Nat, round : Nat, payload : Payloads(blocks)]
         /\ v.level \in Int /\ v.round \in Int
<1>1. PICK p \in blocks : v = Vote(p)
  BY DEF VotesFor
<1> QED
  BY <1>1, BlockTypes DEF BlockInv, Vote, Block

(* Blocks that other members send extend the network too, and are of       *)
(* rounds that are not the bakers'.                                        *)
LEMMA ForeignExtends ==
  ASSUME BlockInv, NEW p \in ForeignBlocks
  PROVE  /\ Extends(p, blocks, Certified)
         /\ RoundProposer(p.level, p.round) \notin Bakers
<1>1. RoundProposer(p.level, p.round) \notin Bakers
  BY MembersAssumption DEF ForeignBlocks
<1>2. CASE p \in ForeignFreshBlocks
  <2>1. PICK q \in blocks :
          /\ q.level < MaxLevel
          /\ \E r \in Rounds(q.level + 1), ops \in Ops : p = FreshBlock(q, r, ops)
    BY <1>2 DEF ForeignFreshBlocks
  <2>2. PICK r \in Rounds(q.level + 1), ops \in Ops : p = FreshBlock(q, r, ops)
    BY <2>1
  <2>3. q.level \in Nat /\ r \in Nat /\ q.level + 1 \in 0 .. MaxLevel
    BY <2>1, BlockTypes, BoundsAssumption DEF BlockInv, Rounds
  <2> QED
    BY <1>1, <2>1, <2>2, <2>3
    DEF Extends, FreshBlock, Block, Payloads, OptRound, predecessor
<1>3. CASE p \in ForeignReproposals
  <2>1. PICK q \in blocks \ {Genesis} :
          p \in UNION {{ReproposedBlock([proposal |-> q, prequorum |-> k], r) :
                          r \in k + 1 .. MaxRound[q.level]} :
                       k \in {n \in Rounds(q.level) :
                                Prequorum([Vote(q) EXCEPT !.round = n])}}
    BY <1>3 DEF ForeignReproposals
  <2>2. \E k \in Rounds(q.level) : \E r \in k + 1 .. MaxRound[q.level] :
          /\ Prequorum([Vote(q) EXCEPT !.round = k])
          /\ p = ReproposedBlock([proposal |-> q, prequorum |-> k], r)
    BY <2>1
  <2>3. PICK k \in Rounds(q.level), r \in Int :
          /\ r \in k + 1 .. MaxRound[q.level]
          /\ Prequorum([Vote(q) EXCEPT !.round = k])
          /\ p = ReproposedBlock([proposal |-> q, prequorum |-> k], r)
    BY <2>2
  <2>4. Extends(q, blocks, Certified) /\ q \in Block(Payloads(blocks))
    BY BlockTypes DEF BlockInv, Chain
  <2>5. k \in Nat /\ r \in Nat /\ r \in Rounds(q.level)
    BY <2>3, BlockTypes, BoundsAssumption DEF BlockInv, Rounds
  <2>6. Cert(q.level, k, q.payload) \in Certified
    <3>1. [Vote(q) EXCEPT !.round = k] = Cert(q.level, k, q.payload)
      BY DEF Vote, Cert
    <3>2. Cert(q.level, k, q.payload)
            \in [level : Nat, round : Nat, payload : Payloads(blocks)]
      BY <2>4, <2>5 DEF Cert, Block
    <3> QED  BY <2>3, <3>1, <3>2 DEF Certified, CertifiedBy, Prequorum
  <2>7. p = [q EXCEPT !.round = r, !.pqc = k]
    BY <2>3 DEF ReproposedBlock
  <2>8. /\ p \in Block(Payloads(blocks))
        /\ p.level = q.level /\ p.payload = q.payload
        /\ p.pqc = k /\ p.round = r
    BY <2>7, <2>4, <2>5 DEF Block, OptRound
  <2> QED  BY <2>3, <2>4, <2>5, <2>6, <2>8, <1>1 DEF Extends, predecessor
<1> QED  BY <1>1, <1>2, <1>3 DEF ForeignBlocks

(* Two prequorums of a level and a round are for one payload: they share   *)
(* an honest member, and it preattests once.                               *)
LEMMA OnePayloadCertified ==
  ASSUME Inv, NEW B
  PROVE  OnePayload(CertifiedBy(preattestations, B))
<1> SUFFICES ASSUME NEW v \in CertifiedBy(preattestations, B),
                    NEW w \in CertifiedBy(preattestations, B),
                    v.level = w.level, v.round = w.round
             PROVE  v.payload = w.payload
  BY DEF OnePayload
<1>1. PICK Q1 \in Quorums : Sent(preattestations, v, Q1)
  BY DEF CertifiedBy
<1>2. PICK Q2 \in Quorums : Sent(preattestations, w, Q2)
  BY DEF CertifiedBy
<1>3. PICK m \in Q1 \intersect Q2 : m \notin Byzantine
  BY QuorumAssumption
<1>4. m \in Bakers \union Peers
  BY <1>3, MembersAssumption DEF Members
<1>5. v \in Preattested(m) /\ w \in Preattested(m)
  <2>1. /\ [member |-> m, vote |-> v] \in preattestations
        /\ [member |-> m, vote |-> w] \in preattestations
    BY <1>1, <1>2, <1>3 DEF Sent
  <2> QED  BY <2>1 DEF Preattested, SentBy
<1>6. OnePerRound(Preattested(m))
  BY <1>4 DEF Inv, VoteInv, BakerInv, WatermarkInv, Signed
<1> QED  BY <1>5, <1>6 DEF OnePerRound

-----------------------------------------------------------------------------
(***************************************************************************)
(* The network only grows, and with it everything it justifies             *)
(***************************************************************************)
Grows ==
  /\ blocks \subseteq blocks'
  /\ preattestations \subseteq preattestations'
  /\ attestations \subseteq attestations'

(* What is certified stays so. *)
LEMMA CertifiedGrows ==
  ASSUME NEW V, NEW W, NEW B, NEW D, V \subseteq W, B \subseteq D
  PROVE  /\ Payloads(B) \subseteq Payloads(D)
         /\ CertifiedBy(V, B) \subseteq CertifiedBy(W, D)
         /\ VotesFor(B) \subseteq VotesFor(D)
<1>1. Payloads(B) \subseteq Payloads(D)
  BY DEF Payloads
<1>2. \A v : (\E Q \in Quorums : Sent(V, v, Q)) => (\E Q \in Quorums : Sent(W, v, Q))
  BY DEF Sent
<1>3. CertifiedBy(V, B) \subseteq CertifiedBy(W, D)
  BY <1>1, <1>2 DEF CertifiedBy
<1> QED  BY <1>1, <1>3 DEF VotesFor

(* Prequorums and quorums remain. *)
LEMMA QuorumsRemain ==
  ASSUME Grows, NEW v
  PROVE  /\ Prequorum(v) => Prequorum(v)'
         /\ Quorum(v) => Quorum(v)'
BY DEF Grows, Prequorum, Quorum, Sent

(* A block that may be sent remains so. *)
LEMMA ExtendsRemains ==
  ASSUME NEW B, NEW C, NEW B2, NEW C2, B \subseteq B2, C \subseteq C2,
         NEW p, Extends(p, B, C)
  PROVE  Extends(p, B2, C2)
<1>1. Payloads(B) \subseteq Payloads(B2)
  BY CertifiedGrows
<1>2. p \in Block(Payloads(B2))
  BY <1>1 DEF Block, Extends
<1> QED  BY <1>2 DEF Extends

(* And so does one that may be proposed. *)
LEMMA ProposableRemains ==
  ASSUME NEW b, NEW B, NEW C, NEW B2, NEW C2, B \subseteq B2, C \subseteq C2
  PROVE  Proposable(b, B, C) \subseteq Proposable(b, B2, C2)
BY ExtendsRemains DEF Proposable, Extends

(* What the workers may hold remains so. *)
LEMMA WorkersRemain ==
  ASSUME Grows, NEW b
  PROVE  /\ Watches \subseteq Watches'
         /\ Events \subseteq Events'
         /\ Certified \subseteq Certified'
         /\ Requests(b) \subseteq Requests(b)'
<1>1. Watches \subseteq Watches'
  BY DEF Grows, Watches
<1>2. \A v : /\ Prequorum(v) => Prequorum(v)'
             /\ Quorum(v) => Quorum(v)'
  BY QuorumsRemain
<1>3. Events \subseteq Events'
  BY <1>1, <1>2 DEF Events
<1>4. Certified \subseteq Certified' /\ blocks \subseteq blocks'
  BY CertifiedGrows DEF Grows, Certified
<1>5. VotesFor(blocks) \subseteq VotesFor(blocks')
  BY CertifiedGrows DEF Grows
<1>6. Requests(b) \subseteq Requests(b)'
  <2>1. Proposable(b, blocks, Certified) \subseteq Proposable(b, blocks', Certified')
    BY <1>4, ProposableRemains
  <2> QED  BY <1>5, <2>1 DEF Requests, RequestsFor
<1> QED  BY <1>1, <1>3, <1>4, <1>6

(* A state sent on keeps being good for a larger network. *)
LEMMA StatesRemain ==
  ASSUME Grows, NEW b, NEW s, NEW E, NEW F, E \subseteq F,
         Good(s, b, blocks, Payloads(blocks), Certified, E)
  PROVE  Good(s, b, blocks', Payloads(blocks'), Certified', F)
<1>1. /\ Payloads(blocks) \subseteq Payloads(blocks')
      /\ Certified \subseteq Certified'
  BY CertifiedGrows DEF Grows, Certified
<1> QED  BY <1>1, GoodMonotone DEF Grows

(* Recorded data stays sound. *)
LEMMA RecordsRemain ==
  ASSUME Grows, NEW b, RecordedInv(b), recorded'[b] = recorded[b]
  PROVE  RecordedInv(b)'
<1>1. /\ Payloads(blocks) \subseteq Payloads(blocks')
      /\ Certified \subseteq Certified'
  BY CertifiedGrows DEF Grows, Certified
<1>2. Lock(Payloads(blocks)) \subseteq Lock(Payloads(blocks'))
      /\ Attestable(blocks) \subseteq Attestable(blocks')
  BY <1>1 DEF Grows, Lock, Attestable
<1> QED
  BY <1>1, <1>2 DEF Grows, RecordedInv, StateData, SoundData, AttestableIsReal,
     LockIsReal

-----------------------------------------------------------------------------
(***************************************************************************)
(* High watermarks                                                         *)
(***************************************************************************)
(* Recording never lets sign what was not to be signed any more. *)
LEMMA RecordKeeps ==
  ASSUME NEW V, NEW W, W \subseteq V, NEW hw \in [level : Int, round : Int],
         NEW level \in Int, NEW round \in Int,
         \A v \in V : v.level \in Int /\ v.round \in Int,
         Signed(V, hw)
  PROVE  /\ Signed(W, hw)
         /\ Signed(W, record(hw, level, round))
         /\ record(hw, level, round) \in [level : Int, round : Int]
BY DEF Signed, OnePerRound, Below, record, may_sign

(* What the high watermark authorizes was not signed before, and will not  *)
(* be again.                                                               *)
LEMMA RecordSigned ==
  ASSUME NEW V, NEW W, NEW x, W \subseteq V \union {x},
         NEW hw \in [level : Int, round : Int],
         x.level \in Int, x.round \in Int,
         \A v \in V : v.level \in Int /\ v.round \in Int,
         Signed(V, hw), may_sign(hw, x.level, x.round)
  PROVE  Signed(W, record(hw, x.level, x.round))
BY DEF Signed, OnePerRound, Below, record, may_sign

(* Levels and rounds of what is signed are integers. *)
LEMMA SignedTypes ==
  ASSUME Inv, NEW b \in Bakers
  PROVE  /\ \A v \in Preattested(b) : v.level \in Int /\ v.round \in Int
         /\ \A v \in Attested(b) : v.level \in Int /\ v.round \in Int
         /\ \A v \in Baked(b) : v.level \in Int /\ v.round \in Int
         /\ \A k \in Kinds : highwatermarks[b][k] \in [level : Int, round : Int]
<1>1. Preattested(b) \subseteq VotesFor(blocks)
  BY DEF Preattested, SentBy, Inv, VoteInv, SentVotes
<1>2. Attested(b) \subseteq VotesFor(blocks)
  BY DEF Inv, BakerInv, WatermarkInv
<1>3. \A v \in VotesFor(blocks) : v.level \in Int /\ v.round \in Int
  BY VoteTypes DEF Inv
<1>4. \A p \in Baked(b) : p.level \in Int /\ p.round \in Int
  BY BlockTypes DEF Baked, Inv, BlockInv
<1>5. \A k \in Kinds : highwatermarks[b][k] \in [level : Int, round : Int]
  BY DEF Inv, DomainInv
<1> QED  BY <1>1, <1>2, <1>3, <1>4, <1>5

-----------------------------------------------------------------------------
(***************************************************************************)
(* The part of the invariant about a baker that takes no step              *)
(***************************************************************************)
Untouched(c) ==
  /\ state'[c] = state[c]
  /\ proposal_watched'[c] = proposal_watched[c]
  /\ qc_event_stream'[c] = qc_event_stream[c]
  /\ forge_requests'[c] = forge_requests[c]
  /\ highwatermarks'[c] = highwatermarks[c]
  /\ recorded'[c] = recorded[c]
  /\ head'[c] = head[c]
  /\ SentBy(c, preattestations') = SentBy(c, preattestations)
  /\ SentBy(c, attestations') = SentBy(c, attestations)
  /\ Baked(c)' \subseteq Baked(c)

(* Its part of the invariant remains as the network grows. *)
LEMMA Frame ==
  ASSUME Inv, Grows, NEW c \in Bakers, Untouched(c)
  PROVE  BakerInv(c)'
<1>1. BakerInv(c)
  BY DEF Inv
<1>2. Attested(c)' = Attested(c) /\ Preattested(c)' = Preattested(c)
  BY DEF Untouched, Attested, Preattested, rs
<1>3. StateInv(c)'
  <2>1. Good(state[c], c, blocks', Payloads(blocks'), Certified', Attested(c))
    BY <1>1, StatesRemain DEF BakerInv, StateInv
  <2> QED  BY <2>1, <1>2 DEF Untouched, StateInv
<1>4. RecordedInv(c)'
  BY <1>1, RecordsRemain DEF BakerInv, Untouched
<1>5. WorkerInv(c)'
  <2>1. proposal_watched'[c] \in Watches' \union {None}
    BY <1>1, WorkersRemain DEF BakerInv, WorkerInv, Untouched
  <2>2. qc_event_stream'[c] \in Seq(Events')
    BY <1>1, WorkersRemain, SeqMonotonic DEF BakerInv, WorkerInv, Untouched
  <2>3. forge_requests'[c] \in Seq(Requests(c)')
    BY <1>1, WorkersRemain, SeqMonotonic DEF BakerInv, WorkerInv, Untouched
  <2> QED  BY <2>1, <2>2, <2>3 DEF WorkerInv
<1>6. WatermarkInv(c)'
  <2>1. Attested(c) \subseteq VotesFor(blocks')
    BY <1>1, CertifiedGrows DEF BakerInv, WatermarkInv, Grows
  <2>2. Signed(Baked(c)', highwatermarks[c]["block"])
    BY <1>1 DEF BakerInv, WatermarkInv, Signed, OnePerRound, Below, Untouched
  <2> QED
    BY <1>1, <1>2, <2>1, <2>2 DEF BakerInv, WatermarkInv, Untouched
<1>7. head'[c] \in blocks'
  BY <1>1 DEF BakerInv, Untouched, Grows
<1> QED  BY <1>3, <1>4, <1>5, <1>6, <1>7 DEF BakerInv

-----------------------------------------------------------------------------
(***************************************************************************)
(* Performing an action                                                    *)
(***************************************************************************)
(* Cancelling tasks leaves requests of the queue. *)
LEMMA Cancel ==
  ASSUME NEW S, NEW queue \in Seq(S), NEW q \in cancel_all_pending_tasks(queue)
  PROVE  q \in Seq(S)
<1>1. PICK i \in 0 .. Len(queue) :
        q \in {SubSeq(queue, 1, i) \o SubSeq(queue, j + 1, Len(queue)) :
                 j \in i .. Len(queue)}
  BY DEF cancel_all_pending_tasks
<1>2. PICK j \in i .. Len(queue) :
        q = SubSeq(queue, 1, i) \o SubSeq(queue, j + 1, Len(queue))
  BY <1>1
<1>3. /\ Len(queue) \in Nat /\ i \in Int /\ j \in Int /\ j >= 0
      /\ \A n \in 1 .. Len(queue) : queue[n] \in S
  BY LenProperties, ElementOfSeq
<1>4. /\ SubSeq(queue, 1, i) \in Seq(S)
      /\ SubSeq(queue, j + 1, Len(queue)) \in Seq(S)
  BY <1>3, SubSeqProperties
<1> QED  BY <1>2, <1>4, ConcatProperties

(* Requests are for votes on blocks of the network and for blocks the      *)
(* baker may propose.                                                      *)
LEMMA RequestsAreTyped ==
  ASSUME NEW o, NEW queue, NEW q \in NewRequests(o, queue), NEW V, NEW R,
         queue \in Seq(RequestsFor(V, R)),
         o.action \in {"Prepare_consensus_votes", "Prepare_attestations"} => o.arg \in V,
         o.action = "Prepare_block" => o.arg \in R
  PROVE  q \in Seq(RequestsFor(V, R))
<1> DEFINE S == RequestsFor(V, R)
<1>1. CASE o.action = "Prepare_consensus_votes"
  <2>1. PICK r \in cancel_all_pending_tasks(queue) :
          q = r \o <<request("preattestation", o.arg), request("attestation", o.arg)>>
    BY <1>1 DEF NewRequests
  <2>2. r \in Seq(S)
    BY Cancel
  <2>3. <<request("preattestation", o.arg), request("attestation", o.arg)>> \in Seq(S)
    BY <1>1 DEF request, RequestsFor
  <2> QED  BY <2>1, <2>2, <2>3, ConcatProperties
<1>2. CASE o.action = "Prepare_attestations"
  <2>1. q = Append(queue, request("attestation", o.arg))
    BY <1>2 DEF NewRequests
  <2>2. request("attestation", o.arg) \in S
    BY <1>2 DEF request, RequestsFor
  <2> QED  BY <2>1, <2>2, AppendProperties
<1>3. CASE o.action = "Prepare_block"
  <2>1. q = Append(queue, request("block", o.arg))
    BY <1>3 DEF NewRequests
  <2>2. request("block", o.arg) \in S
    BY <1>3 DEF request, RequestsFor
  <2> QED  BY <2>1, <2>2, AppendProperties
<1>4. CASE o.action \notin {"Prepare_consensus_votes", "Prepare_attestations",
                            "Prepare_block"}
  BY <1>4 DEF NewRequests
<1> QED  BY <1>1, <1>2, <1>3, <1>4

(* Baker b sends votes. *)
Sends(b, votes, V, W) == W = V \union signed(b, votes)

(* What a baker sends is sent by nobody else. *)
LEMMA SentBySigner ==
  ASSUME NEW V, NEW W, NEW b, NEW votes, Sends(b, votes, V, W)
  PROVE  /\ SentBy(b, W) = SentBy(b, V) \union votes
         /\ \A c : c # b => SentBy(c, W) = SentBy(c, V)
<1>1. \A v \in votes : v \in SentBy(b, W)
  <2> TAKE v \in votes
  <2>1. [member |-> b, vote |-> v] \in W
    BY DEF signed, Sends
  <2>2. [member |-> b, vote |-> v].member = b /\ [member |-> b, vote |-> v].vote = v
    OBVIOUS
  <2> QED  BY <2>1, <2>2 DEF SentBy
<1>2. \A w \in W : w \in V \/ (w.member = b /\ w.vote \in votes)
  BY DEF signed, Sends
<1>3. \A c : SentBy(c, V) \subseteq SentBy(c, W)
  BY DEF SentBy, Sends
<1>4. SentBy(b, W) \subseteq SentBy(b, V) \union votes
  BY <1>2 DEF SentBy
<1>5. \A c : c # b => SentBy(c, W) \subseteq SentBy(c, V)
  BY <1>2 DEF SentBy
<1>6. ASSUME NEW c, c # b  PROVE SentBy(c, W) = SentBy(c, V)
  BY <1>3, <1>5, <1>6
<1> QED  BY <1>1, <1>3, <1>4, <1>6

(* A state is good for any set of votes that holds its early attestations. *)
LEMMA GoodForEarly ==
  ASSUME NEW b, NEW B, NEW P, NEW C, NEW E, NEW F,
         NEW s, Good(s, b, B, P, C, E), s.round_state.early_attestations \subseteq F
  PROVE  Good(s, b, B, P, C, F)
BY DEF Good, State, RoundState

(* N and X are the preattestations and the attestations just signed. *)
Performed(b, N, X) ==
  /\ Grows
  /\ VoteInv'
  /\ StateInv(b)'
  /\ proposal_watched'[b] \in Watches' \union {None}
  /\ forge_requests'[b] \in Seq(Requests(b)')
  /\ Preattested(b)' \subseteq Preattested(b) \union N
  /\ Attested(b)' \subseteq Attested(b) \union X
  /\ \A c \in Bakers : c # b =>
       /\ state'[c] = state[c]
       /\ proposal_watched'[c] = proposal_watched[c]
       /\ forge_requests'[c] = forge_requests[c]
       /\ SentBy(c, preattestations') = SentBy(c, preattestations)
       /\ SentBy(c, attestations') = SentBy(c, attestations)
  /\ DOMAIN state' = Bakers /\ DOMAIN proposal_watched' = Bakers
  /\ DOMAIN forge_requests' = Bakers /\ DOMAIN unrecorded' = Bakers

(* A good outcome is performed well: the state and the workers stay        *)
(* consistent with the network, and only votes just signed, or signed      *)
(* before, are sent.                                                       *)
LEMMA Perform ==
  ASSUME Inv, blocks \subseteq blocks', NEW b \in Bakers,
         NEW o, NEW queue \in Seq(Requests(b)),
         NEW N \in SUBSET VotesFor(blocks'), NEW X \in SUBSET VotesFor(blocks'),
         GoodOutcome(o, b, blocks', Payloads(blocks'),
                     CertifiedBy(preattestations, blocks'), Attested(b) \union X, N,
                     Proposable(b, blocks', CertifiedBy(preattestations, blocks'))),
         perform_action(b, state[b], o, queue)
  PROVE  Performed(b, N, X)
<1> DEFINE pre == IF o.action = "Inject_preattestation" THEN {o.arg} ELSE {}
           att == IF o.action = "Inject_attestations" THEN o.arg ELSE {}
<1>1. /\ Sends(b, pre, preattestations, preattestations')
      /\ Sends(b, att, attestations, attestations')
  <2>1. signed(b, {}) = {}
    BY DEF signed
  <2> QED  BY <2>1 DEF perform_action, Sends
<1>2. Grows
  BY <1>1 DEF Grows, Sends
<1>3. pre \subseteq N /\ att \subseteq Attested(b) \union X
  BY DEF GoodOutcome
<1>4. VotesFor(blocks) \subseteq VotesFor(blocks')
  BY CertifiedGrows
<1>5. Attested(b) \subseteq VotesFor(blocks)
  BY DEF Inv, BakerInv, WatermarkInv
<1>6. VoteInv'
  <2>1. /\ signed(b, pre) \subseteq [member : Bakers \union Peers, vote : VotesFor(blocks')]
        /\ signed(b, att) \subseteq [member : Bakers \union Peers, vote : VotesFor(blocks')]
    <3> HIDE DEF pre, att
    <3> QED  BY <1>3, <1>4, <1>5 DEF signed
  <2>2. SentVotes \subseteq [member : Bakers \union Peers, vote : VotesFor(blocks')]
    BY <1>4 DEF SentVotes
  <2>3. \A m \in Peers : m # b
    BY MembersAssumption
  <2>4. \A m \in Peers : Preattested(m)' = Preattested(m)
    <3> HIDE DEF pre
    <3>1. \A c : c # b => SentBy(c, preattestations') = SentBy(c, preattestations)
      BY <1>1, SentBySigner
    <3> QED  BY <2>3, <3>1 DEF Preattested
  <2> HIDE DEF pre, att
  <2> QED  BY <1>1, <2>1, <2>2, <2>4 DEF Inv, VoteInv, SentVotes, Sends
<1>7. /\ SentBy(b, preattestations') = SentBy(b, preattestations) \union pre
      /\ SentBy(b, attestations') = SentBy(b, attestations) \union att
      /\ \A c : c # b => /\ SentBy(c, preattestations') = SentBy(c, preattestations)
                         /\ SentBy(c, attestations') = SentBy(c, attestations)
  <2> HIDE DEF pre, att
  <2>1. /\ SentBy(b, preattestations') = SentBy(b, preattestations) \union pre
        /\ \A c : c # b => SentBy(c, preattestations') = SentBy(c, preattestations)
    BY <1>1, SentBySigner
  <2>2. /\ SentBy(b, attestations') = SentBy(b, attestations) \union att
        /\ \A c : c # b => SentBy(c, attestations') = SentBy(c, attestations)
    BY <1>1, SentBySigner
  <2> QED  BY <2>1, <2>2
<1>8. /\ state'[b] \in {o.state, o.step}
      /\ proposal_watched'[b] = NewWatch(o, proposal_watched[b])
      /\ \E q \in NewRequests(o, queue) : forge_requests'[b] = q
      /\ \A c \in Bakers : c # b =>
           /\ state'[c] = state[c]
           /\ proposal_watched'[c] = proposal_watched[c]
           /\ forge_requests'[c] = forge_requests[c]
      /\ DOMAIN state' = Bakers /\ DOMAIN proposal_watched' = Bakers
      /\ DOMAIN forge_requests' = Bakers /\ DOMAIN unrecorded' = Bakers
  BY DEF perform_action, Inv, DomainInv
<1>9. Good(state'[b], b, blocks', Payloads(blocks'),
           CertifiedBy(preattestations, blocks'), Attested(b) \union X)
  BY <1>8 DEF GoodOutcome
<1>10. state'[b].round_state.early_attestations \subseteq Attested(b) \union X
  BY <1>9 DEF Good, State, RoundState
<1>11. Attested(b)' \subseteq Attested(b) \union X
  <2>1. Attested(b)' = SentBy(b, attestations') \union
                       state'[b].round_state.early_attestations
    BY DEF Attested, rs
  <2>2. SentBy(b, attestations) \subseteq Attested(b)
    BY DEF Attested
  <2> HIDE DEF att
  <2> QED  BY <1>3, <1>7, <1>10, <2>1, <2>2
<1>12. StateInv(b)'
  <2>1. state'[b].round_state.early_attestations \subseteq Attested(b)'
    BY DEF Attested, rs
  <2>2. CertifiedBy(preattestations, blocks') \subseteq Certified'
    BY <1>2, CertifiedGrows DEF Certified, Grows
  <2>3. Good(state'[b], b, blocks', Payloads(blocks'), Certified', Attested(b) \union X)
    BY <1>9, <2>2, GoodMonotone
  <2> QED  BY <2>1, <2>3, GoodForEarly DEF StateInv
<1>13. proposal_watched'[b] \in Watches' \union {None}
  <2>1. proposal_watched[b] \in Watches \union {None}
    BY DEF Inv, BakerInv, WorkerInv
  <2>2. Watches \subseteq Watches'
    BY <1>2, WorkersRemain
  <2>3. o.state.level_state.latest_proposal \in blocks'
    BY DEF GoodOutcome, Good, State, LevelState
  <2>4. /\ watch("prequorum", o.state.level_state.latest_proposal) \in Watches'
        /\ watch("quorum", o.state.level_state.latest_proposal) \in Watches'
    BY <2>3 DEF Watches, watch
  <2> QED  BY <1>8, <2>1, <2>2, <2>4 DEF NewWatch
<1>14. forge_requests'[b] \in Seq(Requests(b)')
  <2>1. queue \in Seq(Requests(b)')
    BY <1>2, WorkersRemain, SeqMonotonic
  <2>2. PICK q \in NewRequests(o, queue) : forge_requests'[b] = q
    BY <1>8
  <2> DEFINE R == Proposable(b, blocks', Certified')
  <2>3. Requests(b)' = RequestsFor(VotesFor(blocks'), R)
    BY DEF Requests
  <2>4. /\ o.action \in {"Prepare_consensus_votes", "Prepare_attestations"} =>
             o.arg \in VotesFor(blocks')
        /\ o.action = "Prepare_block" => o.arg \in R
    <3>1. CertifiedBy(preattestations, blocks') \subseteq Certified'
      BY <1>2, CertifiedGrows DEF Certified, Grows
    <3>2. Proposable(b, blocks', CertifiedBy(preattestations, blocks')) \subseteq R
      BY <3>1, ProposableRemains
    <3> HIDE DEF R
    <3> QED  BY <3>2 DEF GoodOutcome
  <2>5. q \in Seq(Requests(b)')
    <3> HIDE DEF R
    <3> QED  BY <2>1, <2>3, <2>4, RequestsAreTyped
  <2> QED  BY <2>2, <2>5
<1>15. Preattested(b)' \subseteq Preattested(b) \union N
  <2> HIDE DEF pre
  <2> QED  BY <1>3, <1>7 DEF Preattested
<1> QED
  BY <1>2, <1>6, <1>7, <1>8, <1>11, <1>12, <1>13, <1>14, <1>15 DEF Performed

-----------------------------------------------------------------------------
(***************************************************************************)
(* What bakers propose                                                     *)
(***************************************************************************)
(* A fresh block on a block of the chain. *)
LEMMA FreshExtends ==
  ASSUME NEW b, NEW B, NEW C, Chain(B, C), NEW q \in B, q.level < MaxLevel,
         NEW round \in Rounds(q.level + 1), NEW ops \in Ops,
         RoundProposer(q.level + 1, round) = b
  PROVE  FreshBlock(q, round, ops) \in Proposable(b, B, C)
<1>1. q.level \in Nat /\ round \in Nat /\ q.level + 1 \in 0 .. MaxLevel
  BY BlockTypes, BoundsAssumption DEF Rounds
<1> QED
  BY <1>1 DEF Proposable, Extends, FreshBlock, Block, Payloads, OptRound, predecessor

(* The proposal at the end of a round: the attestable payload with its     *)
(* certificate, or a fresh one on the same predecessor.                    *)
LEMMA ProposeExtends ==
  ASSUME NEW b, NEW B, NEW C, NEW E, Chain(B, C),
         NEW s, Good(s, b, B, Payloads(B), C, E),
         NEW round \in Rounds(s.level_state.current_level), NEW ops \in Ops,
         RoundProposer(s.level_state.current_level, round) = b,
         s.level_state.latest_proposal.level # 0
  PROVE  propose_block_action(s, round, ops).arg \in Proposable(b, B, C)
<1> DEFINE latest == s.level_state.latest_proposal
           attestable == s.level_state.attestable_payload
           L == s.level_state.current_level
           q == attestable.proposal
<1>1. /\ latest \in B /\ latest # Genesis /\ latest.level = L
      /\ L \in 0 .. MaxLevel /\ round \in Nat
  <2>1. latest \in B /\ latest.level = L
    BY DEF Good, Sound, State, LevelState
  <2>2. L \in 0 .. MaxLevel
    BY <2>1, BlockTypes
  <2> QED  BY <2>1, <2>2, BoundsAssumption DEF Rounds, Genesis
<1>2. Extends(latest, B, C)
  BY <1>1 DEF Chain
<1>3. CASE attestable = NoAttestable
  <2>1. /\ predecessor(latest) \in B /\ predecessor(latest).level + 1 = L
        /\ predecessor(latest).level < MaxLevel
    <3>1. predecessor(latest) \in B /\ predecessor(latest).level + 1 = L
      BY <1>1, <1>2 DEF Extends
    <3> QED  BY <3>1, <1>1, BlockTypes, BoundsAssumption
  <2>2. FreshBlock(predecessor(latest), round, ops) \in Proposable(b, B, C)
    BY <2>1, FreshExtends
  <2> QED  BY <1>3, <2>2 DEF propose_block_action, Outcome
<1>4. CASE attestable # NoAttestable
  <2>1. /\ q \in B /\ attestable.prequorum \in Nat /\ q.level = L
        /\ Cert(L, attestable.prequorum, q.payload) \in C
    BY <1>4 DEF Good, Sound, SoundData, AttestableIsReal
  <2>2. Extends(q, B, C) /\ q \in Block(Payloads(B))
    <3>1. q.level # 0 /\ Genesis.level = 0
      BY <1>1, <2>1 DEF Genesis
    <3>2. q # Genesis
      BY <3>1
    <3> QED  BY <2>1, <3>2, BlockTypes DEF Chain
  <2> DEFINE p == [q EXCEPT !.round = round, !.pqc = attestable.prequorum]
  <2>3. /\ p \in Block(Payloads(B)) /\ p.level = q.level /\ p.payload = q.payload
        /\ p.round = round /\ p.pqc = attestable.prequorum
    BY <1>1, <2>1, <2>2 DEF Block, OptRound
  <2>4. p \in Proposable(b, B, C)
    <3> HIDE DEF p
    <3> QED  BY <2>1, <2>2, <2>3 DEF Proposable, Extends, predecessor
  <2> QED  BY <1>4, <2>4 DEF propose_block_action, Outcome, ReproposedBlock
<1> QED  BY <1>3, <1>4

-----------------------------------------------------------------------------
(***************************************************************************)
(* The actions of bakers                                                   *)
(***************************************************************************)
(* A block known or sent by another member, before an action uses it. *)
LEMMA NewBlock ==
  ASSUME Inv, NEW p \in blocks \union ForeignBlocks, blocks' = blocks \union {p}
  PROVE  /\ blocks \subseteq blocks' /\ p \in blocks'
         /\ Chain(blocks', CertifiedBy(preattestations, blocks'))
         /\ Context(blocks', Payloads(blocks'), CertifiedBy(preattestations, blocks'))
         /\ Grows => BlockInv'
         /\ \A c \in Bakers : Baked(c)' \subseteq Baked(c)
<1> DEFINE C == CertifiedBy(preattestations, blocks')
<1>1. blocks \subseteq blocks' /\ p \in blocks'
  OBVIOUS
<1>2. Certified \subseteq C
  BY <1>1, CertifiedGrows DEF Certified
<1>3. p \notin blocks => /\ Extends(p, blocks, Certified)
                         /\ RoundProposer(p.level, p.round) \notin Bakers
  BY ForeignExtends DEF Inv
<1>4. Chain(blocks', C)
  <2>1. \A q \in blocks' : q = Genesis \/ Extends(q, blocks, Certified)
    BY <1>3 DEF Inv, BlockInv, Chain
  <2>2. \A q \in blocks' : q = Genesis \/ Extends(q, blocks', C)
    <3> HIDE DEF C
    <3> QED  BY <1>1, <1>2, <2>1, ExtendsRemains
  <2> QED  BY <1>1, <2>2 DEF Inv, BlockInv, Chain
<1>5. Context(blocks', Payloads(blocks'), C)
  <2>1. blocks' \subseteq Block(Payloads(blocks'))
    BY <1>4, BlockTypes
  <2>2. OnePayload(C)
    BY OnePayloadCertified
  <2>3. BlocksAreCertified(blocks', C)
    <3> HIDE DEF C
    <3>1. Genesis.pqc = NoRound
      BY DEF Genesis
    <3> QED  BY <1>4, <3>1 DEF Chain, Extends, BlocksAreCertified
  <2> QED  BY <2>1, <2>2, <2>3 DEF Context
<1>6. ASSUME Grows  PROVE BlockInv'
  <2>1. C \subseteq Certified'
    BY <1>6, CertifiedGrows DEF Grows, Certified
  <2>2. \A q \in blocks' : q = Genesis \/ Extends(q, blocks', Certified')
    <3> HIDE DEF C
    <3> QED  BY <1>4, <2>1, ExtendsRemains DEF Chain
  <2> QED  BY <1>4, <2>2 DEF Chain, BlockInv
<1>7. \A c \in Bakers : Baked(c)' \subseteq Baked(c)
  BY <1>3 DEF Baked
<1> QED  BY <1>1, <1>4, <1>5, <1>6, <1>7

(* The state of the acting baker in the larger network. *)
LEMMA StateBefore ==
  ASSUME Inv, blocks \subseteq blocks', NEW b \in Bakers, NEW X
  PROVE  Good(state[b], b, blocks', Payloads(blocks'),
              CertifiedBy(preattestations, blocks'), Attested(b) \union X)
<1>1. Good(state[b], b, blocks, Payloads(blocks), Certified, Attested(b))
  BY DEF Inv, BakerInv, StateInv
<1>2. /\ Payloads(blocks) \subseteq Payloads(blocks')
      /\ Certified \subseteq CertifiedBy(preattestations, blocks')
  BY CertifiedGrows DEF Certified
<1>3. Attested(b) \subseteq Attested(b) \union X
  OBVIOUS
<1> QED  BY <1>1, <1>2, <1>3, GoodMonotone

(* What is left to show once an action of b is performed. *)
LEMMA BakerActs ==
  ASSUME Inv, BlockInv', DomainInv', NEW b \in Bakers, NEW N, NEW X,
         Performed(b, N, X), WatermarkInv(b)', RecordedInv(b)',
         qc_event_stream'[b] \in Seq(Events'), head'[b] \in blocks',
         \A c \in Bakers : c # b =>
           /\ qc_event_stream'[c] = qc_event_stream[c]
           /\ highwatermarks'[c] = highwatermarks[c]
           /\ recorded'[c] = recorded[c]
           /\ head'[c] = head[c]
           /\ Baked(c)' \subseteq Baked(c)
  PROVE  Inv'
<1>1. BakerInv(b)'
  BY DEF BakerInv, Performed, WorkerInv
<1>2. ASSUME NEW c \in Bakers, c # b  PROVE BakerInv(c)'
  <2>1. Untouched(c)
    BY <1>2 DEF Untouched, Performed
  <2> QED  BY <2>1, Frame DEF Performed
<1>3. \A c \in Bakers : BakerInv(c)'
  BY <1>1, <1>2
<1> QED  BY <1>3 DEF Inv, Performed

(* An event that signs nothing: the outcome of its step is good, and the   *)
(* rest of what it changes is a head announced or an event consumed.       *)
LEMMA QuietStep ==
  ASSUME Inv, NEW b \in Bakers,
         NEW p \in blocks \union ForeignBlocks, blocks' = blocks \union {p}, NEW o,
         GoodOutcome(o, b, blocks', Payloads(blocks'),
                     CertifiedBy(preattestations, blocks'), Attested(b) \union {}, {},
                     Proposable(b, blocks', CertifiedBy(preattestations, blocks'))),
         perform_action(b, state[b], o, forge_requests[b]),
         highwatermarks' = highwatermarks, recorded' = recorded,
         head' = head \/ head' = [head EXCEPT ![b] = p],
         \/ qc_event_stream' = qc_event_stream
         \/ /\ qc_event_stream[b] # <<>>
            /\ qc_event_stream' = [qc_event_stream EXCEPT ![b] = Tail(@)]
  PROVE  Inv'
<1>1. forge_requests[b] \in Seq(Requests(b)) /\ qc_event_stream[b] \in Seq(Events)
  BY DEF Inv, BakerInv, WorkerInv
<1>2. Performed(b, {}, {})
  <2>1. {} \in SUBSET VotesFor(blocks') /\ blocks \subseteq blocks'
    BY NewBlock
  <2> QED  BY <1>1, <2>1, Perform
<1>3. Grows
  BY <1>2 DEF Performed
<1>4. p \in blocks' /\ BlockInv' /\ \A c \in Bakers : Baked(c)' \subseteq Baked(c)
  BY <1>3, NewBlock
<1>5. /\ DOMAIN head' = Bakers /\ head'[b] \in blocks'
      /\ \A c \in Bakers : c # b => head'[c] = head[c]
  BY <1>3, <1>4 DEF Inv, DomainInv, BakerInv, Grows
<1>6. qc_event_stream'[b] \in Seq(Events')
  <2>1. qc_event_stream[b] \in Seq(Events')
    BY <1>1, <1>3, WorkersRemain, SeqMonotonic
  <2>2. qc_event_stream[b] # <<>> => Tail(qc_event_stream[b]) \in Seq(Events')
    BY <2>1, HeadTailProperties
  <2> QED  BY <2>1, <2>2 DEF Inv, DomainInv
<1>7. /\ DOMAIN qc_event_stream' = Bakers
      /\ \A c \in Bakers : c # b => qc_event_stream'[c] = qc_event_stream[c]
  BY DEF Inv, DomainInv
<1>8. DomainInv'
  BY <1>2, <1>5, <1>7 DEF Inv, DomainInv, Performed
<1>9. RecordedInv(b)'
  BY <1>3, RecordsRemain DEF Inv, BakerInv
<1>10. WatermarkInv(b)'
  <2>1. WatermarkInv(b)
    BY DEF Inv, BakerInv
  <2>2. /\ Preattested(b)' \subseteq Preattested(b)
        /\ Attested(b)' \subseteq Attested(b)
        /\ Baked(b)' \subseteq Baked(b)
    BY <1>2, <1>4 DEF Performed
  <2>3. VotesFor(blocks) \subseteq VotesFor(blocks')
    BY <1>3, CertifiedGrows DEF Grows
  <2> QED
    BY <2>1, <2>2, <2>3 DEF WatermarkInv, Signed, OnePerRound, Below
<1> QED
  BY <1>2, <1>4, <1>5, <1>6, <1>7, <1>8, <1>9, <1>10, BakerActs

(* New_valid_proposal. *)
LEMMA NewValidProposalStep ==
  ASSUME Inv, NEW b \in Bakers, NewValidProposal(b)
  PROVE  Inv'
<1>1. PICK p \in blocks \union ForeignBlocks : \E now \in Now(p) :
        /\ perform_action(b, state[b], New_valid_proposal(state[b], p, now),
                          forge_requests[b])
        /\ blocks' = blocks \union {p}
  BY DEF NewValidProposal
<1>2. PICK now \in Now(p) :
        perform_action(b, state[b], New_valid_proposal(state[b], p, now),
                       forge_requests[b])
  BY <1>1
<1> DEFINE C == CertifiedBy(preattestations, blocks')
           R == Proposable(b, blocks', C)
<1>3. /\ blocks \subseteq blocks' /\ p \in blocks'
      /\ Chain(blocks', C) /\ Context(blocks', Payloads(blocks'), C)
  BY <1>1, NewBlock
<1>4. now \in Nat
  BY <1>3, BlockTypes, BoundsAssumption DEF Now
<1>5. Good(state[b], b, blocks', Payloads(blocks'), C, Attested(b) \union {})
  BY <1>3, StateBefore
<1>6. GoodOutcome(New_valid_proposal(state[b], p, now), b, blocks', Payloads(blocks'),
                  C, Attested(b) \union {}, {}, R)
  <2> HIDE DEF C, R
  <2> QED  BY <1>3, <1>4, <1>5, NewProposal
<1> QED
  BY <1>1, <1>2, <1>6, QuietStep DEF NewValidProposal

(* New_head_proposal. *)
LEMMA NewHeadProposalStep ==
  ASSUME Inv, NEW b \in Bakers, NewHeadProposal(b)
  PROVE  Inv'
<1>1. PICK p \in blocks \union ForeignBlocks : \E now \in Now(p) :
        /\ perform_action(b, state[b], New_head_proposal(state[b], p, now),
                          forge_requests[b])
        /\ head' = [head EXCEPT ![b] = p]
        /\ blocks' = blocks \union {p}
  BY DEF NewHeadProposal
<1>2. PICK now \in Now(p) :
        perform_action(b, state[b], New_head_proposal(state[b], p, now),
                       forge_requests[b])
  BY <1>1
<1> DEFINE C == CertifiedBy(preattestations, blocks')
           R == Proposable(b, blocks', C)
<1>3. /\ blocks \subseteq blocks' /\ p \in blocks'
      /\ Chain(blocks', C) /\ Context(blocks', Payloads(blocks'), C)
  BY <1>1, NewBlock
<1>4. now \in Nat
  BY <1>3, BlockTypes, BoundsAssumption DEF Now
<1>5. Good(state[b], b, blocks', Payloads(blocks'), C, Attested(b) \union {})
  BY <1>3, StateBefore
<1>6. GoodOutcome(New_head_proposal(state[b], p, now), b, blocks', Payloads(blocks'),
                  C, Attested(b) \union {}, {}, R)
  <2> HIDE DEF C, R
  <2> QED  BY <1>3, <1>4, <1>5, NewProposal
<1> QED
  BY <1>1, <1>2, <1>6, QuietStep DEF NewHeadProposal

(* End_of_round. *)
LEMMA EndOfRoundStep ==
  ASSUME Inv, NEW b \in Bakers, EndOfRound(b)
  PROVE  Inv'
<1> DEFINE ending == state[b].round_state.current_round
           L == state[b].level_state.current_level
<1>1. PICK ops \in Ops : perform_action(b, state[b], end_of_round(state[b], ending, ops),
                                       forge_requests[b])
  BY DEF EndOfRound
<1>2. Genesis \in blocks /\ blocks' = blocks \union {Genesis}
  BY DEF EndOfRound, Inv, BlockInv, Chain
<1> DEFINE C == CertifiedBy(preattestations, blocks')
           R == Proposable(b, blocks', C)
<1>3. blocks \subseteq blocks' /\ Chain(blocks', C)
  BY <1>2, NewBlock
<1>4. Good(state[b], b, blocks', Payloads(blocks'), C, Attested(b) \union {})
  BY <1>3, StateBefore
<1>5. ending \in Int /\ ending + 1 \in Nat /\ ending + 1 \in Rounds(L)
  <2>1. ending \in Nat /\ L \in 0 .. MaxLevel
    <3>1. ending \in Nat /\ state[b].level_state.latest_proposal \in blocks'
          /\ L = state[b].level_state.latest_proposal.level
      BY <1>4 DEF Good, State, RoundState, LevelState, Sound
    <3> QED  BY <3>1, <1>3, BlockTypes
  <2>2. ending < MaxRound[L]
    BY DEF EndOfRound
  <2>3. MaxRound[L] \in Nat
    BY <2>1, BoundsAssumption
  <2> HIDE DEF ending, L
  <2> QED  BY <2>1, <2>2, <2>3 DEF Rounds
<1>6. GoodOutcome(end_of_round(state[b], ending, ops), b, blocks', Payloads(blocks'),
                  C, Attested(b) \union {}, {}, R)
  <2> HIDE DEF C, ending, L
  <2>1. /\ RoundProposer(state[b].level_state.current_level, ending + 1) = b
        /\ state[b].level_state.latest_proposal.level # 0
        => propose_block_action(state[b], ending + 1, ops).arg \in R
    BY <1>3, <1>4, <1>5, ProposeExtends DEF L
  <2> HIDE DEF R
  <2> QED  BY <1>4, <1>5, <2>1, EndRound
<1> QED
  <2> HIDE DEF ending
  <2> QED  BY <1>1, <1>2, <1>6, QuietStep DEF EndOfRound, node

(* Time_to_prepare_next_level_block. *)
LEMMA TimeToPrepareStep ==
  ASSUME Inv, NEW b \in Bakers, TimeToPrepareNextLevelBlock(b)
  PROVE  Inv'
<1> DEFINE L == state[b].level_state.current_level
           elected == state[b].level_state.elected_block
<1>1. PICK at_round \in Rounds(L + 1), ops \in Ops :
        /\ next_baking_armed(state[b], at_round)
        /\ perform_action(b, state[b],
             time_to_prepare_next_level_block(state[b], at_round, ops),
             forge_requests[b])
  BY DEF TimeToPrepareNextLevelBlock
<1>2. Genesis \in blocks /\ blocks' = blocks \union {Genesis}
  BY DEF TimeToPrepareNextLevelBlock, Inv, BlockInv, Chain
<1> DEFINE C == CertifiedBy(preattestations, blocks')
           R == Proposable(b, blocks', C)
<1>3. blocks \subseteq blocks' /\ Chain(blocks', C)
  BY <1>2, NewBlock
<1>4. Good(state[b], b, blocks', Payloads(blocks'), C, Attested(b) \union {})
  BY <1>3, StateBefore
<1>5. /\ elected \in blocks' /\ elected.level = L /\ L < MaxLevel
      /\ RoundProposer(L + 1, at_round) = b
  BY <1>1, <1>4 DEF TimeToPrepareNextLevelBlock, next_baking_armed, round_proposer,
     Good, Sound, State, LevelState
<1>6. at_round \in Nat
  BY <1>5, <1>3, BlockTypes, BoundsAssumption DEF Rounds
<1>7. FreshBlock(elected, at_round, ops) \in R
  <2> HIDE DEF C, elected
  <2> QED  BY <1>3, <1>5, FreshExtends
<1>8. GoodOutcome(time_to_prepare_next_level_block(state[b], at_round, ops),
                  b, blocks', Payloads(blocks'), C, Attested(b) \union {}, {}, R)
  <2> HIDE DEF C, R
  <2> QED  BY <1>4, <1>6, <1>7, PrepareNextLevel
<1> QED
  BY <1>1, <1>2, <1>8, QuietStep DEF TimeToPrepareNextLevelBlock, node

(* Prequorum_reached and Quorum_reached. *)
LEMMA QuorumEventStep ==
  ASSUME Inv, NEW b \in Bakers, QuorumEvent(b)
  PROVE  Inv'
<1> DEFINE e == Head(qc_event_stream[b])
           o == IF e.kind = "prequorum" THEN Prequorum_reached(state[b], e.candidate)
                                        ELSE Quorum_reached(state[b], e.candidate)
<1>1. /\ perform_action(b, state[b], o, forge_requests[b])
      /\ qc_event_stream[b] # <<>>
      /\ qc_event_stream' = [qc_event_stream EXCEPT ![b] = Tail(@)]
      /\ highwatermarks' = highwatermarks /\ recorded' = recorded /\ head' = head
  BY DEF QuorumEvent, node
<1>2. Genesis \in blocks /\ blocks' = blocks \union {Genesis}
  BY DEF QuorumEvent, Inv, BlockInv, Chain
<1> DEFINE C == CertifiedBy(preattestations, blocks')
           R == Proposable(b, blocks', C)
<1>3. /\ blocks \subseteq blocks'
      /\ Context(blocks', Payloads(blocks'), C)
  BY <1>2, NewBlock
<1>4. Good(state[b], b, blocks', Payloads(blocks'), C, Attested(b) \union {})
  BY <1>3, StateBefore
<1>5. e \in Events
  BY <1>1, HeadTailProperties DEF Inv, BakerInv, WorkerInv
<1>6. /\ e.candidate \in blocks'
      /\ e.kind = "prequorum" => Vote(e.candidate) \in C
  <2>1. e.candidate \in blocks /\ (e.kind = "prequorum" => Prequorum(Vote(e.candidate)))
    BY <1>5 DEF Events, Watches
  <2>2. Vote(e.candidate) \in [level : Nat, round : Nat, payload : Payloads(blocks)]
    BY <2>1, VoteTypes DEF VotesFor, Inv
  <2>3. Payloads(blocks) \subseteq Payloads(blocks')
    BY <1>3, CertifiedGrows
  <2>4. Vote(e.candidate) \in [level : Nat, round : Nat, payload : Payloads(blocks')]
    BY <2>2, <2>3
  <2> QED  BY <1>3, <2>1, <2>4 DEF CertifiedBy, Prequorum
<1>7. GoodOutcome(o, b, blocks', Payloads(blocks'), C, Attested(b) \union {}, {}, R)
  <2> HIDE DEF C, R, e
  <2> QED  BY <1>3, <1>4, <1>6, PrequorumReached, QuorumReached
<1> QED
  <2> HIDE DEF o, e
  <2> QED  BY <1>1, <1>2, <1>7, QuietStep

(* The operation worker announces a quorum that is there. *)
LEMMA MonitoringStep ==
  ASSUME Inv, NEW b \in Bakers, update_monitoring(b)
  PROVE  Inv'
<1>1. /\ UNCHANGED <<state, forge_requests, highwatermarks, recorded, unrecorded,
                     validated, head, blocks, preattestations, attestations>>
      /\ Grows
  BY DEF update_monitoring, disk, node, network, Grows
<1>2. proposal_watched[b] \in Events
  BY DEF update_monitoring, Inv, BakerInv, WorkerInv, Events
<1>3. \A c \in Bakers : qc_event_stream'[c] \in Seq(Events)
  BY <1>2, AppendProperties DEF update_monitoring, Inv, DomainInv, BakerInv, WorkerInv
<1>4. \A c \in Bakers : proposal_watched'[c] \in Watches \union {None}
  BY DEF update_monitoring, Inv, DomainInv, BakerInv, WorkerInv
<1>5. Events' = Events /\ Watches' = Watches /\ Certified' = Certified
  BY <1>1 DEF Events, Watches, Certified, Prequorum, Quorum
<1>6. BlockInv' /\ VoteInv'
  BY <1>1, <1>5 DEF Inv, BlockInv, VoteInv, SentVotes, Preattested
<1>7. DomainInv'
  BY <1>1 DEF update_monitoring, Inv, DomainInv
<1>8. ASSUME NEW c \in Bakers  PROVE BakerInv(c)'
  <2>1. WorkerInv(c)'
    <3>1. Requests(c)' = Requests(c)
      BY <1>1, <1>5 DEF Requests
    <3> QED  BY <1>1, <1>3, <1>4, <1>5, <3>1 DEF WorkerInv, Inv, BakerInv
  <2>2. Attested(c)' = Attested(c) /\ Preattested(c)' = Preattested(c) /\ Baked(c)' = Baked(c)
    BY <1>1 DEF Attested, Preattested, Baked, rs
  <2>3. StateInv(c)' /\ WatermarkInv(c)'
    BY <1>1, <1>5, <2>2 DEF Inv, BakerInv, StateInv, WatermarkInv
  <2>4. RecordedInv(c)'
    BY <1>1, RecordsRemain DEF Inv, BakerInv
  <2> QED  BY <1>1, <2>1, <2>3, <2>4 DEF BakerInv, Inv
<1> QED  BY <1>6, <1>7, <1>8 DEF Inv

(* The state is recorded. *)
LEMMA RecordStep ==
  ASSUME Inv, NEW b \in Bakers, Record(b)
  PROVE  Inv'
<1>1. /\ UNCHANGED <<state, proposal_watched, qc_event_stream, forge_requests,
                     highwatermarks, validated, head, blocks, preattestations,
                     attestations>>
      /\ Grows
  BY DEF Record, workers, node, network, Grows
<1>2. /\ Events' = Events /\ Watches' = Watches /\ Certified' = Certified
      /\ \A c \in Bakers : /\ Requests(c)' = Requests(c)
                           /\ Attested(c)' = Attested(c)
                           /\ Preattested(c)' = Preattested(c)
                           /\ Baked(c)' = Baked(c)
  BY <1>1 DEF Events, Watches, Certified, Prequorum, Quorum, Requests, Attested,
     Preattested, Baked, rs
<1>3. BlockInv' /\ VoteInv'
  BY <1>1, <1>2 DEF Inv, BlockInv, VoteInv, SentVotes, Preattested
<1>4. DomainInv'
  BY <1>1 DEF Record, Inv, DomainInv
<1>5. ASSUME NEW c \in Bakers  PROVE BakerInv(c)'
  <2>1. WorkerInv(c)' /\ StateInv(c)' /\ WatermarkInv(c)' /\ head'[c] \in blocks'
    BY <1>1, <1>2 DEF Inv, BakerInv, StateInv, WatermarkInv, WorkerInv
  <2>2. CASE c # b
    <3>1. recorded'[c] = recorded[c]
      BY <2>2 DEF Record, Inv, DomainInv
    <3>2. RecordedInv(c)'
      BY <1>1, <3>1, RecordsRemain DEF Inv, BakerInv
    <3> QED  BY <2>1, <3>2 DEF BakerInv
  <2>3. CASE c = b
    <3>1. recorded'[b] = state_data(state[b])
      BY DEF Record, Inv, DomainInv
    <3>2. Good(state[b], b, blocks, Payloads(blocks), Certified, Attested(b))
      BY DEF Inv, BakerInv, StateInv
    <3>3. state_data(state[b]) \in StateData(blocks)
      BY <3>2 DEF Good, State, LevelState, OptRound, StateData, state_data
    <3>4. RecordedInv(b)'
      BY <1>1, <1>2, <3>1, <3>2, <3>3 DEF RecordedInv, state_data, Good, Sound
    <3> QED  BY <2>1, <2>3, <3>4 DEF BakerInv
  <2> QED  BY <2>2, <2>3
<1> QED  BY <1>3, <1>4, <1>5 DEF Inv

(* The oldest request of a baker. *)
LEMMA OldestRequest ==
  ASSUME Inv, NEW b \in Bakers, forge_requests[b] # <<>>
  PROVE  LET r == Head(forge_requests[b])
         IN  /\ r \in Requests(b)
             /\ r.kind \in Kinds
             /\ r.content.level \in Int /\ r.content.round \in Int
             /\ r.kind # "block" => r.content \in VotesFor(blocks)
             /\ r.kind = "block" => r.content \in Proposable(b, blocks, Certified)
             /\ Tail(forge_requests[b]) \in Seq(Requests(b))
<1> DEFINE r == Head(forge_requests[b])
<1>1. r \in Requests(b) /\ Tail(forge_requests[b]) \in Seq(Requests(b))
  BY HeadTailProperties DEF Inv, BakerInv, WorkerInv
<1>2. CASE r \in [kind : {"preattestation", "attestation"}, content : VotesFor(blocks)]
  BY <1>1, <1>2, VoteTypes DEF Inv, Kinds
<1>3. CASE r \in [kind : {"block"}, content : Proposable(b, blocks, Certified)]
  BY <1>1, <1>3 DEF Kinds, Proposable, Block
<1> QED  BY <1>1, <1>2, <1>3 DEF Requests, RequestsFor

(* Recording the high watermark of a request of b. *)
LEMMA HighwatermarksTyped ==
  ASSUME Inv, NEW b \in Bakers, NEW r, r.kind \in Kinds,
         r.content.level \in Int, r.content.round \in Int,
         RecordHighwatermark(b, r)
  PROVE  /\ highwatermarks' \in [Bakers -> [Kinds -> [level : Int, round : Int]]]
         /\ \A c \in Bakers : c # b => highwatermarks'[c] = highwatermarks[c]
         /\ \A k \in Kinds : k # r.kind => highwatermarks'[b][k] = highwatermarks[b][k]
         /\ highwatermarks'[b][r.kind] =
              record(highwatermarks[b][r.kind], r.content.level, r.content.round)
<1>1. highwatermarks \in [Bakers -> [Kinds -> [level : Int, round : Int]]]
  BY DEF Inv, DomainInv
<1> DEFINE new == record(highwatermarks[b][r.kind], r.content.level, r.content.round)
<1>2. new \in [level : Int, round : Int]
  BY <1>1 DEF record
<1>3. highwatermarks' = [highwatermarks EXCEPT ![b][r.kind] = new]
  BY <1>1 DEF RecordHighwatermark
<1> HIDE DEF new
<1>4. /\ highwatermarks' \in [Bakers -> [Kinds -> [level : Int, round : Int]]]
      /\ \A c \in Bakers : c # b => highwatermarks'[c] = highwatermarks[c]
      /\ \A k \in Kinds : k # r.kind => highwatermarks'[b][k] = highwatermarks[b][k]
      /\ highwatermarks'[b][r.kind] = new
  BY <1>1, <1>2, <1>3
<1> QED  BY <1>4 DEF new

(* A vote is signed and handled. *)
LEMMA NewForgedVoteStep ==
  ASSUME Inv, NEW b \in Bakers, NewForgedVote(b)
  PROVE  Inv'
<1> DEFINE r == Head(forge_requests[b])
           v == r.content
           o == IF r.kind = "preattestation"
                THEN handle_forged_preattestation(state[b], v)
                ELSE handle_forged_attestation(state[b], v)
           N == IF r.kind = "preattestation" THEN {v} ELSE {}
           X == IF r.kind = "preattestation" THEN {} ELSE {v}
<1>1. /\ forge_requests[b] # <<>> /\ r.kind # "block"
      /\ authorized(b, r) /\ RecordHighwatermark(b, r)
      /\ perform_action(b, state[b], o, Tail(forge_requests[b]))
      /\ UNCHANGED <<qc_event_stream, recorded, head, blocks>>
  BY DEF NewForgedVote, node
<1>2. /\ r.kind \in {"preattestation", "attestation"} /\ r.kind \in Kinds
      /\ v \in VotesFor(blocks) /\ v.level \in Int /\ v.round \in Int
      /\ Tail(forge_requests[b]) \in Seq(Requests(b))
  BY <1>1, OldestRequest DEF Kinds
<1>3. Genesis \in blocks /\ blocks' = blocks \union {Genesis} /\ blocks' = blocks
  BY <1>1 DEF Inv, BlockInv, Chain
<1> DEFINE C == CertifiedBy(preattestations, blocks')
           R == Proposable(b, blocks', C)
<1>4. blocks \subseteq blocks' /\ (Grows => BlockInv')
      /\ \A c \in Bakers : Baked(c)' \subseteq Baked(c)
  BY <1>3, NewBlock
<1>5. Good(state[b], b, blocks', Payloads(blocks'), C, Attested(b) \union X)
  <2> HIDE DEF X
  <2> QED  BY <1>4, StateBefore
<1>6. GoodOutcome(o, b, blocks', Payloads(blocks'), C, Attested(b) \union X, N, R)
  <2> HIDE DEF C, R, r
  <2> QED  BY <1>5, ForgedVote
<1>7. N \in SUBSET VotesFor(blocks') /\ X \in SUBSET VotesFor(blocks')
  BY <1>2, <1>3
<1>8. Performed(b, N, X)
  <2> HIDE DEF o, N, X
  <2> QED  BY <1>1, <1>2, <1>4, <1>6, <1>7, Perform
<1>9. Grows
  BY <1>8 DEF Performed
<1>10. /\ highwatermarks' \in [Bakers -> [Kinds -> [level : Int, round : Int]]]
       /\ \A c \in Bakers : c # b => highwatermarks'[c] = highwatermarks[c]
       /\ \A k \in Kinds : k # r.kind => highwatermarks'[b][k] = highwatermarks[b][k]
       /\ highwatermarks'[b][r.kind] =
            record(highwatermarks[b][r.kind], v.level, v.round)
  <2> HIDE DEF r
  <2> QED  BY <1>1, <1>2, HighwatermarksTyped
<1>11. DomainInv'
  BY <1>1, <1>8, <1>10 DEF Inv, DomainInv, Performed
<1>12. RecordedInv(b)'
  BY <1>1, <1>9, RecordsRemain DEF Inv, BakerInv
<1>13. WatermarkInv(b)'
  <2>1. WatermarkInv(b)
    BY DEF Inv, BakerInv
  <2>2. Attested(b)' \subseteq VotesFor(blocks')
    <3> HIDE DEF X
    <3> QED  BY <1>3, <1>7, <1>8, <2>1 DEF Performed, WatermarkInv
  <2>3. Signed(Baked(b)', highwatermarks'[b]["block"])
    <3>1. highwatermarks'[b]["block"] = highwatermarks[b]["block"]
      BY <1>1, <1>10 DEF Kinds
    <3> QED
      BY <1>4, <2>1, <3>1 DEF WatermarkInv, Signed, OnePerRound, Below
  <2>4. Signed(Preattested(b)', highwatermarks'[b]["preattestation"])
    <3>1. CASE r.kind = "preattestation"
      <4> DEFINE hw == highwatermarks[b]["preattestation"]
      <4>1. Preattested(b)' \subseteq Preattested(b) \union {v}
        BY <1>8, <3>1 DEF Performed
      <4>2. may_sign(hw, v.level, v.round)
        BY <1>1, <3>1 DEF authorized
      <4>3. /\ hw \in [level : Int, round : Int]
            /\ \A w \in Preattested(b) : w.level \in Int /\ w.round \in Int
        BY SignedTypes DEF Kinds
      <4>4. highwatermarks'[b]["preattestation"] = record(hw, v.level, v.round)
        BY <1>10, <3>1
      <4>5. Signed(Preattested(b), hw)
        BY <2>1 DEF WatermarkInv
      <4> HIDE DEF r, v, hw
      <4>6. Signed(Preattested(b)', record(hw, v.level, v.round))
        BY <1>2, <4>1, <4>2, <4>3, <4>5, RecordSigned
      <4> QED  BY <4>4, <4>6
    <3>2. CASE r.kind # "preattestation"
      <4>1. Preattested(b)' \subseteq Preattested(b)
        BY <1>8, <3>2 DEF Performed
      <4>2. highwatermarks'[b]["preattestation"] = highwatermarks[b]["preattestation"]
        BY <1>10, <3>2 DEF Kinds
      <4> QED  BY <2>1, <4>1, <4>2 DEF WatermarkInv, Signed, OnePerRound, Below
    <3> QED  BY <3>1, <3>2
  <2>5. Signed(Attested(b)', highwatermarks'[b]["attestation"])
    <3>1. CASE r.kind = "attestation"
      <4> DEFINE hw == highwatermarks[b]["attestation"]
      <4>1. Attested(b)' \subseteq Attested(b) \union {v}
        BY <1>8, <3>1 DEF Performed
      <4>2. may_sign(hw, v.level, v.round)
        BY <1>1, <3>1 DEF authorized
      <4>3. /\ hw \in [level : Int, round : Int]
            /\ \A w \in Attested(b) : w.level \in Int /\ w.round \in Int
        BY SignedTypes DEF Kinds
      <4>4. highwatermarks'[b]["attestation"] = record(hw, v.level, v.round)
        BY <1>10, <3>1
      <4>5. Signed(Attested(b), hw)
        BY <2>1 DEF WatermarkInv
      <4> HIDE DEF r, v, hw
      <4>6. Signed(Attested(b)', record(hw, v.level, v.round))
        BY <1>2, <4>1, <4>2, <4>3, <4>5, RecordSigned
      <4> QED  BY <4>4, <4>6
    <3>2. CASE r.kind # "attestation"
      <4>1. Attested(b)' \subseteq Attested(b)
        BY <1>2, <1>8, <3>2 DEF Performed
      <4>2. highwatermarks'[b]["attestation"] = highwatermarks[b]["attestation"]
        BY <1>10, <3>2 DEF Kinds
      <4> QED  BY <2>1, <4>1, <4>2 DEF WatermarkInv, Signed, OnePerRound, Below
    <3> QED  BY <3>1, <3>2
  <2> QED  BY <2>2, <2>3, <2>4, <2>5 DEF WatermarkInv
<1>14. qc_event_stream'[b] \in Seq(Events') /\ head'[b] \in blocks'
  BY <1>1, <1>9, WorkersRemain, SeqMonotonic DEF Inv, BakerInv, WorkerInv
<1> QED
  <2> HIDE DEF N, X
  <2> QED
    BY <1>1, <1>4, <1>8, <1>9, <1>10, <1>11, <1>12, <1>13, <1>14, BakerActs

(* A block is signed and sent. *)
LEMMA NewForgedBlockStep ==
  ASSUME Inv, NEW b \in Bakers, NewForgedBlock(b)
  PROVE  Inv'
<1> DEFINE r == Head(forge_requests[b])
           p == r.content
<1>1. /\ forge_requests[b] # <<>> /\ r.kind = "block"
      /\ authorized(b, r) /\ RecordHighwatermark(b, r)
      /\ blocks' = blocks \union {p}
      /\ forge_requests' = [forge_requests EXCEPT ![b] = Tail(@)]
      /\ UNCHANGED <<state, proposal_watched, qc_event_stream, recorded, unrecorded,
                     head, preattestations, attestations>>
      /\ Grows
  BY DEF NewForgedBlock, node, Grows
<1>2. /\ r.kind \in Kinds /\ p \in Proposable(b, blocks, Certified)
      /\ p.level \in Int /\ p.round \in Int
      /\ Tail(forge_requests[b]) \in Seq(Requests(b))
  BY <1>1, OldestRequest
<1>3. /\ highwatermarks' \in [Bakers -> [Kinds -> [level : Int, round : Int]]]
      /\ \A c \in Bakers : c # b => highwatermarks'[c] = highwatermarks[c]
      /\ \A k \in Kinds : k # "block" => highwatermarks'[b][k] = highwatermarks[b][k]
      /\ highwatermarks'[b]["block"] =
            record(highwatermarks[b]["block"], p.level, p.round)
  BY <1>1, <1>2, HighwatermarksTyped
<1>4. BlockInv'
  <2>1. Certified \subseteq Certified'
    BY <1>1, WorkersRemain
  <2>2. \A q \in blocks' : q = Genesis \/ Extends(q, blocks, Certified)
    BY <1>1, <1>2 DEF Inv, BlockInv, Chain, Proposable
  <2>3. \A q \in blocks' : q = Genesis \/ Extends(q, blocks', Certified')
    BY <1>1, <2>1, <2>2, ExtendsRemains DEF Grows
  <2> QED  BY <1>1, <2>3 DEF Inv, BlockInv, Chain
<1>5. VoteInv' /\ VotesFor(blocks) \subseteq VotesFor(blocks')
  <2>1. VotesFor(blocks) \subseteq VotesFor(blocks')
    <3>1. blocks \subseteq blocks'
      BY <1>1 DEF Grows
    <3> QED  BY <3>1, CertifiedGrows
  <2>2. \A m \in Peers : Preattested(m)' = Preattested(m)
    BY <1>1 DEF Preattested
  <2> QED  BY <1>1, <2>1, <2>2 DEF Inv, VoteInv, SentVotes
<1>6. DomainInv'
  BY <1>1, <1>3 DEF Inv, DomainInv
<1>7. RoundProposer(p.level, p.round) = b
  BY <1>2 DEF Proposable
<1>8. \A c \in Bakers : c # b => Untouched(c)
  <2> HIDE DEF p
  <2> QED  BY <1>1, <1>3, <1>7 DEF Untouched, Baked, Inv, DomainInv
<1>9. BakerInv(b)'
  <2>0. /\ BakerInv(b)
        /\ Attested(b)' = Attested(b) /\ Preattested(b)' = Preattested(b)
    BY <1>1 DEF Attested, Preattested, rs, Inv
  <2>1. StateInv(b)'
    <3>1. Good(state[b], b, blocks', Payloads(blocks'), Certified', Attested(b))
      BY <1>1, <2>0, StatesRemain DEF BakerInv, StateInv
    <3> QED  BY <1>1, <2>0, <3>1 DEF StateInv
  <2>2. RecordedInv(b)'
    BY <1>1, <2>0, RecordsRemain DEF BakerInv
  <2>3. WorkerInv(b)'
    <3>1. forge_requests'[b] = Tail(forge_requests[b])
      BY <1>1 DEF Inv, DomainInv
    <3>2. forge_requests'[b] \in Seq(Requests(b)')
      BY <1>1, <1>2, <3>1, WorkersRemain, SeqMonotonic
    <3>3. qc_event_stream'[b] \in Seq(Events')
      BY <1>1, <2>0, WorkersRemain, SeqMonotonic DEF BakerInv, WorkerInv
    <3>4. proposal_watched'[b] \in Watches' \union {None}
      BY <1>1, <2>0, WorkersRemain DEF BakerInv, WorkerInv
    <3> QED  BY <3>2, <3>3, <3>4 DEF WorkerInv
  <2>4. WatermarkInv(b)'
    <3>1. Attested(b)' \subseteq VotesFor(blocks')
      BY <1>5, <2>0 DEF BakerInv, WatermarkInv
    <3>2. /\ Signed(Preattested(b)', highwatermarks'[b]["preattestation"])
          /\ Signed(Attested(b)', highwatermarks'[b]["attestation"])
      BY <1>3, <2>0 DEF BakerInv, WatermarkInv, Kinds
    <3>3. Signed(Baked(b)', highwatermarks'[b]["block"])
      <4> DEFINE hw == highwatermarks[b]["block"]
      <4>1. Baked(b)' \subseteq Baked(b) \union {p}
        BY <1>1 DEF Baked
      <4>2. may_sign(hw, p.level, p.round)
        BY <1>1 DEF authorized
      <4>3. /\ hw \in [level : Int, round : Int]
            /\ \A w \in Baked(b) : w.level \in Int /\ w.round \in Int
        BY SignedTypes DEF Kinds
      <4>4. Signed(Baked(b), hw)
        BY <2>0 DEF BakerInv, WatermarkInv
      <4> HIDE DEF p, hw
      <4>5. Signed(Baked(b)', record(hw, p.level, p.round))
        BY <1>2, <4>1, <4>2, <4>3, <4>4, RecordSigned
      <4> QED  BY <1>3, <4>5 DEF hw
    <3> QED  BY <3>1, <3>2, <3>3 DEF WatermarkInv
  <2>5. head'[b] \in blocks'
    BY <1>1, <2>0 DEF BakerInv, Grows
  <2> QED  BY <2>1, <2>2, <2>3, <2>4, <2>5 DEF BakerInv
<1>10. \A c \in Bakers : BakerInv(c)'
  BY <1>1, <1>8, <1>9, Frame
<1> QED  BY <1>4, <1>5, <1>6, <1>10 DEF Inv

(* A request is dropped; its high watermark may have been recorded. *)
LEMMA RequestDroppedStep ==
  ASSUME Inv, NEW b \in Bakers, RequestDropped(b)
  PROVE  Inv'
<1> DEFINE r == Head(forge_requests[b])
<1>1. /\ forge_requests[b] # <<>> /\ RecordHighwatermark(b, r)
      /\ forge_requests' = [forge_requests EXCEPT ![b] = Tail(@)]
      /\ UNCHANGED <<state, proposal_watched, qc_event_stream, recorded, unrecorded,
                     head, blocks, preattestations, attestations>>
      /\ Grows
  BY DEF RequestDropped, node, network, Grows
<1>2. /\ r.kind \in Kinds
      /\ r.content.level \in Int /\ r.content.round \in Int
      /\ Tail(forge_requests[b]) \in Seq(Requests(b))
  BY <1>1, OldestRequest
<1>3. /\ highwatermarks' \in [Bakers -> [Kinds -> [level : Int, round : Int]]]
      /\ \A c \in Bakers : c # b => highwatermarks'[c] = highwatermarks[c]
      /\ \A k \in Kinds : k # r.kind => highwatermarks'[b][k] = highwatermarks[b][k]
      /\ highwatermarks'[b][r.kind] =
           record(highwatermarks[b][r.kind], r.content.level, r.content.round)
  <2> HIDE DEF r
  <2> QED  BY <1>1, <1>2, HighwatermarksTyped
<1>4. /\ Certified' = Certified /\ Events' = Events /\ Watches' = Watches
      /\ \A c \in Bakers \union Peers : /\ Requests(c)' = Requests(c)
                           /\ Attested(c)' = Attested(c)
                           /\ Preattested(c)' = Preattested(c)
                           /\ Baked(c)' = Baked(c)
  BY <1>1 DEF Events, Watches, Certified, Prequorum, Quorum, Requests, Attested,
     Preattested, Baked, rs
<1>5. BlockInv' /\ VoteInv'
  BY <1>1, <1>4 DEF Inv, BlockInv, VoteInv, SentVotes
<1>6. DomainInv'
  BY <1>1, <1>3 DEF Inv, DomainInv
<1>7. \A c \in Bakers : c # b => Untouched(c)
  <2>1. \A c \in Bakers : c # b => forge_requests'[c] = forge_requests[c]
    BY <1>1 DEF Inv, DomainInv
  <2> QED  BY <1>1, <1>3, <1>4, <2>1 DEF Untouched
<1>8. BakerInv(b)'
  <2>0. BakerInv(b)
    BY DEF Inv
  <2>1. StateInv(b)'
    BY <1>1, <1>4, <2>0 DEF BakerInv, StateInv
  <2>2. RecordedInv(b)'
    BY <1>1, <2>0, RecordsRemain DEF BakerInv
  <2>3. WorkerInv(b)'
    <3>1. forge_requests'[b] = Tail(forge_requests[b])
      BY <1>1 DEF Inv, DomainInv
    <3> QED  BY <1>1, <1>2, <1>4, <2>0, <3>1 DEF BakerInv, WorkerInv
  <2>4. ASSUME NEW k \in Kinds, NEW V, Signed(V, highwatermarks[b][k]),
               \A w \in V : w.level \in Int /\ w.round \in Int
        PROVE  Signed(V, highwatermarks'[b][k])
    <3>1. CASE k # r.kind
      BY <1>3, <2>4, <3>1
    <3>2. CASE k = r.kind
      <4>1. highwatermarks[b][k] \in [level : Int, round : Int]
        BY SignedTypes
      <4>2. highwatermarks'[b][k] =
              record(highwatermarks[b][k], r.content.level, r.content.round)
        BY <1>3, <3>2
      <4> HIDE DEF r
      <4>3. Signed(V, record(highwatermarks[b][k], r.content.level, r.content.round))
        BY <1>2, <2>4, <4>1, RecordKeeps
      <4> QED  BY <4>2, <4>3
    <3> QED  BY <3>1, <3>2
  <2>5. WatermarkInv(b)'
    <3>1. /\ Signed(Preattested(b), highwatermarks[b]["preattestation"])
          /\ Signed(Attested(b), highwatermarks[b]["attestation"])
          /\ Signed(Baked(b), highwatermarks[b]["block"])
          /\ Attested(b) \subseteq VotesFor(blocks)
      BY <2>0 DEF BakerInv, WatermarkInv
    <3>2. /\ Signed(Preattested(b), highwatermarks'[b]["preattestation"])
          /\ Signed(Attested(b), highwatermarks'[b]["attestation"])
          /\ Signed(Baked(b), highwatermarks'[b]["block"])
      BY <2>4, <3>1, SignedTypes DEF Kinds
    <3> QED  BY <1>1, <1>4, <3>1, <3>2 DEF WatermarkInv
  <2> QED  BY <1>1, <2>0, <2>1, <2>2, <2>3, <2>5 DEF BakerInv
<1>9. \A c \in Bakers : BakerInv(c)'
  BY <1>1, <1>7, <1>8, Frame
<1> QED  BY <1>5, <1>6, <1>9 DEF Inv

(***************************************************************************)
(* A baker starts again from its files and the node's head                 *)
(***************************************************************************)
(* The initial state of a baker is good when the data loaded is sound. *)
LEMMA InitialState ==
  ASSUME NEW b, NEW B, NEW C, NEW E, Context(B, Payloads(B), C), Chain(B, C),
         NEW p \in B, NEW now \in Nat,
         NEW d \in StateData(B),
         SoundData(d.level, d.locked_round, d.attestable_payload, B, C)
  PROVE  /\ Good(create_initial_state(b, p, now, d), b, B, Payloads(B), C, E)
         /\ create_initial_state(b, p, now, d).level_state.latest_proposal = p
         /\ create_initial_state(b, p, now, d).round_state.current_round = now
<1> DEFINE P == Payloads(B)
           e == IF is_first_block_in_protocol(p) THEN p ELSE None
           s == [me |-> b, level_state |-> NewLevelState(p, TRUE, e),
                 round_state |-> NewRoundState(now)]
           t == may_load_attestable_data(s, d)
           u == may_initialise_with_latest_proposal_pqc(t)
<1>1. p \in Block(P) /\ p.level \in Nat /\ p.pqc \in OptRound
  BY DEF Context, Block
<1>2. s \in State(b, B, P, E)
  <2>1. e \in B \union {None}
    OBVIOUS
  <2>2. NewLevelState(p, TRUE, e) \in LevelState(B, P)
    <3> HIDE DEF e
    <3> QED
      BY <1>1, <2>1 DEF NewLevelState, LevelState, NoLock, NoAttestable, Lock,
         Attestable, OptRound
  <2>3. NewRoundState(now) \in RoundState(E)
    BY DEF NewRoundState, RoundState, Phases
  <2> HIDE DEF e
  <2> QED  BY <2>2, <2>3 DEF State
<1>3. Sound(s, B, C)
  BY DEF Sound, SoundData, AttestableIsReal, LockIsReal, LockBelowAttestable,
     NewLevelState
<1>4. Good(t, b, B, P, C, E)
  <2>1. t \in State(b, B, P, E)
    <3> HIDE DEF s, P
    <3> QED  BY <1>2 DEF may_load_attestable_data, State, LevelState, StateData, P
  <2>2. Sound(t, B, C)
    <3> HIDE DEF s
    <3> QED
      BY <1>2, <1>3 DEF may_load_attestable_data, State, LevelState, Sound
  <2> QED  BY <2>1, <2>2 DEF Good
<1>5. t.level_state.latest_proposal = p /\ t.level_state.current_level = p.level
      /\ t.round_state.current_round = now
  BY <1>2 DEF may_load_attestable_data, State, LevelState, NewLevelState, NewRoundState
<1>6. u = t \/ u = may_update_attestable_payload_with_internal_pqc(t, p)
  <2> HIDE DEF t
  <2>1. t.level_state.attestable_payload.prequorum \in OptRound
    BY <1>4 DEF Good, State, LevelState, Attestable
  <2> QED
    BY <1>1, <1>5, <2>1 DEF may_initialise_with_latest_proposal_pqc,
       may_update_attestable_payload_with_internal_pqc, OptRound, NoRound
<1>7. Good(u, b, B, P, C, E)
  <2> HIDE DEF t, u
  <2> QED  BY <1>4, <1>5, <1>6, UpdateAttestable
<1>8. u.level_state.latest_proposal = p /\ u.round_state.current_round = now
  <2> HIDE DEF t
  <2> QED  BY <1>4, <1>5 DEF may_initialise_with_latest_proposal_pqc, Good, State, LevelState
<1>9. create_initial_state(b, p, now, d) = u
  BY DEF create_initial_state
<1> HIDE DEF u
<1> QED  BY <1>7, <1>8, <1>9

(* The first event after a start has a good outcome. *)
LEMMA BootstrapOutcome ==
  ASSUME NEW b, NEW B, NEW C, NEW E, Context(B, Payloads(B), C), Chain(B, C),
         NEW s, Good(s, b, B, Payloads(B), C, E), NEW ops \in Ops,
         s.round_state.current_round \in Rounds(s.level_state.current_level)
  PROVE  GoodOutcome(compute_bootstrap_event(s, ops), b, B, Payloads(B), C, E, {},
                     Proposable(b, B, C))
<1> DEFINE now == s.round_state.current_round
           R == Proposable(b, B, C)
<1>1. now \in Nat /\ s.level_state.latest_proposal \in B
  BY DEF Good, State, RoundState, LevelState
<1>2. GoodOutcome(New_head_proposal(s, s.level_state.latest_proposal, now),
                  b, B, Payloads(B), C, E, {}, R)
  <2> HIDE DEF R, now
  <2> QED  BY <1>1, NewProposal
<1>3. GoodOutcome(end_of_round(s, now - 1, ops), b, B, Payloads(B), C, E, {}, R)
  <2>1. /\ RoundProposer(s.level_state.current_level, now) = b
        /\ s.level_state.latest_proposal.level # 0
        => propose_block_action(s, now, ops).arg \in R
    BY ProposeExtends
  <2>2. now - 1 \in Int /\ (now - 1) + 1 = now
    BY <1>1
  <2> DEFINE ending == now - 1
  <2>3. ending \in Int /\ ending + 1 \in Nat
        /\ (/\ RoundProposer(s.level_state.current_level, ending + 1) = b
            /\ s.level_state.latest_proposal.level # 0
            => propose_block_action(s, ending + 1, ops).arg \in R)
    BY <1>1, <2>1, <2>2
  <2> HIDE DEF R, ending, now
  <2>4. GoodOutcome(end_of_round(s, ending, ops), b, B, Payloads(B), C, E, {}, R)
    BY <2>3, EndRound
  <2> QED  BY <2>4 DEF ending
<1> QED  BY <1>2, <1>3 DEF compute_bootstrap_event

(* A restart keeps nothing but what is on disk. *)
LEMMA RestartStep ==
  ASSUME Inv, NEW b \in Bakers, Restart(b)
  PROVE  Inv'
<1>1. PICK p \in blocks \union ForeignBlocks : \E now \in Now(p), ops \in Ops :
       LET s == create_initial_state(b, p, now, recorded[b])
           o == compute_bootstrap_event(s, ops)
       IN  /\ state' = [state EXCEPT ![b] = o.state]
           /\ \E q \in NewRequests(o, <<>>) :
                forge_requests' = [forge_requests EXCEPT ![b] = q]
           /\ head' = [head EXCEPT ![b] = p]
           /\ blocks' = blocks \union {p}
  BY DEF Restart
<1>2. PICK now \in Now(p), ops \in Ops :
       LET s == create_initial_state(b, p, now, recorded[b])
           o == compute_bootstrap_event(s, ops)
       IN  /\ state' = [state EXCEPT ![b] = o.state]
           /\ \E q \in NewRequests(o, <<>>) :
                forge_requests' = [forge_requests EXCEPT ![b] = q]
           /\ head' = [head EXCEPT ![b] = p]
           /\ blocks' = blocks \union {p}
  BY <1>1
<1> DEFINE s == create_initial_state(b, p, now, recorded[b])
           o == compute_bootstrap_event(s, ops)
<1>3. PICK q \in NewRequests(o, <<>>) :
        /\ state' = [state EXCEPT ![b] = o.state]
        /\ forge_requests' = [forge_requests EXCEPT ![b] = q]
        /\ head' = [head EXCEPT ![b] = p]
        /\ blocks' = blocks \union {p}
  BY <1>2
<1>4. /\ proposal_watched' = [proposal_watched EXCEPT ![b] = None]
      /\ qc_event_stream' = [qc_event_stream EXCEPT ![b] = <<>>]
      /\ unrecorded' = [unrecorded EXCEPT ![b] = FALSE]
      /\ UNCHANGED <<highwatermarks, recorded, preattestations, attestations>>
  BY DEF Restart
<1>5. Grows
  BY <1>3, <1>4 DEF Grows
<1>6. /\ Certified' = CertifiedBy(preattestations, blocks')
      /\ p \in blocks' /\ BlockInv' /\ Chain(blocks', Certified')
      /\ Context(blocks', Payloads(blocks'), Certified')
      /\ \A c \in Bakers : Baked(c)' \subseteq Baked(c)
  BY <1>3, <1>4, <1>5, NewBlock DEF Certified
<1>7. now \in Nat /\ now \in Rounds(p.level)
  BY <1>6, BlockTypes, BoundsAssumption DEF Now, Rounds
<1>8. RecordedInv(b)'
  BY <1>4, <1>5, RecordsRemain DEF Inv, BakerInv
<1>9. GoodOutcome(o, b, blocks', Payloads(blocks'), Certified', {}, {},
                  Proposable(b, blocks', Certified'))
  <2>1. /\ recorded[b] \in StateData(blocks')
        /\ SoundData(recorded[b].level, recorded[b].locked_round,
                     recorded[b].attestable_payload, blocks', Certified')
    BY <1>4, <1>8 DEF RecordedInv
  <2> DEFINE B == blocks'
             C == Certified'
             d == recorded[b]
  <2>2. /\ Good(s, b, B, Payloads(B), C, {})
        /\ s.level_state.latest_proposal = p
        /\ s.round_state.current_round = now
    <3>1. /\ p \in B /\ Chain(B, C) /\ Context(B, Payloads(B), C)
          /\ d \in StateData(B)
          /\ SoundData(d.level, d.locked_round, d.attestable_payload, B, C)
          /\ s = create_initial_state(b, p, now, d)
      BY <1>6, <2>1
    <3> HIDE DEF B, C, d, s
    <3>2. now \in Nat
      BY <1>7
    <3>3. /\ Good(create_initial_state(b, p, now, d), b, B, Payloads(B), C, {})
          /\ create_initial_state(b, p, now, d).level_state.latest_proposal = p
          /\ create_initial_state(b, p, now, d).round_state.current_round = now
      BY <3>1, <3>2, InitialState
    <3> QED  BY <3>1, <3>3
  <2>3. s.level_state.current_level = p.level
    BY <2>2 DEF Good, Sound
  <2> HIDE DEF s
  <2> QED  BY <1>6, <1>7, <2>2, <2>3, BootstrapOutcome
<1> HIDE DEF o
<1>10. Good(state'[b], b, blocks', Payloads(blocks'), Certified', {})
  BY <1>3, <1>9 DEF GoodOutcome, Inv, DomainInv
<1>11. state'[b].round_state.early_attestations = {}
  BY <1>10 DEF Good, State, RoundState
<1>12. /\ Attested(b)' \subseteq Attested(b)
       /\ \A c : Preattested(c)' = Preattested(c)
  BY <1>4, <1>11 DEF Attested, Preattested, rs
<1>13. StateInv(b)'
  <2>1. {} \subseteq Attested(b)'
    OBVIOUS
  <2> QED  BY <1>10, <1>11, <2>1, GoodForEarly DEF StateInv
<1>14. WorkerInv(b)'
  <2>1. proposal_watched'[b] = None /\ qc_event_stream'[b] = <<>>
        /\ forge_requests'[b] = q
    BY <1>3, <1>4 DEF Inv, DomainInv
  <2> DEFINE R == Proposable(b, blocks', Certified')
  <2>2. Requests(b)' = RequestsFor(VotesFor(blocks'), R)
    BY DEF Requests
  <2>3. q \in Seq(Requests(b)')
    <3>1. /\ o.action \in {"Prepare_consensus_votes", "Prepare_attestations"} =>
               o.arg \in VotesFor(blocks')
          /\ o.action = "Prepare_block" => o.arg \in R
      BY <1>9 DEF GoodOutcome
    <3>2. <<>> \in Seq(Requests(b)')
      BY EmptySeq
    <3> HIDE DEF R
    <3> QED  BY <2>2, <3>1, <3>2, RequestsAreTyped
  <2>4. <<>> \in Seq(Events')
    BY EmptySeq
  <2> QED  BY <2>1, <2>3, <2>4 DEF WorkerInv
<1>15. VotesFor(blocks) \subseteq VotesFor(blocks')
  <2>1. blocks \subseteq blocks'
    BY <1>5 DEF Grows
  <2> QED  BY <2>1, CertifiedGrows
<1>16. WatermarkInv(b)'
  <2>1. WatermarkInv(b)
    BY DEF Inv, BakerInv
  <2> QED
    BY <1>4, <1>6, <1>12, <1>15, <2>1
    DEF WatermarkInv, Signed, OnePerRound, Below
<1>17. BakerInv(b)'
  BY <1>3, <1>6, <1>8, <1>13, <1>14, <1>16 DEF BakerInv, Inv, DomainInv
<1>18. \A c \in Bakers : c # b => Untouched(c)
  BY <1>3, <1>4, <1>6 DEF Untouched, Inv, DomainInv
<1>19. \A c \in Bakers : BakerInv(c)'
  BY <1>5, <1>17, <1>18, Frame
<1>20. DomainInv'
  BY <1>3, <1>4 DEF Inv, DomainInv
<1>21. VoteInv'
  BY <1>4, <1>12, <1>15 DEF Inv, VoteInv, SentVotes
<1> QED  BY <1>6, <1>19, <1>20, <1>21 DEF Inv

-----------------------------------------------------------------------------
(***************************************************************************)
(* Peers, and the theorem                                                  *)
(***************************************************************************)
(* A vote of a peer touches no baker. *)
LEMMA PeerStep ==
  ASSUME Inv, NEW m \in Peers, PeerPreattests(m) \/ PeerAttests(m)
  PROVE  Inv'
<1>1. UNCHANGED <<state, proposal_watched, qc_event_stream, forge_requests,
                  highwatermarks, recorded, unrecorded, head, blocks>>
  BY DEF PeerPreattests, PeerAttests, workers, disk, node
<1>2. PICK p \in blocks :
        \/ /\ ~HasVoted(preattestations, m, Vote(p))
           /\ Sends(m, {Vote(p)}, preattestations, preattestations')
           /\ attestations' = attestations
        \/ /\ preattestations' = preattestations
           /\ Sends(m, {Vote(p)}, attestations, attestations')
  BY DEF PeerPreattests, PeerAttests, Sends
<1>3. Grows
  BY <1>1, <1>2 DEF Grows, Sends
<1>4. \A c \in Bakers : c # m
  BY MembersAssumption
<1>5. ASSUME NEW c \in Bakers  PROVE BakerInv(c)'
  <2>1. /\ SentBy(c, preattestations') = SentBy(c, preattestations)
        /\ SentBy(c, attestations') = SentBy(c, attestations)
    BY <1>2, <1>4, SentBySigner
  <2>2. Untouched(c)
    BY <1>1, <2>1 DEF Untouched, Baked
  <2> QED  BY <1>3, <2>2, Frame
<1>6. BlockInv'
  <2>1. Certified \subseteq Certified'
    BY <1>3, WorkersRemain
  <2>2. \A q \in blocks : q = Genesis \/ Extends(q, blocks, Certified')
    BY <2>1, ExtendsRemains DEF Inv, BlockInv, Chain
  <2> QED  BY <1>1, <2>2 DEF Inv, BlockInv, Chain
<1>7. VoteInv'
  <2>1. signed(m, {Vote(p)}) \subseteq SentVotes
    BY DEF signed, SentVotes, VotesFor
  <2>2. preattestations' \subseteq SentVotes /\ attestations' \subseteq SentVotes
    BY <1>2, <2>1 DEF Sends, Inv, VoteInv
  <2>3. ASSUME NEW c \in Peers  PROVE OnePerRound(Preattested(c)')
    <3>1. OnePerRound(Preattested(c))
      BY DEF Inv, VoteInv
    <3>2. CASE \/ preattestations' = preattestations
               \/ Sends(m, {Vote(p)}, preattestations, preattestations') /\ c # m
      <4>1. Preattested(c)' = Preattested(c)
        BY <3>2, SentBySigner DEF Preattested
      <4> QED  BY <3>1, <4>1
    <3>3. CASE /\ ~HasVoted(preattestations, m, Vote(p))
               /\ Sends(m, {Vote(p)}, preattestations, preattestations')
               /\ c = m
      <4>1. Preattested(c)' = Preattested(c) \union {Vote(p)}
        BY <3>3, SentBySigner DEF Preattested
      <4>2. \A v \in Preattested(c) :
              ~(v.level = Vote(p).level /\ v.round = Vote(p).round)
        BY <3>3 DEF HasVoted, Preattested, SentBy
      <4> QED  BY <3>1, <4>1, <4>2 DEF OnePerRound
    <3> QED  BY <1>2, <3>2, <3>3
  <2> QED  BY <1>1, <2>2, <2>3 DEF VoteInv, SentVotes
<1>8. DomainInv'
  BY <1>1 DEF Inv, DomainInv
<1> QED  BY <1>5, <1>6, <1>7, <1>8 DEF Inv

(* Init establishes the invariant. *)
LEMMA InitInv ==
  ASSUME Init
  PROVE  Inv
<1> DEFINE s(b) == create_initial_state(b, Genesis, 0, NoStateData)
<1>1. Chain(blocks, Certified)
  BY DEF Init, Chain
<1>2. Context(blocks, Payloads(blocks), Certified)
  <2>1. blocks \subseteq Block(Payloads(blocks))
    BY <1>1, BlockTypes
  <2>2. Certified = {}
    BY QuorumAssumption DEF Init, Certified, CertifiedBy, Sent
  <2> QED  BY <2>1, <2>2 DEF Context, OnePayload, BlocksAreCertified, Init, Genesis
<1>3. Genesis \in blocks /\ VoteInv
  BY DEF Init, VoteInv, OnePerRound, Preattested, SentBy
<1>4. DomainInv
  BY DEF Init, DomainInv, empty, NoHighwatermark
<1>5. /\ NoStateData \in StateData(blocks)
      /\ SoundData(NoStateData.level, NoStateData.locked_round,
                   NoStateData.attestable_payload, blocks, Certified)
  BY DEF NoStateData, StateData, NoLock, NoAttestable, Lock, Attestable, OptRound,
     NoRound, SoundData, AttestableIsReal, LockIsReal, LockBelowAttestable
<1>6. ASSUME NEW b \in Bakers  PROVE BakerInv(b)
  <2>1. Good(s(b), b, blocks, Payloads(blocks), Certified, {})
    BY <1>1, <1>2, <1>3, <1>5, InitialState
  <2>2. state[b] = s(b) /\ recorded[b] = NoStateData /\ head[b] = Genesis
        /\ proposal_watched[b] = None /\ qc_event_stream[b] = <<>>
        /\ forge_requests[b] = <<>>
    BY DEF Init
  <2> HIDE DEF s
  <2>3. s(b).round_state.early_attestations = {}
    BY <2>1 DEF Good, State, RoundState
  <2>4. StateInv(b)
    BY <2>1, <2>2, <2>3, GoodForEarly DEF StateInv
  <2>5. RecordedInv(b)
    BY <1>5, <2>2 DEF RecordedInv
  <2>6. WorkerInv(b)
    BY <2>2, EmptySeq DEF WorkerInv
  <2>7. Preattested(b) = {} /\ Attested(b) = {} /\ Baked(b) = {}
    BY <2>2, <2>3 DEF Init, Preattested, Attested, Baked, SentBy, rs
  <2>8. WatermarkInv(b)
    BY <2>7 DEF WatermarkInv, Signed, OnePerRound, Below
  <2> QED  BY <1>3, <2>2, <2>4, <2>5, <2>6, <2>8 DEF BakerInv
<1> QED  BY <1>1, <1>3, <1>4, <1>6 DEF Inv, BlockInv

(* A stuttering step changes nothing the invariant is about. *)
LEMMA Stutter ==
  ASSUME Inv, UNCHANGED vars
  PROVE  Inv'
<1>1. UNCHANGED <<state, proposal_watched, qc_event_stream, forge_requests,
                  highwatermarks, recorded, unrecorded, head, blocks,
                  preattestations, attestations>>
  BY DEF vars, workers, disk, node, network
<1>2. Grows /\ Certified' = Certified
  BY <1>1 DEF Grows, Certified
<1>3. \A c \in Bakers : BakerInv(c)'
  <2>1. \A c \in Bakers : Untouched(c)
    BY <1>1 DEF Untouched, Baked
  <2> QED  BY <1>2, <2>1, Frame
<1>4. BlockInv' /\ VoteInv' /\ DomainInv'
  BY <1>1, <1>2 DEF Inv, BlockInv, VoteInv, SentVotes, Preattested, DomainInv
<1> QED  BY <1>3, <1>4 DEF Inv

(* Every step of Next keeps the invariant. *)
LEMMA NextInv ==
  ASSUME Inv, [Next]_vars
  PROVE  Inv'
<1>1. ASSUME NEW b \in Bakers, BakerStep(b)  PROVE Inv'
  BY <1>1, NewValidProposalStep, NewHeadProposalStep, EndOfRoundStep,
     TimeToPrepareStep, QuorumEventStep, NewForgedVoteStep, NewForgedBlockStep,
     RequestDroppedStep, MonitoringStep, RecordStep, RestartStep DEF BakerStep
<1>2. ASSUME NEW m \in Peers, PeerPreattests(m) \/ PeerAttests(m)  PROVE Inv'
  BY <1>2, PeerStep
<1> QED  BY <1>1, <1>2, Stutter DEF Next

(* The invariant holds of every behaviour of Baker, whatever restarts,     *)
(* records and delays it has.                                              *)
THEOREM Invariance == Spec => []Inv
<1>1. Init => Inv
  BY InitInv
<1>2. Inv /\ [Next]_vars => Inv'
  BY NextInv
<1> QED  BY <1>1, <1>2, PTL DEF Spec

(* No baker double signs, across restarts and late signatures: it sends    *)
(* one preattestation, one attestation and one block per level and round   *)
(* at most.                                                                *)
THEOREM NoDoubleSigningHolds == Spec => []NoDoubleSigning
<1>1. Inv => NoDoubleSigning
  <2> SUFFICES ASSUME Inv  PROVE NoDoubleSigning
    OBVIOUS
  <2>1. ASSUME NEW V \in {preattestations, attestations}, NEW v \in V, NEW w \in V,
               v.member = w.member, v.member \in Bakers,
               v.vote.level = w.vote.level, v.vote.round = w.vote.round
        PROVE  v = w
    <3>1. OnePerRound(SentBy(v.member, V))
      BY <2>1 DEF Inv, BakerInv, WatermarkInv, Signed, OnePerRound, Preattested, Attested
    <3>2. v.vote = w.vote
      BY <2>1, <3>1 DEF OnePerRound, SentBy
    <3>3. v \in SentVotes /\ w \in SentVotes
      BY DEF Inv, VoteInv
    <3> QED  BY <2>1, <3>2, <3>3 DEF SentVotes
  <2>2. ASSUME NEW p \in blocks, NEW q \in blocks, p.level = q.level,
               p.round = q.round, RoundProposer(p.level, p.round) \in Bakers
        PROVE  p = q
    <3>1. CASE p = Genesis \/ q = Genesis
      <4>1. \A x \in blocks : x # Genesis => x.level > 0
        BY BlockTypes DEF Inv, BlockInv
      <4>2. Genesis.level = 0
        BY DEF Genesis
      <4> QED  BY <2>2, <3>1, <4>1, <4>2
    <3>2. CASE p # Genesis /\ q # Genesis
      <4> DEFINE b == RoundProposer(p.level, p.round)
      <4>1. p \in Baked(b) /\ q \in Baked(b)
        BY <2>2, <3>2 DEF Baked
      <4>2. OnePerRound(Baked(b))
        BY <2>2 DEF Inv, BakerInv, WatermarkInv, Signed
      <4> QED  BY <2>2, <4>1, <4>2 DEF OnePerRound
    <3> QED  BY <3>1, <3>2
  <2> QED  BY <2>1, <2>2 DEF NoDoubleSigning
<1> QED  BY <1>1, Invariance, PTL

(* The prequorums behind the attestable payload and the lock of a baker    *)
(* exist on the network, after restarts from recorded state too.           *)
THEOREM CertificatesHold == Spec => []CertificatesAreReal
<1>1. Inv => CertificatesAreReal
  BY DEF Inv, BakerInv, StateInv, Good, Sound, SoundData, AttestableIsReal,
     LockIsReal, Certified, CertifiedBy, Cert, Prequorum, CertificatesAreReal, ls
<1> QED  BY <1>1, Invariance, PTL

(* The payload a locked baker would repropose is certified at the round of *)
(* its lock or later.                                                      *)
THEOREM LockHolds == Spec => []LockIsCertified
<1>1. Inv => LockIsCertified
  BY DEF Inv, BakerInv, StateInv, Good, Sound, SoundData, LockBelowAttestable,
     LockIsCertified, ls
<1> QED  BY <1>1, Invariance, PTL
=============================================================================
