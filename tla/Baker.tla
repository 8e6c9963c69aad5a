--------------------------------- MODULE Baker ---------------------------------
(***************************************************************************)
(* Bakers running the automaton of StateTransitions, each with its         *)
(* operation worker, its forge worker and its files, connected by a        *)
(* network that delays and reorders everything it carries.                 *)
(*                                                                         *)
(* One action is one turn of Baking_scheduling.automaton_loop (an event,   *)
(* the step and its action performed to the end), or one step of a worker  *)
(* running beside it.  The committee has three kinds of members: Bakers    *)
(* run this code; Peers are honest members seen from outside, which follow *)
(* the discipline of TenderbakeVoting and are otherwise arbitrary;         *)
(* Byzantine members count as having sent every vote.                      *)
(***************************************************************************)
EXTENDS StateTransitions, Highwatermarks, Sequences, FiniteSets

CONSTANTS
  Bakers, Peers, Byzantine,
  Quorums,         \* sets of members with consensus_threshold voting power
  Ops,             \* what a fresh payload may contain
  MaxLevel,        \* bound on levels
  MaxRound,        \* bound on rounds, one per level
  TimelySigning,   \* votes are signed before their round ends
  SignerMayFail,   \* the signer may fail on a request
  Announced,       \* which announcements of blocks the node makes
  RecordState,     \* --record-state: the Filesystem state recorder
  MaxRestarts      \* bound on restarts, of all bakers together

Members == Bakers \union Peers \union Byzantine

ASSUME MembersAssumption ==
  /\ Bakers \intersect Peers = {}
  /\ (Bakers \union Peers) \intersect Byzantine = {}
  /\ Quorums \subseteq SUBSET Members
(* Two quorums have an honest member in common: they hold more than two    *)
(* thirds of the voting power, Byzantine members less than a third.        *)
ASSUME QuorumAssumption ==
  \A Q1, Q2 \in Quorums : (Q1 \intersect Q2) \ Byzantine # {}
ASSUME BoundsAssumption ==
  /\ MaxLevel \in Nat /\ MaxRound \in [0 .. MaxLevel -> Nat] /\ MaxRestarts \in Nat
  /\ {TimelySigning, SignerMayFail, RecordState} \subseteq BOOLEAN
  /\ Announced \subseteq {"valid", "head"}

VARIABLES
  state,            \* Baking_state.t of each baker
  proposal_watched, \* operation worker: what it is counting votes for
  qc_event_stream,  \* operation worker: quorum events not yet handled
  forge_requests,   \* forge worker: what is to be signed, in order
  highwatermarks,   \* on disk: last signed level and round, per kind
  recorded,         \* on disk: level, lock and attestable payload
  unrecorded,       \* the last step is performed but not yet recorded
  validated,        \* blocks the node announced as valid
  head,             \* last head the node announced
  blocks,           \* every block sent on the network
  preattestations,  \* every preattestation sent on the network
  attestations,     \* every attestation sent on the network
  restarts

disk == <<highwatermarks, recorded, unrecorded>>
workers == <<proposal_watched, qc_event_stream, forge_requests>>
node == <<validated, head>>
network == <<blocks, preattestations, attestations>>
vars == <<state, workers, disk, node, network, restarts>>

-----------------------------------------------------------------------------
(***************************************************************************)
(* Quorums and blocks on the network                                       *)
(***************************************************************************)
Sent(votes, v, Q) == \A m \in Q \ Byzantine : [member |-> m, vote |-> v] \in votes

Prequorum(v) == \E Q \in Quorums : Sent(preattestations, v, Q)
Quorum(v) == \E Q \in Quorums : Sent(attestations, v, Q)

Final(p) == p = Genesis \/ Quorum(Vote(p))

Rounds(level) == 0 .. MaxRound[level]

(* Order of fitness_repr.ml: level, locked round, predecessor round        *)
(* (smaller is better), round.                                             *)
predecessor_round(p) == IF p = Genesis THEN 0 ELSE predecessor(p).round
Fitter(p, q) ==
  \/ p.level > q.level
  \/ /\ p.level = q.level
     /\ \/ p.pqc > q.pqc
        \/ /\ p.pqc = q.pqc
           /\ \/ predecessor_round(p) < predecessor_round(q)
              \/ predecessor_round(p) = predecessor_round(q) /\ p.round > q.round

(* Blocks that members other than Bakers may send: a fresh payload on a    *)
(* final block, or a known payload with the certificate it needs.          *)
ForeignFreshBlocks ==
  UNION {{FreshBlock(q, r, ops) : r \in Rounds(q.level + 1), ops \in Ops} :
           q \in {b \in blocks : b.level < MaxLevel /\ Final(b)}}
ForeignReproposals ==
  UNION {UNION {{ReproposedBlock([proposal |-> q, prequorum |-> k], r) :
                   r \in k + 1 .. MaxRound[q.level]} :
                k \in {n \in Rounds(q.level) : Prequorum([Vote(q) EXCEPT !.round = n])}} :
         q \in blocks \ {Genesis}}
ForeignBlocks ==
  {p \in ForeignFreshBlocks \union ForeignReproposals :
     \/ RoundProposer(p.level, p.round) \in Byzantine
     \/ /\ RoundProposer(p.level, p.round) \in Peers
        /\ \A q \in blocks : <<q.level, q.round>> # <<p.level, p.round>>}

-----------------------------------------------------------------------------
(***************************************************************************)
(* Performing an action and recording the new state                        *)
(***************************************************************************)
watch(kind, p) == [kind |-> kind, candidate |-> p]

(* The watch an action installs in the operation worker. *)
NewWatch(o, old) ==
  CASE o.action \in {"Prepare_consensus_votes", "Watch_prequorum"} ->
         watch("prequorum", o.state.level_state.latest_proposal)
    [] o.action \in {"Prepare_attestations", "Inject_attestations", "Watch_quorum"} ->
         watch("quorum", o.state.level_state.latest_proposal)
    [] OTHER -> old

request(kind, x) == [kind |-> kind, content |-> x]

(* What the action asks of the forge worker, after the requests `queue'.   *)
(* cancel_all_pending_tasks, called when votes are prepared, drops the     *)
(* tasks in the signing queue: not the active or signed ones before them,  *)
(* nor the requests after them that are not processed yet.                 *)
cancel_all_pending_tasks(queue) ==
  UNION {{SubSeq(queue, 1, i) \o SubSeq(queue, j + 1, Len(queue)) :
            j \in i .. Len(queue)} : i \in 0 .. Len(queue)}

NewRequests(o, queue) ==
  CASE o.action = "Prepare_consensus_votes" ->
         {q \o <<request("preattestation", o.arg), request("attestation", o.arg)>> :
            q \in cancel_all_pending_tasks(queue)}
    [] o.action = "Prepare_attestations" ->
         {Append(queue, request("attestation", o.arg))}
    [] o.action = "Prepare_block" -> {Append(queue, request("block", o.arg))}
    [] OTHER -> {queue}

signed(b, votes) == {[member |-> b, vote |-> v] : v \in votes}

state_data(s) == [level |-> s.level_state.current_level,
                  locked_round |-> s.level_state.locked_round,
                  attestable_payload |-> s.level_state.attestable_payload]

NoStateData == [level |-> NoRound, locked_round |-> NoLock,
                attestable_payload |-> NoAttestable]

(* The check of may_record_new_state: Broken_locked_values_invariant. *)
AttestableRound(d) == IF d.attestable_payload = NoAttestable THEN NoRound
                      ELSE d.attestable_payload.proposal.round
is_new_state_consistent(old, new) ==
  \/ new.level > old.level
  \/ /\ new.level = old.level
     /\ new.locked_round.round >= old.locked_round.round
     /\ AttestableRound(new) >= AttestableRound(old)

(* perform_action(b, s, o, queue): baker b, in state s, performs outcome o *)
(* of a step; the requests `queue' are those left to the forge worker.     *)
(* Whatever the action injects is out before the state is recorded.  When  *)
(* recording fails, the loop goes on from the state before the action.     *)
perform_action(b, s, o, queue) ==
  LET consistent == is_new_state_consistent(state_data(s), state_data(o.state))
  IN
  /\ state' = [state EXCEPT ![b] = IF RecordState /\ ~consistent
                                   THEN o.step ELSE o.state]
  /\ unrecorded' = [unrecorded EXCEPT ![b] =
       RecordState /\ consistent /\ state_data(s) # state_data(o.state)]
  /\ proposal_watched' = [proposal_watched EXCEPT ![b] = NewWatch(o, @)]
  /\ \E q \in NewRequests(o, queue) :
       forge_requests' = [forge_requests EXCEPT ![b] = q]
  /\ preattestations' = preattestations \union
       (IF o.action = "Inject_preattestation" THEN signed(b, {o.arg}) ELSE {})
  /\ attestations' = attestations \union
       (IF o.action = "Inject_attestations" THEN signed(b, o.arg) ELSE {})

(* may_record_new_state, at the end of the loop's turn. *)
Record(b) ==
  /\ unrecorded[b]
  /\ recorded' = [recorded EXCEPT ![b] = state_data(state[b])]
  /\ unrecorded' = [unrecorded EXCEPT ![b] = FALSE]
  /\ UNCHANGED <<state, workers, highwatermarks, node, network, restarts>>

-----------------------------------------------------------------------------
(***************************************************************************)
(* Events of the automaton                                                 *)
(***************************************************************************)
(* The clock never shows a round before that of a block being handled. *)
Now(p) == p.round .. MaxRound[p.level]

NewValidProposal(b) ==
  /\ "valid" \in Announced
  /\ ~unrecorded[b]
  /\ \E p \in (blocks \union ForeignBlocks) \ validated[b] : \E now \in Now(p) :
       /\ perform_action(b, state[b], New_valid_proposal(state[b], p, now),
                         forge_requests[b])
       /\ validated' = [validated EXCEPT ![b] = @ \union {p}]
       /\ blocks' = blocks \union {p}
  /\ UNCHANGED <<qc_event_stream, highwatermarks, recorded, head, restarts>>

NewHeadProposal(b) ==
  /\ "head" \in Announced
  /\ ~unrecorded[b]
  /\ \E p \in blocks \union ForeignBlocks : \E now \in Now(p) :
       /\ Fitter(p, head[b])
       /\ perform_action(b, state[b], New_head_proposal(state[b], p, now),
                         forge_requests[b])
       /\ head' = [head EXCEPT ![b] = p]
       /\ blocks' = blocks \union {p}
  /\ UNCHANGED <<qc_event_stream, highwatermarks, recorded, validated, restarts>>

(* When the timeout End_of_round is armed: compute_next_round_time. *)
next_round_armed(s) ==
  /\ s.level_state.next_level_proposed_round = NoRound
  /\ ~is_first_block_in_protocol(
        IF s.level_state.attestable_payload = NoAttestable
        THEN s.level_state.latest_proposal
        ELSE s.level_state.attestable_payload.proposal)

EndOfRound(b) ==
  /\ ~unrecorded[b]
  /\ next_round_armed(state[b])
  /\ state[b].round_state.current_round < MaxRound[state[b].level_state.current_level]
  /\ TimelySigning => \A i \in DOMAIN forge_requests[b] :
                         forge_requests[b][i].kind = "block"
  /\ \E ops \in Ops :
       perform_action(b, state[b],
         end_of_round(state[b], state[b].round_state.current_round, ops),
         forge_requests[b])
  /\ UNCHANGED <<qc_event_stream, highwatermarks, recorded, node, blocks, restarts>>

(* When the timeout Time_to_prepare_next_level_block may be armed:         *)
(* compute_next_potential_baking_time_at_next_level.                       *)
next_baking_armed(s, at_round) ==
  /\ s.level_state.elected_block # None
  /\ s.level_state.next_level_proposed_round < at_round
  /\ round_proposer(s, s.level_state.current_level + 1, at_round)

TimeToPrepareNextLevelBlock(b) ==
  /\ ~unrecorded[b]
  /\ state[b].level_state.current_level < MaxLevel
  /\ \E at_round \in Rounds(state[b].level_state.current_level + 1), ops \in Ops :
       /\ next_baking_armed(state[b], at_round)
       /\ perform_action(b, state[b],
            time_to_prepare_next_level_block(state[b], at_round, ops),
            forge_requests[b])
  /\ UNCHANGED <<qc_event_stream, highwatermarks, recorded, node, blocks, restarts>>

QuorumEvent(b) ==
  /\ ~unrecorded[b]
  /\ qc_event_stream[b] # <<>>
  /\ LET e == Head(qc_event_stream[b])
     IN  perform_action(b, state[b],
           IF e.kind = "prequorum" THEN Prequorum_reached(state[b], e.candidate)
                                   ELSE Quorum_reached(state[b], e.candidate),
           forge_requests[b])
  /\ qc_event_stream' = [qc_event_stream EXCEPT ![b] = Tail(@)]
  /\ UNCHANGED <<highwatermarks, recorded, node, blocks, restarts>>

-----------------------------------------------------------------------------
(***************************************************************************)
(* Workers                                                                 *)
(***************************************************************************)
(* The votes counted by the operation worker reach the threshold: it       *)
(* announces the quorum and stops counting.                                *)
update_monitoring(b) ==
  /\ proposal_watched[b] # None
  /\ IF proposal_watched[b].kind = "prequorum"
     THEN Prequorum(Vote(proposal_watched[b].candidate))
     ELSE Quorum(Vote(proposal_watched[b].candidate))
  /\ qc_event_stream' = [qc_event_stream EXCEPT ![b] = Append(@, proposal_watched[b])]
  /\ proposal_watched' = [proposal_watched EXCEPT ![b] = None]
  /\ UNCHANGED <<state, forge_requests, disk, node, network, restarts>>

(* The oldest request of the forge worker, authorized by the high          *)
(* watermarks, which are recorded before the signer is called.             *)
authorized(b, r) ==
  may_sign(highwatermarks[b][r.kind], r.content.level, r.content.round)

RecordHighwatermark(b, r) ==
  highwatermarks' = [highwatermarks EXCEPT ![b][r.kind] =
                       record(@, r.content.level, r.content.round)]

(* A signed vote comes back to the automaton. *)
NewForgedVote(b) ==
  /\ ~unrecorded[b]
  /\ forge_requests[b] # <<>>
  /\ LET r == Head(forge_requests[b])
     IN  /\ r.kind # "block"
         /\ authorized(b, r)
         /\ RecordHighwatermark(b, r)
         /\ perform_action(b, state[b],
              IF r.kind = "preattestation"
              THEN handle_forged_preattestation(state[b], r.content)
              ELSE handle_forged_attestation(state[b], r.content),
              Tail(forge_requests[b]))
  /\ UNCHANGED <<qc_event_stream, recorded, node, blocks, restarts>>

(* A signed block comes back to the automaton, which injects it. *)
NewForgedBlock(b) ==
  /\ ~unrecorded[b]
  /\ forge_requests[b] # <<>>
  /\ LET r == Head(forge_requests[b])
     IN  /\ r.kind = "block"
         /\ authorized(b, r)
         /\ RecordHighwatermark(b, r)
         /\ blocks' = blocks \union {r.content}
  /\ forge_requests' = [forge_requests EXCEPT ![b] = Tail(@)]
  /\ UNCHANGED <<state, proposal_watched, qc_event_stream, recorded, unrecorded,
                 node, preattestations, attestations, restarts>>

(* The request is not authorized, or signing it fails: it is dropped. *)
RequestDropped(b) ==
  /\ forge_requests[b] # <<>>
  /\ SignerMayFail \/ ~authorized(b, Head(forge_requests[b]))
  /\ RecordHighwatermark(b, Head(forge_requests[b]))
  /\ forge_requests' = [forge_requests EXCEPT ![b] = Tail(@)]
  /\ UNCHANGED <<state, proposal_watched, qc_event_stream, recorded, unrecorded,
                 node, network, restarts>>

-----------------------------------------------------------------------------
may_load_attestable_data(s, d) ==
  IF s.level_state.current_level = d.level
  THEN [s EXCEPT !.level_state.locked_round = d.locked_round,
                 !.level_state.attestable_payload = d.attestable_payload]
  ELSE s

(* Mutant: the proposal is taken for the round it has reached, not the one *)
(* its certificate is of.                                                  *)
initialise_with_latest_proposal_round(s) ==
  LET p == s.level_state.latest_proposal
  IN  IF s.level_state.attestable_payload.prequorum < p.pqc
      THEN [s EXCEPT !.level_state.attestable_payload =
                        [proposal |-> p, prequorum |-> p.round]]
      ELSE s

may_initialise_with_latest_proposal_pqc(s) ==
  LET p == s.level_state.latest_proposal
  IN  IF s.level_state.attestable_payload.prequorum < p.pqc
      THEN [s EXCEPT !.level_state.attestable_payload =
                        [proposal |-> p, prequorum |-> p.pqc]]
      ELSE s

create_initial_state(b, p, now, d) ==
  may_initialise_with_latest_proposal_pqc(
    may_load_attestable_data(
      [me |-> b,
       level_state |-> NewLevelState(p, TRUE, IF is_first_block_in_protocol(p)
                                              THEN p ELSE None),
       round_state |-> NewRoundState(now)], d))

compute_bootstrap_event(s, ops) ==
  IF s.level_state.latest_proposal.round = s.round_state.current_round
  THEN New_head_proposal(s, s.level_state.latest_proposal,
                         s.round_state.current_round)
  ELSE end_of_round(s, s.round_state.current_round - 1, ops)

(* The node's head may have moved since the last one the baker handled. *)
Restart(b) ==
  /\ restarts < MaxRestarts
  /\ restarts' = restarts + 1
  /\ \E p \in {q \in blocks \union ForeignBlocks : q = head[b] \/ Fitter(q, head[b])} :
     \E now \in Now(p), ops \in Ops :
       LET s == create_initial_state(b, p, now, recorded[b])
           o == compute_bootstrap_event(s, ops)
       IN  /\ state' = [state EXCEPT ![b] = o.state]
           /\ \E q \in NewRequests(o, <<>>) :
                forge_requests' = [forge_requests EXCEPT ![b] = q]
           /\ head' = [head EXCEPT ![b] = p]
           /\ blocks' = blocks \union {p}
  /\ proposal_watched' = [proposal_watched EXCEPT ![b] = None]
  /\ qc_event_stream' = [qc_event_stream EXCEPT ![b] = <<>>]
  /\ unrecorded' = [unrecorded EXCEPT ![b] = FALSE]
  /\ UNCHANGED <<highwatermarks, recorded, validated, preattestations, attestations>>

-----------------------------------------------------------------------------
(***************************************************************************)
(* Peers vote for blocks of the network under the discipline that          *)
(* TenderbakeVoting asks of every honest member, and when they please.     *)
(***************************************************************************)
HasVoted(votes, m, v) ==
  \E w \in votes : /\ w.member = m
                   /\ <<w.vote.level, w.vote.round>> = <<v.level, v.round>>

PeerPreattests(m) ==
  /\ \E p \in blocks \ {Genesis} :
       /\ ~HasVoted(preattestations, m, Vote(p))
       /\ \A v \in attestations :
            /\ v.member = m /\ v.vote.level = p.level
            /\ v.vote.round < p.round /\ v.vote.payload # p.payload
            => \E r \in v.vote.round + 1 .. p.round :
                 Prequorum([Vote(p) EXCEPT !.round = r])
       /\ preattestations' = preattestations \union signed(m, {Vote(p)})
  /\ UNCHANGED <<state, workers, disk, node, blocks, attestations, restarts>>

PeerAttests(m) ==
  /\ \E p \in blocks \ {Genesis} :
       /\ ~HasVoted(attestations, m, Vote(p))
       /\ Prequorum(Vote(p))
       /\ \A v \in preattestations :
            v.member = m /\ v.vote.level = p.level => v.vote.round <= p.round
       /\ attestations' = attestations \union signed(m, {Vote(p)})
  /\ UNCHANGED <<state, workers, disk, node, blocks, preattestations, restarts>>

-----------------------------------------------------------------------------
Init ==
  /\ state = [b \in Bakers |-> create_initial_state(b, Genesis, 0, NoStateData)]
  /\ proposal_watched = [b \in Bakers |-> None]
  /\ qc_event_stream = [b \in Bakers |-> <<>>]
  /\ forge_requests = [b \in Bakers |-> <<>>]
  /\ highwatermarks = [b \in Bakers |-> empty]
  /\ recorded = [b \in Bakers |-> NoStateData]
  /\ unrecorded = [b \in Bakers |-> FALSE]
  /\ validated = [b \in Bakers |-> {Genesis}]
  /\ head = [b \in Bakers |-> Genesis]
  /\ blocks = {Genesis}
  /\ preattestations = {}
  /\ attestations = {}
  /\ restarts = 0

BakerStep(b) ==
  \/ NewValidProposal(b)
  \/ NewHeadProposal(b)
  \/ EndOfRound(b)
  \/ TimeToPrepareNextLevelBlock(b)
  \/ QuorumEvent(b)
  \/ NewForgedVote(b)
  \/ NewForgedBlock(b)
  \/ RequestDropped(b)
  \/ update_monitoring(b)
  \/ Record(b)
  \/ Restart(b)

Next ==
  \/ \E b \in Bakers : BakerStep(b)
  \/ \E m \in Peers : PeerPreattests(m) \/ PeerAttests(m)

Spec == Init /\ [][Next]_vars

-----------------------------------------------------------------------------
(***************************************************************************)
(* Properties                                                              *)
(***************************************************************************)
ls(b) == state[b].level_state
rs(b) == state[b].round_state

(* The state keeps its shape: every block, payload and vote a baker holds  *)
(* was sent on the network, the latest proposal is of the current level,   *)
(* and the clock is never behind it.                                       *)
TypeOK ==
  \A b \in Bakers :
    /\ ls(b).latest_proposal \in blocks /\ head[b] \in blocks
    /\ ls(b).current_level = ls(b).latest_proposal.level
    /\ rs(b).current_round \in Rounds(ls(b).current_level)
    /\ rs(b).current_round >= ls(b).latest_proposal.round
    /\ rs(b).current_phase \in Phases
    /\ rs(b).delayed_quorum \in BOOLEAN /\ rs(b).awaiting_unlocking_pqc \in BOOLEAN
    /\ ls(b).is_latest_proposal_applied \in BOOLEAN
    /\ rs(b).early_attestations \subseteq {Vote(p) : p \in blocks}
    /\ ls(b).locked_round = NoLock \/
         [level |-> ls(b).current_level, round |-> ls(b).locked_round.round,
          payload |-> ls(b).locked_round.payload] \in {Vote(p) : p \in blocks}
    /\ ls(b).attestable_payload = NoAttestable \/
         ls(b).attestable_payload.proposal \in blocks
    /\ ls(b).elected_block \in blocks \union {None}
    /\ proposal_watched[b] = None \/ proposal_watched[b].candidate \in blocks

(* The assertion of propose_block_action, and why reproposing the          *)
(* attestable payload is safe for a locked baker: the payload it would     *)
(* repropose has a certificate at least as recent as its lock, and the     *)
(* very payload of the lock when the rounds are equal.                     *)
LockIsCertified ==
  \A b \in Bakers : ls(b).locked_round # NoLock =>
    /\ ls(b).attestable_payload.prequorum >= ls(b).locked_round.round
    /\ ls(b).attestable_payload.prequorum = ls(b).locked_round.round =>
         ls(b).attestable_payload.proposal.payload = ls(b).locked_round.payload

(* The prequorum behind the attestable payload and the lock really exists  *)
(* on the network.                                                         *)
CertificatesAreReal ==
  \A b \in Bakers :
    /\ ls(b).attestable_payload # NoAttestable =>
         Prequorum([level |-> ls(b).current_level,
                    round |-> ls(b).attestable_payload.prequorum,
                    payload |-> ls(b).attestable_payload.proposal.payload])
    /\ ls(b).locked_round # NoLock =>
         Prequorum([level |-> ls(b).current_level,
                    round |-> ls(b).locked_round.round,
                    payload |-> ls(b).locked_round.payload])

(* handle_expected_applied_proposal elects the latest proposal on the      *)
(* strength of delayed_quorum: while it is awaited, the quorum is there    *)
(* and is for that very proposal.                                          *)
DelayedQuorumIsForLatest ==
  \A b \in Bakers : rs(b).current_phase = "Awaiting_application" =>
    /\ rs(b).delayed_quorum
    /\ ls(b).elected_block = None
    /\ Final(ls(b).latest_proposal)

(* A baker elects, and bakes the next level on, only a block with a        *)
(* quorum; and every block a baker sends is one its node accepts: fresh,   *)
(* or with a certificate for its payload from an earlier round.            *)
OwnBlocksAreValid ==
  /\ \A b \in Bakers : ls(b).elected_block # None => Final(ls(b).elected_block)
  /\ \A p \in blocks \ {Genesis} :
       /\ Final(predecessor(p))
       /\ IF p.pqc = NoRound THEN p.payload.round = p.round
          ELSE /\ p.payload.round <= p.pqc /\ p.pqc < p.round
               /\ Prequorum([level |-> p.level, round |-> p.pqc, payload |-> p.payload])

(* No double signing, across restarts and late signatures: at a level and  *)
(* a round a baker sends one preattestation, one attestation and one block *)
(* at most.                                                                *)
NoDoubleSigning ==
  /\ \A V \in {preattestations, attestations} : \A v, w \in V :
       /\ v.member = w.member /\ v.member \in Bakers
       /\ v.vote.level = w.vote.level /\ v.vote.round = w.vote.round
       => v = w
  /\ \A p, q \in blocks :
       /\ p.level = q.level /\ p.round = q.round
       /\ RoundProposer(p.level, p.round) \in Bakers
       => p = q

(* A baker attests only what reached a prequorum in that very round        *)
(* (handle_forged_attestation, may_inject_attestations).                   *)
AttestedHasPrequorum ==
  \A v \in attestations : v.member \in Bakers => Prequorum(v.vote)

(* The lock at work: a baker that attested a payload preattests another    *)
(* one in a later round of the level only if a prequorum for it, of a      *)
(* round after the one attested, released it.                              *)
PreattestsAreReleased ==
  \A v \in attestations, w \in preattestations :
    /\ v.member = w.member /\ v.member \in Bakers
    /\ v.vote.level = w.vote.level /\ v.vote.round < w.vote.round
    /\ v.vote.payload # w.vote.payload
    => \E r \in v.vote.round + 1 .. w.vote.round :
         Prequorum([w.vote EXCEPT !.round = r])

(* level_state.locked_round is the "last proposal received where we        *)
(* injected an attestation": a baker that attested at its current level is *)
(* locked at that round or a later one.                                    *)
AttestedIsLocked ==
  \A v \in attestations :
    /\ v.member \in Bakers
    /\ v.vote.level = ls(v.member).current_level
    => ls(v.member).locked_round.round >= v.vote.round

(* Within a level the lock only moves to later rounds, and it changes      *)
(* payload only by doing so.                                               *)
LockMovesForward ==
  [][\A b \in Bakers :
       ls(b)'.current_level = ls(b).current_level =>
         \/ ls(b)'.locked_round = ls(b).locked_round
         \/ ls(b)'.locked_round.round > ls(b).locked_round.round]_state

(* "The earlier, the better": the elected block of a level stays. *)
ElectedBlockStays ==
  [][\A b \in Bakers :
       /\ ls(b)'.current_level = ls(b).current_level
       /\ ls(b).elected_block # None
       => ls(b)'.elected_block = ls(b).elected_block]_state

-----------------------------------------------------------------------------
(***************************************************************************)
(* Refinement: the honest votes of level 1 follow the discipline of        *)
(* TenderbakeVoting.  (Payloads of level 1 are a constant set: they all    *)
(* extend Genesis.)                                                        *)
(***************************************************************************)
VotesOfLevel1(votes) ==
  {[member |-> w.member, round |-> w.vote.round, payload |-> w.vote.payload] :
     w \in {v \in votes : v.vote.level = 1}}

Voting == INSTANCE TenderbakeVoting WITH
            Honest <- Bakers \union Peers, Round <- Rounds(1),
            Payload <- [pred : {Genesis}, round : Rounds(1), ops : Ops],
            preattestations <- VotesOfLevel1(preattestations),
            attestations <- VotesOfLevel1(attestations)

(* The bakers keep the promises from which agreement is proved: one        *)
(* preattestation per round, a lock only a later prequorum releases, and   *)
(* no attestation of a round already left.  TenderbakeVoting!Agreement,    *)
(* that no two payloads reach a quorum at a level, follows.                *)
ImplementsVoting == Voting!Spec

(* Agreement itself: level 1 never has two final blocks with different     *)
(* payloads, whatever their rounds and however the proposer equivocates.   *)
FinalBlocksAgree ==
  \A p, q \in blocks : p.level = 1 /\ q.level = 1 /\ Final(p) /\ Final(q) =>
                         p.payload = q.payload

-----------------------------------------------------------------------------
(***************************************************************************)
(* Liveness in a round that lasts long enough (no End_of_round): the       *)
(* network delivers, the signer answers and the loop handles what it got.  *)
(***************************************************************************)
Fairness ==
  \A b \in Bakers :
    /\ WF_vars(NewValidProposal(b)) /\ WF_vars(NewHeadProposal(b))
    /\ WF_vars(TimeToPrepareNextLevelBlock(b))
    /\ WF_vars(QuorumEvent(b)) /\ WF_vars(update_monitoring(b))
    /\ WF_vars(NewForgedVote(b)) /\ WF_vars(NewForgedBlock(b))
    /\ WF_vars(RequestDropped(b)) /\ WF_vars(Record(b))

FairSpec == Spec /\ Fairness

(* Whatever the order in which announcements, signatures and quorums reach *)
(* them, all bakers end up electing a block of the last level.             *)
EventuallyElected ==
  <>[](\A b \in Bakers : /\ ls(b).current_level = MaxLevel
                        /\ ls(b).elected_block # None)
===============================================================================
