--------------------------- MODULE StateTransitions ---------------------------
(***************************************************************************)
(* The consensus automaton of the Tenderbake baker                         *)
(* (src/proto_alpha/lib_delegate/state_transitions.ml) as pure operators:  *)
(* like State_transitions.step, each handler maps a baking state and an    *)
(* event to a new state and one action for Baking_actions.perform_action.  *)
(* Handlers keep the names they have in the code.                          *)
(*                                                                         *)
(* Data abstraction.  A block stands for its own hash.  A payload is the   *)
(* triple hashed by block_payload_repr.ml: predecessor block, round at     *)
(* which it was first proposed, operations.  A certificate is its round;   *)
(* an absent round is NoRound.                                             *)
(***************************************************************************)
EXTENDS Integers

CONSTANTS None,                \* the absent value
          RoundProposer(_, _)  \* who may bake at a level and a round

NoRound == -1

(* Phases of a round: baking_state.ml, type phase. *)
Phases == {"Idle", "Awaiting_preattestations", "Awaiting_attestations",
           "Awaiting_application"}

(* The block that activated the protocol: nobody votes for it. *)
Genesis == [level |-> 0, round |-> 0, pqc |-> NoRound,
            payload |-> [pred |-> None, round |-> 0, ops |-> None]]

predecessor(p) == p.payload.pred

is_first_block_in_protocol(p) == p.level = 0

FreshBlock(pred, round, ops) ==
  [level |-> pred.level + 1, round |-> round, pqc |-> NoRound,
   payload |-> [pred |-> pred, round |-> round, ops |-> ops]]

ReproposedBlock(attestable, round) ==
  [attestable.proposal EXCEPT !.round = round, !.pqc = attestable.prequorum]

(* The content of a preattestation or an attestation for a proposal. *)
Vote(p) == [level |-> p.level, round |-> p.round, payload |-> p.payload]

NoLock == [round |-> NoRound, payload |-> None]
NoAttestable == [proposal |-> None, prequorum |-> NoRound]

NewRoundState(round) ==
  [current_round |-> round, current_phase |-> "Idle", delayed_quorum |-> FALSE,
   early_attestations |-> {}, awaiting_unlocking_pqc |-> FALSE]

NewLevelState(p, applied, elected) ==
  [current_level |-> p.level, latest_proposal |-> p,
   is_latest_proposal_applied |-> applied, locked_round |-> NoLock,
   attestable_payload |-> NoAttestable, elected_block |-> elected,
   next_level_proposed_round |-> NoRound]

-----------------------------------------------------------------------------
(***************************************************************************)
(* Outcomes.  `step' is the state State_transitions.step returns, `state'  *)
(* the one perform_action returns: they differ only for the two actions    *)
(* that run the automaton again, Update_to_level and Synchronize_round.    *)
(***************************************************************************)
Outcome(s, kind, arg) ==
  [state |-> s, step |-> s, action |-> kind, arg |-> arg]

do_nothing(s) == Outcome(s, "Do_nothing", None)

update_current_phase(s, phase) == [s EXCEPT !.round_state.current_phase = phase]

round_proposer(s, level, round) == RoundProposer(level, round) = s.me

-----------------------------------------------------------------------------
(* Mutant: a proposal ahead of the clock is not refused. *)
accept_early_proposal(s, p) ==
  IF s.round_state.current_round > p.round THEN "Outdated_proposal"
  ELSE "Valid_proposal"

(***************************************************************************)
(* Proposals                                                               *)
(***************************************************************************)
is_acceptable_proposal_for_current_level(s, p) ==
  LET current == s.round_state.current_round
      previous == s.level_state.latest_proposal
  IN  CASE current < p.round -> "Invalid"
        [] current > p.round -> "Outdated_proposal"
        [] current = p.round ->
             IF /\ p.round = previous.round
                /\ p # previous
                /\ predecessor(p) = predecessor(previous)
             THEN "Invalid" ELSE "Valid_proposal"

update_proposal(s, applied, p) ==
  [s EXCEPT !.level_state.latest_proposal = p,
            !.level_state.is_latest_proposal_applied =
               \/ applied
               \/ s.level_state.latest_proposal = p /\ @]

may_update_proposal(s, applied, p) ==
  IF s.level_state.latest_proposal.round < p.round
  THEN update_proposal(s, applied, p) ELSE s

(* Mutant: the certificate of the proposal always replaces the one held. *)
always_update_attestable_payload(s, p) ==
  IF p.pqc = NoRound THEN s
  ELSE [s EXCEPT !.level_state.attestable_payload =
                    [proposal |-> p, prequorum |-> p.pqc]]

may_update_attestable_payload_with_internal_pqc(s, p) ==
  IF p.pqc = NoRound \/ p.pqc < s.level_state.attestable_payload.prequorum
  THEN s
  ELSE [s EXCEPT !.level_state.attestable_payload =
                    [proposal |-> p, prequorum |-> p.pqc]]

has_already_been_handled(s, p) ==
  /\ s.level_state.latest_proposal = p
  /\ s.level_state.is_latest_proposal_applied

prepare_consensus_votes(s, p) ==
  IF is_first_block_in_protocol(p)
  THEN do_nothing(update_current_phase(s, "Idle"))
  ELSE Outcome(update_current_phase(s, "Awaiting_preattestations"),
               "Prepare_consensus_votes", Vote(p))

(* Votes are asked for once per round: only from the phase Idle. *)
may_vote(s, p) ==
  IF s.round_state.current_phase = "Idle"
  THEN prepare_consensus_votes(s, p) ELSE do_nothing(s)

(* A proposal that contradicts the lock is not voted for, only watched. *)
watch_unlocking_prequorum(s) ==
  Outcome([s EXCEPT !.round_state.awaiting_unlocking_pqc = TRUE,
                    !.round_state.current_phase = "Awaiting_preattestations"],
          "Watch_prequorum", None)

(* Case Valid_proposal of handle_proposal. *)
handle_valid_proposal(s, applied, p) ==
  LET t == [may_update_proposal(
              may_update_attestable_payload_with_internal_pqc(s, p), applied, p)
            EXCEPT !.round_state.early_attestations = {}]
      locked == t.level_state.locked_round
  IN  IF \/ locked = NoLock
         \/ locked.payload = p.payload
         \/ p.pqc # NoRound /\ locked.round < p.pqc
      THEN may_vote(t, p)
      ELSE watch_unlocking_prequorum(t)

(* Case Outdated_proposal of handle_proposal. *)
handle_outdated_proposal(s, applied, p) ==
  do_nothing(may_update_proposal(
               may_update_attestable_payload_with_internal_pqc(s, p), applied, p))

mark_applied(s) ==
  do_nothing([s EXCEPT !.level_state.is_latest_proposal_applied = TRUE])

(* handle_proposal for a proposal of the current level and branch.  It is  *)
(* also what the recursive calls made through Update_to_level and          *)
(* Synchronize_round reach: the proposal is then the latest one.           *)
handle_current_proposal(s, applied, p) ==
  IF applied /\ s.level_state.latest_proposal = p
  THEN mark_applied(s)
  ELSE CASE is_acceptable_proposal_for_current_level(s, p) = "Invalid" ->
              do_nothing(s)
         [] is_acceptable_proposal_for_current_level(s, p) = "Outdated_proposal" ->
              handle_outdated_proposal(s, applied, p)
         [] OTHER -> handle_valid_proposal(s, applied, p)

(* Mutant: the lock is not reset at a new level. *)
update_to_level_locked(s, applied, p, now) ==
  [handle_current_proposal(
     [s EXCEPT !.level_state = [NewLevelState(p, applied, None)
                                EXCEPT !.locked_round = s.level_state.locked_round],
               !.round_state = NewRoundState(now)], applied, p)
   EXCEPT !.step = s]

(* `now' is the round the clock gives for the proposal's predecessor. *)
update_to_level(s, applied, p, now) ==
  [handle_current_proposal(
     [s EXCEPT !.level_state = NewLevelState(p, applied, None),
               !.round_state = NewRoundState(now)], applied, p)
   EXCEPT !.step = s]

synchronize_round(s, applied, p, now) ==
  LET t == update_proposal(s, applied, p)
  IN  [handle_current_proposal(
         [t EXCEPT !.round_state = NewRoundState(now)], applied, p)
       EXCEPT !.step = t]

(* Mutant: a branch is followed whatever its certificate. *)
always_switch_branch(s, applied, p, now) == synchronize_round(s, applied, p, now)

may_switch_branch(s, applied, p, now) ==
  IF \/ s.level_state.attestable_payload = NoAttestable
     \/ s.level_state.attestable_payload.prequorum < p.pqc
  THEN synchronize_round(s, applied, p, now)
  ELSE do_nothing(s)

(* Mutant: `<=' for `<', a proposal of the current level starts it anew. *)
handle_proposal_anew(s, applied, p, now) ==
  CASE applied /\ s.level_state.latest_proposal = p -> mark_applied(s)
    [] OTHER -> IF s.level_state.current_level > p.level THEN do_nothing(s)
                ELSE update_to_level(s, applied, p, now)

handle_proposal(s, applied, p, now) ==
  LET latest == s.level_state.latest_proposal
      level == s.level_state.current_level
  IN  CASE applied /\ latest = p -> mark_applied(s)
        [] ~(applied /\ latest = p) /\ level > p.level -> do_nothing(s)
        [] level < p.level -> update_to_level(s, applied, p, now)
        [] OTHER -> IF predecessor(latest) # predecessor(p)
                    THEN may_switch_branch(s, applied, p, now)
                    ELSE handle_current_proposal(s, applied, p)

(* The block of a late quorum is applied at last.  The applied flag that   *)
(* the code sets first is dropped when the block becomes the elected one.  *)
handle_expected_applied_proposal(s) ==
  LET t == IF s.level_state.elected_block = None
           THEN [s EXCEPT !.level_state.elected_block =
                             s.level_state.latest_proposal]
           ELSE [s EXCEPT !.level_state.is_latest_proposal_applied = TRUE]
  IN  do_nothing(update_current_phase(t, "Idle"))

New_head_proposal(s, p, now) ==
  IF /\ s.round_state.current_phase = "Awaiting_application"
     /\ s.level_state.latest_proposal = p
  THEN handle_expected_applied_proposal(s)
  ELSE handle_proposal(s, TRUE, p, now)

New_valid_proposal(s, p, now) ==
  IF s.round_state.current_phase # "Idle" /\ has_already_been_handled(s, p)
  THEN do_nothing(s)
  ELSE handle_proposal(s, FALSE, p, now)

-----------------------------------------------------------------------------
(* Mutant: the attestable payload is reproposed without its certificate. *)
propose_uncertified(s, round, ops) ==
  Outcome(s, "Prepare_block",
          IF s.level_state.attestable_payload = NoAttestable
          THEN FreshBlock(predecessor(s.level_state.latest_proposal), round, ops)
          ELSE [s.level_state.attestable_payload.proposal EXCEPT !.round = round])

(***************************************************************************)
(* Timeouts                                                                *)
(***************************************************************************)
(* `ops' are the operations the mempool holds for a fresh payload. *)
propose_block_action(s, round, ops) ==
  LET attestable == s.level_state.attestable_payload
  IN  Outcome(s, "Prepare_block",
              IF attestable = NoAttestable
              THEN FreshBlock(predecessor(s.level_state.latest_proposal),
                              round, ops)
              ELSE ReproposedBlock(attestable, round))

(* Mutant: the lock and the certificate are forgotten with the round. *)
end_of_round_unlocks(s, ending_round, ops) ==
  LET round == ending_round + 1
      t == [s EXCEPT !.level_state.locked_round = NoLock,
                     !.level_state.attestable_payload = NoAttestable,
                     !.round_state = NewRoundState(round)]
  IN  IF round_proposer(t, t.level_state.current_level, round)
      THEN propose_block_action(t, round, ops) ELSE do_nothing(t)

end_of_round(s, ending_round, ops) ==
  LET round == ending_round + 1
      t == [s EXCEPT !.round_state = NewRoundState(round)]
  IN  IF /\ round_proposer(t, t.level_state.current_level, round)
         /\ ~is_first_block_in_protocol(t.level_state.latest_proposal)
      THEN propose_block_action(t, round, ops)
      ELSE do_nothing(t)

time_to_prepare_next_level_block(s, at_round, ops) ==
  Outcome([s EXCEPT !.level_state.next_level_proposed_round = at_round],
          "Prepare_block",
          FreshBlock(s.level_state.elected_block, at_round, ops))

-----------------------------------------------------------------------------
(***************************************************************************)
(* Quorums and forged votes                                                *)
(***************************************************************************)
may_inject_attestations(s, votes) ==
  LET attestable == s.level_state.attestable_payload
  IN  IF /\ attestable # NoAttestable
         /\ \A v \in votes : v.payload = attestable.proposal.payload
      THEN Outcome(s, "Inject_attestations", votes)
      ELSE do_nothing(s)

(* Mutant: attestations signed before the prequorum are forgotten. *)
drop_early_forged_attestations(s) ==
  Outcome([s EXCEPT !.round_state.early_attestations = {}], "Watch_quorum", None)

may_inject_early_forged_attestations(s) ==
  IF s.round_state.early_attestations = {}
  THEN Outcome(s, "Watch_quorum", None)
  ELSE may_inject_attestations(
         [s EXCEPT !.round_state.early_attestations = {}],
         s.round_state.early_attestations)

(* Mutant: the candidate of the event is not compared with the proposal. *)
prequorum_of_any_candidate(s, candidate) ==
  LET latest == s.level_state.latest_proposal
  IN  may_inject_early_forged_attestations(
        [s EXCEPT
           !.level_state.attestable_payload =
              IF @.prequorum < latest.round
              THEN [proposal |-> latest, prequorum |-> latest.round] ELSE @,
           !.level_state.locked_round =
              [round |-> latest.round, payload |-> latest.payload],
           !.round_state.current_phase = "Awaiting_attestations"])

(* Mutant: the lock is not taken. *)
prequorum_reached_unlocked(s, candidate) ==
  LET latest == s.level_state.latest_proposal
  IN  IF candidate # latest THEN do_nothing(s)
      ELSE may_inject_early_forged_attestations(
             [s EXCEPT
                !.level_state.attestable_payload =
                   [proposal |-> latest, prequorum |-> latest.round],
                !.round_state.current_phase = "Awaiting_attestations"])

(* The lock is taken here, on the latest proposal. *)
prequorum_reached_when_awaiting_preattestations(s, candidate) ==
  LET latest == s.level_state.latest_proposal
      t == [s EXCEPT
              !.level_state.attestable_payload =
                 IF @.prequorum < latest.round
                 THEN [proposal |-> latest, prequorum |-> latest.round] ELSE @,
              !.level_state.locked_round =
                 [round |-> latest.round, payload |-> latest.payload],
              !.round_state.current_phase = "Awaiting_attestations"]
  IN  CASE candidate # latest -> do_nothing(s)
        [] candidate = latest /\ t.round_state.awaiting_unlocking_pqc ->
             Outcome(t, "Prepare_attestations", Vote(latest))
        [] OTHER -> may_inject_early_forged_attestations(t)

Prequorum_reached(s, candidate) ==
  IF s.round_state.current_phase = "Awaiting_preattestations"
  THEN prequorum_reached_when_awaiting_preattestations(s, candidate)
  ELSE do_nothing(s)

(* Mutant: an applied proposal is elected in place of an earlier one. *)
quorum_replaces_elected(s, candidate) ==
  LET latest == s.level_state.latest_proposal
  IN  do_nothing(
        CASE candidate # latest -> s
          [] candidate = latest /\ s.level_state.is_latest_proposal_applied ->
               [s EXCEPT !.level_state.elected_block = latest,
                         !.round_state.current_phase = "Idle"]
          [] OTHER ->
               IF s.level_state.elected_block # None THEN s
               ELSE [s EXCEPT !.round_state.current_phase = "Awaiting_application",
                              !.round_state.delayed_quorum = TRUE])

(* Mutant: the candidate of the event is not compared with the proposal. *)
quorum_of_any_candidate(s, candidate) ==
  do_nothing(
    IF s.level_state.is_latest_proposal_applied
    THEN [s EXCEPT !.level_state.elected_block = s.level_state.latest_proposal,
                   !.round_state.current_phase = "Idle"]
    ELSE [s EXCEPT !.round_state.current_phase = "Awaiting_application",
                   !.round_state.delayed_quorum = TRUE])

quorum_reached_when_waiting_attestations(s, candidate) ==
  LET latest == s.level_state.latest_proposal
  IN  do_nothing(
        CASE candidate # latest \/ s.level_state.elected_block # None -> s
          [] OTHER ->
             IF s.level_state.is_latest_proposal_applied
             THEN [s EXCEPT !.level_state.elected_block = latest,
                            !.round_state.current_phase = "Idle"]
             ELSE [s EXCEPT !.round_state.current_phase = "Awaiting_application",
                            !.round_state.delayed_quorum = TRUE])

Quorum_reached(s, candidate) ==
  IF s.round_state.current_phase = "Awaiting_attestations"
  THEN quorum_reached_when_waiting_attestations(s, candidate)
  ELSE do_nothing(s)

handle_forged_preattestation(s, v) ==
  LET attestable == s.level_state.attestable_payload
  IN  IF attestable = NoAttestable \/ attestable.proposal.payload = v.payload
      THEN Outcome(s, "Inject_preattestation", v)
      ELSE do_nothing(s)

(* Mutant: an attestation signed before the prequorum is not kept back. *)
inject_early_attestation(s, v) ==
  IF v # Vote(s.level_state.latest_proposal) THEN do_nothing(s)
  ELSE may_inject_attestations(s, {v})

handle_forged_attestation(s, v) ==
  CASE v # Vote(s.level_state.latest_proposal) -> do_nothing(s)
    [] /\ v = Vote(s.level_state.latest_proposal)
       /\ s.round_state.current_phase = "Awaiting_preattestations" ->
         do_nothing([s EXCEPT !.round_state.early_attestations = @ \union {v}])
    [] OTHER -> may_inject_attestations(s, {v})
===============================================================================
