--------------------------- MODULE BakerRoundProofs ---------------------------
(***************************************************************************)
(* Bakers that do not record their state (the default): what holds of      *)
(* their rounds, of what they elect and of the blocks they propose.        *)
(***************************************************************************)
EXTENDS BakerProofs

(***************************************************************************)
(* A state in time: the clock is not behind the proposal, votes are        *)
(* awaited only for a proposal of the round of the clock, what is elected  *)
(* is in the set F of final blocks, and neither the certificate nor the    *)
(* lock is of a round still to come.                                       *)
(***************************************************************************)
Timely(s, F) ==
  LET l == s.level_state
      r == s.round_state
  IN  /\ r.current_round \in Rounds(l.current_level)
      /\ r.current_round >= l.latest_proposal.round
      /\ r.current_phase # "Idle" => r.current_round = l.latest_proposal.round
      /\ r.current_phase = "Awaiting_application" =>
           r.delayed_quorum /\ l.elected_block = None /\ l.latest_proposal \in F
      /\ l.elected_block # None => l.elected_block \in F
      /\ l.attestable_payload.prequorum <= r.current_round
      /\ l.locked_round.round <= l.latest_proposal.round

(* The level, the lock and the elected block are kept. *)
Keeps(s, t) ==
  /\ t.level_state.current_level = s.level_state.current_level
  /\ t.level_state.locked_round = s.level_state.locked_round
  /\ t.level_state.elected_block = s.level_state.elected_block

(* Within a level the lock moves forward and an elected block stays. *)
Forward(s, t) ==
  LET l == s.level_state
      m == t.level_state
  IN  m.current_level = l.current_level =>
        /\ m.locked_round = l.locked_round \/ m.locked_round.round > l.locked_round.round
        /\ l.elected_block # None => m.elected_block = l.elected_block

(* Certificates are of rounds before those of their blocks. *)
PqcBefore(B) == \A p \in B : p.pqc < p.round

(* The proposal handled: its certificate, and the block itself. *)
LEMMA TimelyUpdate ==
  ASSUME NEW b, NEW B, NEW P, NEW C, NEW E, NEW F, B \subseteq Block(P), PqcBefore(B),
         NEW s, Good(s, b, B, P, C, E), Timely(s, F), NEW applied \in BOOLEAN,
         NEW p \in B, p.level = s.level_state.current_level,
         p.round <= s.round_state.current_round,
         NEW u, u = may_update_attestable_payload_with_internal_pqc(s, p),
         NEW w, w = may_update_proposal(u, applied, p)
  PROVE  /\ Timely(w, F) /\ Keeps(s, w)
         /\ w.round_state = s.round_state
         /\ p.round = s.round_state.current_round =>
              w.level_state.latest_proposal.round = s.round_state.current_round
<1>1. /\ p \in Block(P) /\ p.round \in Nat /\ p.pqc \in Int /\ p.pqc < p.round
      /\ s.level_state.latest_proposal \in Block(P)
      /\ s.level_state.latest_proposal.round \in Nat
      /\ s.level_state.attestable_payload.prequorum \in Int
      /\ s.level_state.locked_round.round \in Int
      /\ s.round_state.current_round \in Nat
  BY DEF PqcBefore, Block, Good, State, LevelState, RoundState, OptRound, NoRound,
     Attestable, Lock
<1>2. /\ u \in State(b, B, P, E) /\ u.round_state = s.round_state
      /\ u.level_state.latest_proposal = s.level_state.latest_proposal
      /\ u.level_state.attestable_payload.prequorum <= s.round_state.current_round
      /\ Keeps(s, u)
  <2>1. CASE u = s
    BY <2>1, <1>1 DEF Good, Timely, Keeps
  <2>2. CASE u = [s EXCEPT !.level_state.attestable_payload =
                              [proposal |-> p, prequorum |-> p.pqc]]
    BY <2>2, <1>1 DEF Good, Keeps, State, LevelState, Attestable, Block
  <2> QED  BY <2>1, <2>2 DEF may_update_attestable_payload_with_internal_pqc
<1>3. CASE u.level_state.latest_proposal.round < p.round
  <2>1. /\ w.round_state = u.round_state
        /\ w.level_state.latest_proposal = p
        /\ w.level_state.attestable_payload = u.level_state.attestable_payload
        /\ Keeps(u, w)
    BY <1>2, <1>3 DEF may_update_proposal, update_proposal, State, LevelState, Keeps
  <2> QED  BY <1>1, <1>2, <1>3, <2>1 DEF Timely, Keeps
<1>4. CASE ~(u.level_state.latest_proposal.round < p.round)
  <2>1. w = u
    BY <1>4 DEF may_update_proposal
  <2> QED  BY <1>1, <1>2, <1>4, <2>1 DEF Timely, Keeps
<1> QED  BY <1>3, <1>4

(* What an outcome in time is, besides a good one. *)
TimelyOutcome(o, s, F) == Timely(o.state, F) /\ Forward(s, o.state)

(* A proposal of the current level. *)
LEMMA TimelyCurrent ==
  ASSUME NEW b, NEW B, NEW P, NEW C, NEW E, NEW F, B \subseteq Block(P), PqcBefore(B),
         NEW s, Good(s, b, B, P, C, E), Timely(s, F), NEW applied \in BOOLEAN,
         NEW p \in B, p.level = s.level_state.current_level
  PROVE  LET o == handle_current_proposal(s, applied, p)
         IN  Timely(o.state, F) /\ Keeps(s, o.state)
<1> DEFINE u == may_update_attestable_payload_with_internal_pqc(s, p)
           w == may_update_proposal(u, applied, p)
           t == [w EXCEPT !.round_state.early_attestations = {}]
           marked == [s EXCEPT !.level_state.is_latest_proposal_applied = TRUE]
           o == handle_current_proposal(s, applied, p)
           now == s.round_state.current_round
<1>1. Timely(marked, F) /\ Keeps(s, marked) /\ Keeps(s, s)
  BY DEF Good, State, LevelState, Timely, Keeps
<1>2. p.round \in Nat /\ now \in Nat
  BY DEF Block, Good, State, RoundState
<1>3. CASE applied /\ s.level_state.latest_proposal = p
  <2>1. o.state = marked
    BY <1>3 DEF handle_current_proposal, mark_applied, do_nothing, Outcome
  <2> QED  BY <1>1, <2>1
<1>4. CASE ~(applied /\ s.level_state.latest_proposal = p)
           /\ is_acceptable_proposal_for_current_level(s, p) = "Invalid"
  <2>1. o.state = s
    BY <1>4 DEF handle_current_proposal, do_nothing, Outcome
  <2> QED  BY <1>1, <2>1
<1>5. CASE ~(applied /\ s.level_state.latest_proposal = p)
           /\ is_acceptable_proposal_for_current_level(s, p) = "Outdated_proposal"
  <2>1. o.state = w
    BY <1>5 DEF handle_current_proposal, handle_outdated_proposal, do_nothing, Outcome
  <2>2. p.round <= now
    BY <1>2, <1>5 DEF is_acceptable_proposal_for_current_level
  <2>3. Timely(w, F) /\ Keeps(s, w)
    <3> HIDE DEF u, w
    <3>1. u = may_update_attestable_payload_with_internal_pqc(s, p)
          /\ w = may_update_proposal(u, applied, p)
      BY DEF u, w
    <3> QED  BY <2>2, <3>1, TimelyUpdate
  <2> HIDE DEF w
  <2> QED  BY <2>1, <2>3
<1>6. CASE ~(applied /\ s.level_state.latest_proposal = p)
           /\ is_acceptable_proposal_for_current_level(s, p)
                \notin {"Invalid", "Outdated_proposal"}
  <2>1. o = handle_valid_proposal(s, applied, p)
    BY <1>6 DEF handle_current_proposal
  <2>2. p.round = now
    BY <1>2, <1>6 DEF is_acceptable_proposal_for_current_level
  <2>3. /\ Timely(w, F) /\ Keeps(s, w) /\ w.round_state = s.round_state
        /\ w.level_state.latest_proposal.round = now
    <3> HIDE DEF u, w
    <3>1. u = may_update_attestable_payload_with_internal_pqc(s, p)
          /\ w = may_update_proposal(u, applied, p)
      BY DEF u, w
    <3> QED  BY <1>2, <2>2, <3>1, TimelyUpdate
  <2>4. w \in State(b, B, P, E)
    <3>1. u \in State(b, B, P, E)
      BY DEF may_update_attestable_payload_with_internal_pqc,
         Good, State, LevelState, Attestable, Block
    <3> HIDE DEF u
    <3> QED  BY <3>1 DEF may_update_proposal, update_proposal, State, LevelState
  <2>5. /\ t \in State(b, B, P, E) /\ t.level_state = w.level_state
        /\ t.round_state = [w.round_state EXCEPT !.early_attestations = {}]
    <3> HIDE DEF w
    <3> QED  BY <2>4 DEF State, RoundState
  <2>6. Timely(t, F) /\ Keeps(s, t)
    <3> HIDE DEF w, t
    <3> QED  BY <2>3, <2>4, <2>5 DEF Timely, Keeps, State, RoundState
  <2>7. /\ t.level_state.latest_proposal.round = now
        /\ t.round_state.current_round = now
    <3> HIDE DEF w, t
    <3> QED  BY <2>3, <2>4, <2>5 DEF State, RoundState
  <2> DEFINE x == update_current_phase(t, "Awaiting_preattestations")
             y == update_current_phase(t, "Idle")
             z == [t EXCEPT !.round_state.awaiting_unlocking_pqc = TRUE,
                            !.round_state.current_phase = "Awaiting_preattestations"]
  <2>8. o.state \in {t, x, y, z}
    <3>1. o.state \in {may_vote(t, p).state, watch_unlocking_prequorum(t).state}
      BY <2>1 DEF handle_valid_proposal
    <3> HIDE DEF t, o
    <3> QED
      BY <3>1 DEF may_vote, prepare_consensus_votes, do_nothing, Outcome,
         watch_unlocking_prequorum
  <2>9. /\ Timely(x, F) /\ Keeps(s, x)
        /\ Timely(y, F) /\ Keeps(s, y)
        /\ Timely(z, F) /\ Keeps(s, z)
    <3> HIDE DEF t
    <3> QED
      BY <2>5, <2>6, <2>7 DEF update_current_phase, State, RoundState, Timely, Keeps
  <2> HIDE DEF t, x, y, z, o
  <2> QED  BY <2>6, <2>8, <2>9 DEF o
<1> QED  BY <1>3, <1>4, <1>5, <1>6

(* A proposal of a later level: the clock shows the round it is handled at. *)
LEMMA TimelyLevel ==
  ASSUME NEW b, NEW B, NEW P, NEW C, NEW E, NEW F, Context(B, P, C), PqcBefore(B),
         NEW s, Good(s, b, B, P, C, E), Timely(s, F), NEW applied \in BOOLEAN,
         NEW p \in B, NEW now \in Nat, now \in Rounds(p.level), p.round <= now
  PROVE  /\ Timely(update_to_level(s, applied, p, now).state, F)
         /\ update_to_level(s, applied, p, now).state.level_state.current_level = p.level
<1> DEFINE t == [s EXCEPT !.level_state = NewLevelState(p, applied, None),
                          !.round_state = NewRoundState(now)]
           o == handle_current_proposal(t, applied, p)
<1>1. Good(t, b, B, P, C, E)
  BY NewLevel
<1>2. t.level_state = NewLevelState(p, applied, None) /\ t.round_state = NewRoundState(now)
  BY DEF Good, State
<1>3. p.round \in Nat /\ p.level \in Nat /\ B \subseteq Block(P)
  BY DEF Context, Block
<1>4. Timely(t, F) /\ t.level_state.current_level = p.level
  BY <1>2, <1>3
  DEF Timely, NewLevelState, NewRoundState, NoLock, NoAttestable, NoRound
<1>5. Timely(o.state, F) /\ Keeps(t, o.state)
  <2> HIDE DEF t
  <2> QED  BY <1>1, <1>3, <1>4, TimelyCurrent
<1>6. update_to_level(s, applied, p, now).state = o.state
  BY DEF update_to_level
<1> HIDE DEF t, o
<1> QED  BY <1>4, <1>5, <1>6 DEF Keeps

(* A proposal of another branch, with a later certificate than the one     *)
(* held: the lock and the certificate held are both of earlier rounds.     *)
LEMMA TimelySynchronize ==
  ASSUME NEW b, NEW B, NEW P, NEW C, NEW E, NEW F, Context(B, P, C), PqcBefore(B),
         NEW s, Good(s, b, B, P, C, E), Timely(s, F), NEW applied \in BOOLEAN,
         NEW p \in B, p.level = s.level_state.current_level,
         \/ s.level_state.attestable_payload = NoAttestable
         \/ s.level_state.attestable_payload.prequorum < p.pqc,
         NEW now \in Nat, now \in Rounds(p.level), p.round <= now
  PROVE  LET o == synchronize_round(s, applied, p, now)
         IN  Timely(o.state, F) /\ Keeps(s, o.state)
<1> DEFINE t == update_proposal(s, applied, p)
           u == [t EXCEPT !.round_state = NewRoundState(now)]
           o == handle_current_proposal(u, applied, p)
           attestable == s.level_state.attestable_payload
           lock == s.level_state.locked_round
<1>1. Good(t, b, B, P, C, E)
  BY UpdateProposal
<1>2. /\ t.level_state.latest_proposal = p
      /\ t.level_state.attestable_payload = attestable
      /\ Keeps(s, t)
  BY DEF Good, State, LevelState, update_proposal, Keeps
<1>3. /\ Good(u, b, B, P, C, E)
      /\ u.level_state = t.level_state /\ u.round_state = NewRoundState(now)
  <2> HIDE DEF t
  <2>1. u.level_state = t.level_state /\ u.round_state = NewRoundState(now)
    BY <1>1 DEF Good, State
  <2> QED  BY <1>1, <2>1, NewRound
<1>4. /\ p.round \in Nat /\ p.pqc \in Int /\ p.pqc < p.round
      /\ attestable.prequorum \in Int /\ lock.round \in Int
      /\ B \subseteq Block(P)
  BY DEF Context, Block, OptRound, NoRound, PqcBefore, Good, State, LevelState,
     Attestable, Lock
<1>5. attestable.prequorum < p.round
  BY <1>4 DEF NoAttestable, NoRound
<1>6. lock.round <= p.round
  <2>1. CASE lock = NoLock
    BY <1>4, <2>1 DEF NoLock, NoRound
  <2>2. CASE lock # NoLock
    <3>1. attestable.prequorum >= lock.round
      BY <2>2 DEF Good, Sound, SoundData, LockBelowAttestable
    <3> QED  BY <1>4, <1>5, <3>1
  <2> QED  BY <2>1, <2>2
<1>7. Timely(u, F) /\ u.level_state.current_level = p.level
  <2> HIDE DEF t, u
  <2> QED  BY <1>2, <1>3, <1>4, <1>5, <1>6 DEF Timely, Keeps, NewRoundState
<1>8. Timely(o.state, F) /\ Keeps(u, o.state)
  <2> HIDE DEF u
  <2> QED  BY <1>3, <1>4, <1>7, TimelyCurrent
<1>9. synchronize_round(s, applied, p, now).state = o.state
  BY DEF synchronize_round
<1> HIDE DEF t, u, o
<1> QED  BY <1>2, <1>3, <1>8, <1>9 DEF Keeps

(* Keeping the lock and the elected block is moving forward. *)
LEMMA KeepsForward ==
  ASSUME NEW s, NEW t, Keeps(s, t)
  PROVE  Forward(s, t)
BY DEF Keeps, Forward

(* A proposal of any level. *)
LEMMA TimelyProposal ==
  ASSUME NEW b, NEW B, NEW P, NEW C, NEW E, NEW F, Context(B, P, C), PqcBefore(B),
         NEW s, Good(s, b, B, P, C, E), Timely(s, F), NEW applied \in BOOLEAN,
         NEW p \in B, NEW now \in Nat, now \in Rounds(p.level), p.round <= now
  PROVE  TimelyOutcome(handle_proposal(s, applied, p, now), s, F)
<1> DEFINE marked == [s EXCEPT !.level_state.is_latest_proposal_applied = TRUE]
           o == handle_proposal(s, applied, p, now)
           L == s.level_state.current_level
<1>1. Timely(marked, F) /\ Keeps(s, marked) /\ Keeps(s, s)
  BY DEF Good, State, LevelState, Timely, Keeps
<1>2. /\ TimelyOutcome(do_nothing(marked), s, F)
      /\ TimelyOutcome(do_nothing(s), s, F)
  BY <1>1, KeepsForward DEF TimelyOutcome, do_nothing, Outcome
<1>3. L \in Nat /\ p.level \in Nat /\ B \subseteq Block(P)
  BY DEF Good, State, LevelState, Context, Block
<1>4. CASE p.level > L
  <2> DEFINE u == update_to_level(s, applied, p, now)
  <2>1. Timely(u.state, F) /\ u.state.level_state.current_level = p.level
    BY TimelyLevel
  <2>2. TimelyOutcome(u, s, F)
    <3> HIDE DEF u
    <3> QED  BY <1>3, <1>4, <2>1 DEF TimelyOutcome, Forward
  <2>3. o \in {do_nothing(marked), update_to_level(s, applied, p, now)}
    BY <1>3, <1>4 DEF handle_proposal, mark_applied
  <2> QED  BY <1>2, <2>2, <2>3
<1>5. CASE p.level = L
  <2>1. TimelyOutcome(handle_current_proposal(s, applied, p), s, F)
    BY <1>3, <1>5, TimelyCurrent, KeepsForward DEF TimelyOutcome
  <2>2. ASSUME \/ s.level_state.attestable_payload = NoAttestable
               \/ s.level_state.attestable_payload.prequorum < p.pqc
        PROVE  TimelyOutcome(synchronize_round(s, applied, p, now), s, F)
    BY <1>5, <2>2, TimelySynchronize, KeepsForward DEF TimelyOutcome
  <2>3. \/ o \in {do_nothing(marked), do_nothing(s), handle_current_proposal(s, applied, p)}
        \/ /\ o = synchronize_round(s, applied, p, now)
           /\ \/ s.level_state.attestable_payload = NoAttestable
              \/ s.level_state.attestable_payload.prequorum < p.pqc
    BY <1>3, <1>5 DEF handle_proposal, mark_applied, may_switch_branch
  <2> QED  BY <1>2, <2>1, <2>2, <2>3
<1>6. CASE p.level < L
  <2>1. o \in {do_nothing(marked), do_nothing(s)}
    BY <1>3, <1>6 DEF handle_proposal, mark_applied
  <2> QED  BY <1>2, <2>1
<1> QED  BY <1>3, <1>4, <1>5, <1>6

(* The applied block that a late quorum waits for is elected. *)
LEMMA TimelyExpected ==
  ASSUME NEW b, NEW B, NEW P, NEW C, NEW E, NEW F,
         NEW s, Good(s, b, B, P, C, E), Timely(s, F),
         s.round_state.current_phase = "Awaiting_application"
  PROVE  TimelyOutcome(handle_expected_applied_proposal(s), s, F)
<1> DEFINE t == [s EXCEPT !.level_state.elected_block = s.level_state.latest_proposal]
<1>1. handle_expected_applied_proposal(s).state = update_current_phase(t, "Idle")
  BY DEF Timely, handle_expected_applied_proposal, do_nothing, Outcome
<1>2. /\ Timely(update_current_phase(t, "Idle"), F)
      /\ Forward(s, update_current_phase(t, "Idle"))
  BY DEF Good, State, LevelState, RoundState, Timely, Forward, update_current_phase
<1> HIDE DEF t
<1> QED  BY <1>1, <1>2 DEF TimelyOutcome

(* The events New_head_proposal and New_valid_proposal. *)
LEMMA TimelyNewProposal ==
  ASSUME NEW b, NEW B, NEW P, NEW C, NEW E, NEW F, Context(B, P, C), PqcBefore(B),
         NEW s, Good(s, b, B, P, C, E), Timely(s, F),
         NEW p \in B, NEW now \in Nat, now \in Rounds(p.level), p.round <= now
  PROVE  /\ TimelyOutcome(New_head_proposal(s, p, now), s, F)
         /\ TimelyOutcome(New_valid_proposal(s, p, now), s, F)
<1>1. /\ TimelyOutcome(handle_proposal(s, TRUE, p, now), s, F)
      /\ TimelyOutcome(handle_proposal(s, FALSE, p, now), s, F)
  BY TimelyProposal
<1>2. TimelyOutcome(do_nothing(s), s, F)
  BY DEF TimelyOutcome, do_nothing, Outcome, Forward
<1> QED
  BY <1>1, <1>2, TimelyExpected DEF New_head_proposal, New_valid_proposal

(* A prequorum: the lock moves to the round of the proposal, which is that *)
(* of the clock.  A lock already of that round is on the same payload.     *)
LEMMA TimelyPrequorum ==
  ASSUME NEW b, NEW B, NEW P, NEW C, NEW E, NEW F, Context(B, P, C),
         NEW s, Good(s, b, B, P, C, E), Timely(s, F),
         NEW candidate \in B, Vote(candidate) \in C
  PROVE  TimelyOutcome(Prequorum_reached(s, candidate), s, F)
<1> DEFINE latest == s.level_state.latest_proposal
           old == s.level_state.attestable_payload
           lock == s.level_state.locked_round
           new == [round |-> latest.round, payload |-> latest.payload]
           t == [s EXCEPT
                   !.level_state.attestable_payload =
                      IF @.prequorum < latest.round
                      THEN [proposal |-> latest, prequorum |-> latest.round] ELSE @,
                   !.level_state.locked_round = new,
                   !.round_state.current_phase = "Awaiting_attestations"]
           x == [t EXCEPT !.round_state.early_attestations = {}]
           o == Prequorum_reached(s, candidate)
<1>1. /\ latest \in B /\ latest.round \in Nat /\ latest.level = s.level_state.current_level
      /\ old.prequorum \in Int /\ lock.round \in Int
      /\ s \in State(b, B, P, E)
  BY DEF Good, Context, State, LevelState, Sound, Block, Attestable, Lock, OptRound,
     NoRound
<1>2. TimelyOutcome(do_nothing(s), s, F)
  BY DEF TimelyOutcome, do_nothing, Outcome, Forward
<1>3. CASE candidate = latest /\ s.round_state.current_phase = "Awaiting_preattestations"
  <2>1. /\ t.round_state = [s.round_state EXCEPT !.current_phase = "Awaiting_attestations"]
        /\ t.level_state.locked_round = new
        /\ t.level_state.latest_proposal = latest
        /\ t.level_state.current_level = s.level_state.current_level
        /\ t.level_state.elected_block = s.level_state.elected_block
        /\ t.level_state.attestable_payload.prequorum =
             IF old.prequorum < latest.round THEN latest.round ELSE old.prequorum
    BY <1>1 DEF State, LevelState
  <2>2. Timely(t, F)
    <3> HIDE DEF t
    <3> QED  BY <1>1, <1>3, <2>1 DEF Timely, State, RoundState
  <2>3. Forward(s, t)
    <3>1. lock.round <= latest.round
      BY DEF Timely
    <3>2. ASSUME lock.round = latest.round  PROVE lock = new
      <4>1. lock # NoLock
        BY <1>1, <3>2 DEF NoLock, NoRound
      <4>2. Cert(latest.level, lock.round, lock.payload) \in C
        BY <1>1, <4>1 DEF Good, Sound, SoundData, LockIsReal
      <4>3. lock.payload = latest.payload
        BY <1>3, <3>2, <4>2 DEF Context, OnePayload, Cert, Vote
      <4> QED  BY <1>1, <3>2, <4>3 DEF State, LevelState, Lock
    <3> HIDE DEF t
    <3> QED  BY <1>1, <2>1, <3>1, <3>2 DEF Forward
  <2>4. /\ x.level_state = t.level_state
        /\ x.round_state = [t.round_state EXCEPT !.early_attestations = {}]
    BY <1>1 DEF State, RoundState, LevelState
  <2>5. Timely(x, F) /\ Forward(s, x)
    <3> HIDE DEF t, x
    <3> QED  BY <1>1, <2>1, <2>2, <2>3, <2>4 DEF Timely, Forward, State, RoundState
  <2>6. o.state \in {t, x}
    <3>1. o \in {Outcome(t, "Prepare_attestations", Vote(latest)),
                 may_inject_early_forged_attestations(t)}
      BY <1>3 DEF Prequorum_reached, prequorum_reached_when_awaiting_preattestations
    <3> HIDE DEF t, o
    <3> QED
      BY <3>1 DEF Outcome, may_inject_early_forged_attestations,
         may_inject_attestations, do_nothing
  <2> HIDE DEF t, x, o
  <2> QED  BY <2>2, <2>3, <2>5, <2>6 DEF TimelyOutcome, o
<1>4. CASE ~(candidate = latest /\ s.round_state.current_phase = "Awaiting_preattestations")
  <2>1. o = do_nothing(s)
    BY <1>4 DEF Prequorum_reached, prequorum_reached_when_awaiting_preattestations
  <2> QED  BY <1>2, <2>1
<1> QED  BY <1>3, <1>4

(* A quorum: the block is elected, or awaited, and is in F. *)
LEMMA TimelyQuorum ==
  ASSUME NEW b, NEW B, NEW P, NEW C, NEW E, NEW F,
         NEW s, Good(s, b, B, P, C, E), Timely(s, F), NEW candidate \in F
  PROVE  TimelyOutcome(Quorum_reached(s, candidate), s, F)
<1> DEFINE latest == s.level_state.latest_proposal
           elected == [s EXCEPT !.level_state.elected_block = latest,
                                !.round_state.current_phase = "Idle"]
           delayed == [s EXCEPT !.round_state.current_phase = "Awaiting_application",
                                !.round_state.delayed_quorum = TRUE]
           o == Quorum_reached(s, candidate)
<1>1. TimelyOutcome(do_nothing(s), s, F)
  BY DEF TimelyOutcome, do_nothing, Outcome, Forward
<1>2. ASSUME candidate = latest, s.level_state.elected_block = None,
             s.round_state.current_phase = "Awaiting_attestations"
      PROVE  /\ TimelyOutcome(do_nothing(elected), s, F)
             /\ TimelyOutcome(do_nothing(delayed), s, F)
  <2>1. /\ Timely(elected, F) /\ Forward(s, elected)
        /\ Timely(delayed, F) /\ Forward(s, delayed)
    BY <1>2 DEF Good, State, LevelState, RoundState, Timely, Forward
  <2> HIDE DEF elected, delayed
  <2> QED  BY <2>1 DEF TimelyOutcome, do_nothing, Outcome
<1>3. \/ o = do_nothing(s)
      \/ /\ candidate = latest /\ s.level_state.elected_block = None
         /\ s.round_state.current_phase = "Awaiting_attestations"
         /\ o \in {do_nothing(elected), do_nothing(delayed)}
  BY DEF Quorum_reached, quorum_reached_when_waiting_attestations
<1> HIDE DEF elected, delayed, o
<1> QED  BY <1>1, <1>2, <1>3 DEF o

(* A signed vote changes the early attestations at most. *)
LEMMA TimelyForged ==
  ASSUME NEW b, NEW B, NEW P, NEW C, NEW E, NEW F,
         NEW s, Good(s, b, B, P, C, E), Timely(s, F), NEW v
  PROVE  /\ TimelyOutcome(handle_forged_preattestation(s, v), s, F)
         /\ TimelyOutcome(handle_forged_attestation(s, v), s, F)
<1> DEFINE t == [s EXCEPT !.round_state.early_attestations = @ \union {v}]
<1>1. Timely(t, F) /\ Forward(s, t) /\ Forward(s, s)
  BY DEF Good, State, RoundState, Timely, Forward
<1>2. /\ handle_forged_preattestation(s, v).state = s
      /\ handle_forged_attestation(s, v).state \in {s, t}
  BY DEF handle_forged_preattestation, handle_forged_attestation,
     may_inject_attestations, do_nothing, Outcome
<1> HIDE DEF t
<1> QED  BY <1>1, <1>2 DEF TimelyOutcome

(* The end of a round. *)
LEMMA TimelyEnd ==
  ASSUME NEW b, NEW B, NEW P, NEW C, NEW E, NEW F, B \subseteq Block(P),
         NEW s, Good(s, b, B, P, C, E), Timely(s, F), NEW ops, NEW ending \in Int,
         ending + 1 >= s.round_state.current_round,
         ending + 1 \in Rounds(s.level_state.current_level)
  PROVE  TimelyOutcome(end_of_round(s, ending, ops), s, F)
<1> DEFINE t == [s EXCEPT !.round_state = NewRoundState(ending + 1)]
<1>1. t.level_state = s.level_state /\ t.round_state = NewRoundState(ending + 1)
  BY DEF Good, State
<1>2. /\ s.level_state.latest_proposal.round \in Nat
      /\ s.level_state.attestable_payload.prequorum \in Int
      /\ s.round_state.current_round \in Nat
  BY DEF Good, State, LevelState, RoundState, Block, Attestable, OptRound, NoRound
<1>3. Timely(t, F) /\ Forward(s, t)
  <2> HIDE DEF t
  <2> QED  BY <1>1, <1>2 DEF Timely, Forward, NewRoundState
<1>4. end_of_round(s, ending, ops).state = t
  BY DEF end_of_round, propose_block_action, do_nothing, Outcome
<1> HIDE DEF t
<1> QED  BY <1>3, <1>4 DEF TimelyOutcome

(* Time to bake at the next level. *)
LEMMA TimelyPrepare ==
  ASSUME NEW b, NEW B, NEW P, NEW C, NEW E, NEW F,
         NEW s, Good(s, b, B, P, C, E), Timely(s, F), NEW ops, NEW at_round
  PROVE  TimelyOutcome(time_to_prepare_next_level_block(s, at_round, ops), s, F)
<1> DEFINE t == [s EXCEPT !.level_state.next_level_proposed_round = at_round]
<1>1. Timely(t, F) /\ Forward(s, t)
  BY DEF Good, State, LevelState, Timely, Forward
<1> HIDE DEF t
<1> QED
  BY <1>1 DEF time_to_prepare_next_level_block, Outcome, TimelyOutcome, t

-----------------------------------------------------------------------------
(***************************************************************************)
(* The invariant of bakers that do not record their state                  *)
(***************************************************************************)
FinalBlocks == {p \in blocks : Final(p)}

(* A block the node accepts: its predecessor is final, it holds operations *)
(* of Ops, and its payload is fresh or certified at an earlier round,      *)
(* after it was first proposed.                                            *)
Valid(p, F) ==
  /\ predecessor(p) \in F
  /\ p.payload.ops \in Ops
  /\ IF p.pqc = NoRound THEN p.payload.round = p.round
     ELSE p.payload.round <= p.pqc /\ p.pqc < p.round

BlocksAreValid(B, F) == \A p \in B : p = Genesis \/ Valid(p, F)

ValidBlocks(B, F) == {p \in Block(Payloads(B)) : Valid(p, F)}
ValidRequests(B, F) == RequestsFor(VotesFor(B), ValidBlocks(B, F))

InTime(b) ==
  /\ Timely(state[b], FinalBlocks)
  /\ forge_requests[b] \in Seq(ValidRequests(blocks, FinalBlocks))
  /\ recorded[b] = NoStateData
  /\ unrecorded[b] = FALSE

RoundInv ==
  /\ BlocksAreValid(blocks, FinalBlocks)
  /\ \A b \in Bakers : InTime(b)
  /\ restarts \in Nat

(* The locks of all bakers move forward, and what they elected stays. *)
AllForward == \A b \in Bakers : Forward(state[b], state'[b])

(* What is final stays so. *)
LEMMA FinalGrows ==
  ASSUME Grows
  PROVE  FinalBlocks \subseteq FinalBlocks'
<1>1. \A v : Quorum(v) => Quorum(v)'
  BY QuorumsRemain
<1> QED  BY <1>1 DEF FinalBlocks, Final, Grows

(* More blocks and more final blocks keep what is valid and in time. *)
LEMMA ValidRemains ==
  ASSUME NEW B, NEW F, NEW B2, NEW F2, B \subseteq B2, F \subseteq F2
  PROVE  /\ \A p : Valid(p, F) => Valid(p, F2)
         /\ \A s : Timely(s, F) => Timely(s, F2)
         /\ ValidRequests(B, F) \subseteq ValidRequests(B2, F2)
<1>1. \A p : Valid(p, F) => Valid(p, F2)
  BY DEF Valid
<1>2. \A s : Timely(s, F) => Timely(s, F2)
  BY DEF Timely
<1>3. VotesFor(B) \subseteq VotesFor(B2) /\ Payloads(B) \subseteq Payloads(B2)
  BY CertifiedGrows
<1>4. ValidBlocks(B, F) \subseteq ValidBlocks(B2, F2)
  BY <1>1, <1>3 DEF ValidBlocks, Block
<1> QED  BY <1>1, <1>2, <1>3, <1>4 DEF ValidRequests, RequestsFor

(* Certificates come before the blocks that carry them. *)
LEMMA ValidBefore ==
  ASSUME NEW B, NEW C, Chain(B, C), NEW F, BlocksAreValid(B, F)
  PROVE  PqcBefore(B)
<1>1. Genesis.pqc < Genesis.round
  BY DEF Genesis, NoRound
<1>2. \A p \in B : p.round \in Nat
  BY BlockTypes
<1> QED  BY <1>1, <1>2 DEF BlocksAreValid, Valid, PqcBefore, NoRound

(* What has a prequorum was proposed: an honest member voted for it. *)
LEMMA CertifiedIsProposed ==
  ASSUME Inv, NEW B, NEW v \in CertifiedBy(preattestations, B)
  PROVE  v \in VotesFor(blocks)
<1>1. PICK Q \in Quorums : Sent(preattestations, v, Q)
  BY DEF CertifiedBy
<1>2. PICK m \in Q : m \notin Byzantine
  BY QuorumAssumption
<1>3. [member |-> m, vote |-> v] \in preattestations
  BY <1>1, <1>2 DEF Sent
<1>4. [member |-> m, vote |-> v] \in SentVotes
  BY <1>3 DEF Inv, VoteInv
<1> QED  BY <1>4 DEF SentVotes

(* A certificate is not older than its payload. *)
PayloadBefore(C) == \A v \in C : v.level # 0 => v.payload.round <= v.round

LEMMA CertifiedAfter ==
  ASSUME Inv, RoundInv, NEW B
  PROVE  PayloadBefore(CertifiedBy(preattestations, B))
<1> SUFFICES ASSUME NEW v \in CertifiedBy(preattestations, B), v.level # 0
             PROVE  v.payload.round <= v.round
  BY DEF PayloadBefore
<1>1. PICK x \in blocks : v = Vote(x)
  BY CertifiedIsProposed DEF VotesFor
<1>2. v.level = x.level /\ v.round = x.round /\ v.payload = x.payload
  BY <1>1 DEF Vote
<1>3. x # Genesis
  BY <1>2 DEF Genesis
<1>4. Valid(x, FinalBlocks)
  BY <1>3 DEF RoundInv, BlocksAreValid
<1>5. x.payload.round \in Nat /\ x.round \in Nat /\ x.pqc \in Int
  <2>1. x \in Block(Payloads(blocks))
    BY BlockTypes DEF Inv, BlockInv
  <2> QED  BY <2>1 DEF Block, Payloads, OptRound, NoRound
<1> QED  BY <1>2, <1>4, <1>5 DEF Valid

(* Blocks of other members are valid. *)
LEMMA ForeignValid ==
  ASSUME Inv, RoundInv, NEW p \in ForeignBlocks
  PROVE  Valid(p, FinalBlocks)
<1>1. CASE p \in ForeignFreshBlocks
  <2>1. PICK q \in blocks :
          /\ Final(q)
          /\ \E r \in Rounds(q.level + 1), ops \in Ops : p = FreshBlock(q, r, ops)
    BY <1>1 DEF ForeignFreshBlocks
  <2>2. q \in FinalBlocks
    BY <2>1 DEF FinalBlocks
  <2> QED  BY <2>1, <2>2 DEF Valid, FreshBlock, predecessor
<1>2. CASE p \in ForeignReproposals
  <2>1. PICK q \in blocks \ {Genesis} :
          p \in UNION {{ReproposedBlock([proposal |-> q, prequorum |-> k], r) :
                          r \in k + 1 .. MaxRound[q.level]} :
                       k \in {n \in Rounds(q.level) :
                                Prequorum([Vote(q) EXCEPT !.round = n])}}
    BY <1>2 DEF ForeignReproposals
  <2>2. \E k \in Rounds(q.level) : \E r \in k + 1 .. MaxRound[q.level] :
          /\ Prequorum([Vote(q) EXCEPT !.round = k])
          /\ p = ReproposedBlock([proposal |-> q, prequorum |-> k], r)
    BY <2>1
  <2>3. PICK k \in Rounds(q.level), r \in Int :
          /\ r \in k + 1 .. MaxRound[q.level]
          /\ Prequorum([Vote(q) EXCEPT !.round = k])
          /\ p = ReproposedBlock([proposal |-> q, prequorum |-> k], r)
    BY <2>2
  <2>4. /\ q \in Block(Payloads(blocks)) /\ q.level # 0 /\ q.level \in 0 .. MaxLevel
    BY BlockTypes DEF Inv, BlockInv
  <2>5. k \in Nat /\ k < r
    BY <2>3, <2>4, BoundsAssumption DEF Rounds
  <2>6. q.payload.round <= k
    <3>1. [Vote(q) EXCEPT !.round = k] = Cert(q.level, k, q.payload)
      BY DEF Vote, Cert
    <3>2. Cert(q.level, k, q.payload)
            \in [level : Nat, round : Nat, payload : Payloads(blocks)]
      BY <2>4, <2>5 DEF Cert, Block
    <3>3. Cert(q.level, k, q.payload) \in CertifiedBy(preattestations, blocks)
      BY <2>3, <3>1, <3>2 DEF CertifiedBy, Prequorum
    <3>4. PayloadBefore(CertifiedBy(preattestations, blocks))
      BY CertifiedAfter
    <3> QED  BY <2>4, <3>3, <3>4 DEF PayloadBefore, Cert
  <2>7. p = [q EXCEPT !.round = r, !.pqc = k]
    BY <2>3 DEF ReproposedBlock
  <2>8. p.payload = q.payload /\ p.pqc = k /\ p.round = r
    BY <2>4, <2>7 DEF Block
  <2>9. predecessor(p) \in FinalBlocks /\ p.payload.ops \in Ops
    BY <2>8 DEF RoundInv, BlocksAreValid, Valid, predecessor
  <2> QED  BY <2>5, <2>6, <2>8, <2>9 DEF Valid, NoRound
<1> QED  BY <1>1, <1>2 DEF ForeignBlocks

(* What a baker proposes is valid: the certificate of the attestable       *)
(* payload is of an earlier round.                                         *)
LEMMA ProposeValid ==
  ASSUME NEW b, NEW B, NEW C, NEW E, NEW F, Chain(B, C), PayloadBefore(C),
         BlocksAreValid(B, F),
         NEW s, Good(s, b, B, Payloads(B), C, E),
         NEW round \in Rounds(s.level_state.current_level), NEW ops \in Ops,
         RoundProposer(s.level_state.current_level, round) = b,
         s.level_state.latest_proposal.level # 0,
         s.level_state.attestable_payload.prequorum < round
  PROVE  propose_block_action(s, round, ops).arg \in ValidBlocks(B, F)
<1> DEFINE latest == s.level_state.latest_proposal
           attestable == s.level_state.attestable_payload
           L == s.level_state.current_level
           q == attestable.proposal
           p == propose_block_action(s, round, ops).arg
<1>1. p \in Block(Payloads(B))
  BY ProposeExtends DEF Proposable
<1>2. latest \in B /\ latest # Genesis /\ latest.level = L
  BY DEF Good, Sound, State, LevelState, Genesis
<1>3. CASE attestable = NoAttestable
  <2>1. p = FreshBlock(predecessor(latest), round, ops)
    BY <1>3 DEF propose_block_action, Outcome
  <2>2. predecessor(latest) \in F
    BY <1>2 DEF BlocksAreValid, Valid
  <2>3. Valid(p, F)
    <3> HIDE DEF latest
    <3> QED  BY <2>1, <2>2 DEF Valid, FreshBlock, predecessor
  <2> QED  BY <1>1, <2>3 DEF ValidBlocks
<1>4. CASE attestable # NoAttestable
  <2>1. /\ q \in B /\ attestable.prequorum \in Nat /\ q.level = L
        /\ Cert(L, attestable.prequorum, q.payload) \in C
    BY <1>4 DEF Good, Sound, SoundData, AttestableIsReal
  <2>2. q # Genesis /\ q \in Block(Payloads(B))
    BY <1>2, <2>1, BlockTypes DEF Genesis
  <2>3. predecessor(q) \in F /\ q.payload.ops \in Ops
    BY <2>1, <2>2 DEF BlocksAreValid, Valid
  <2>4. q.payload.round <= attestable.prequorum
    BY <1>2, <2>1 DEF PayloadBefore, Cert
  <2>5. p = [q EXCEPT !.round = round, !.pqc = attestable.prequorum]
    BY <1>4 DEF propose_block_action, Outcome, ReproposedBlock
  <2>6. p.payload = q.payload /\ p.pqc = attestable.prequorum /\ p.round = round
    BY <2>2, <2>5 DEF Block
  <2>7. Valid(p, F)
    <3> HIDE DEF p
    <3> QED  BY <2>1, <2>3, <2>4, <2>6 DEF Valid, predecessor, NoRound
  <2> QED  BY <1>1, <2>7 DEF ValidBlocks
<1> QED  BY <1>3, <1>4

(* What is left to show of a step that leaves the state of all bakers but  *)
(* one alone, and the files of all.                                        *)
LEMMA OthersInTime ==
  ASSUME RoundInv, Grows, NEW p, blocks' = blocks \union {p},
         p \in blocks \/ Valid(p, FinalBlocks),
         recorded' = recorded, restarts' \in Nat, NEW b \in Bakers, InTime(b)',
         \A c \in Bakers : c # b => /\ state'[c] = state[c]
                                    /\ forge_requests'[c] = forge_requests[c]
                                    /\ unrecorded'[c] = unrecorded[c]
  PROVE  RoundInv'
<1>1. FinalBlocks \subseteq FinalBlocks' /\ blocks \subseteq blocks'
  BY FinalGrows DEF Grows
<1>2. BlocksAreValid(blocks', FinalBlocks')
  <2>1. \A q : Valid(q, FinalBlocks) => Valid(q, FinalBlocks')
    BY <1>1, ValidRemains
  <2> QED  BY <2>1 DEF RoundInv, BlocksAreValid
<1>3. ASSUME NEW c \in Bakers, c # b  PROVE InTime(c)'
  <2>1. InTime(c)
    BY DEF RoundInv
  <2>2. Timely(state[c], FinalBlocks')
    BY <1>1, <2>1, ValidRemains DEF InTime
  <2>3. forge_requests[c] \in Seq(ValidRequests(blocks', FinalBlocks'))
    <3>1. ValidRequests(blocks, FinalBlocks) \subseteq ValidRequests(blocks', FinalBlocks')
      BY <1>1, ValidRemains
    <3> QED  BY <2>1, <3>1, SeqMonotonic DEF InTime
  <2> QED  BY <1>3, <2>1, <2>2, <2>3 DEF InTime
<1> QED  BY <1>2, <1>3 DEF RoundInv

(***************************************************************************)
(* The actions                                                             *)
(***************************************************************************)
(* A block known or sent by another member, and the state of the acting    *)
(* baker, before an action uses them.                                      *)
LEMMA BlockInTime ==
  ASSUME Inv, RoundInv, NEW p \in blocks \union ForeignBlocks,
         blocks' = blocks \union {p}
  PROVE  /\ p \in blocks \/ Valid(p, FinalBlocks)
         /\ Context(blocks', Payloads(blocks'), CertifiedBy(preattestations, blocks'))
         /\ Chain(blocks', CertifiedBy(preattestations, blocks'))
         /\ BlocksAreValid(blocks', FinalBlocks)
         /\ PqcBefore(blocks')
         /\ PayloadBefore(CertifiedBy(preattestations, blocks'))
         /\ blocks \subseteq blocks'
<1>1. p \in blocks \/ Valid(p, FinalBlocks)
  BY ForeignValid
<1>2. BlocksAreValid(blocks', FinalBlocks)
  BY <1>1 DEF RoundInv, BlocksAreValid
<1>3. /\ Context(blocks', Payloads(blocks'), CertifiedBy(preattestations, blocks'))
      /\ Chain(blocks', CertifiedBy(preattestations, blocks'))
      /\ blocks \subseteq blocks'
  BY NewBlock
<1>4. PqcBefore(blocks')
  BY <1>2, <1>3, ValidBefore
<1>5. PayloadBefore(CertifiedBy(preattestations, blocks'))
  BY CertifiedAfter
<1> QED  BY <1>1, <1>2, <1>3, <1>4, <1>5

(* An outcome in time is performed. *)
LEMMA PerformInTime ==
  ASSUME ~RecordState, Inv, RoundInv, NEW b \in Bakers,
         NEW p \in blocks \union ForeignBlocks, blocks' = blocks \union {p},
         NEW o, NEW E, NEW N, NEW queue,
         queue \in Seq(ValidRequests(blocks, FinalBlocks)),
         GoodOutcome(o, b, blocks', Payloads(blocks'),
                     CertifiedBy(preattestations, blocks'), E, N,
                     ValidBlocks(blocks', FinalBlocks)),
         TimelyOutcome(o, state[b], FinalBlocks),
         perform_action(b, state[b], o, queue),
         recorded' = recorded, restarts' = restarts
  PROVE  RoundInv' /\ AllForward
<1>1. Grows
  BY DEF perform_action, Grows
<1>2. p \in blocks \/ Valid(p, FinalBlocks)
  BY BlockInTime
<1>3. FinalBlocks \subseteq FinalBlocks' /\ blocks \subseteq blocks'
  BY <1>1, FinalGrows DEF Grows
<1>4. /\ state'[b] = o.state /\ unrecorded'[b] = FALSE
      /\ \A c \in Bakers : c # b => state'[c] = state[c] /\ unrecorded'[c] = unrecorded[c]
  BY DEF perform_action, Inv, DomainInv
<1>5. PICK q \in NewRequests(o, queue) :
        forge_requests' = [forge_requests EXCEPT ![b] = q]
  BY DEF perform_action
<1>6. forge_requests'[b] = q
      /\ \A c \in Bakers : c # b => forge_requests'[c] = forge_requests[c]
  BY <1>5 DEF Inv, DomainInv
<1> DEFINE S == ValidRequests(blocks', FinalBlocks')
           R == ValidBlocks(blocks', FinalBlocks')
<1>7. q \in Seq(S)
  <2>1. ValidRequests(blocks, FinalBlocks) \subseteq S
        /\ \A x : Valid(x, FinalBlocks) => Valid(x, FinalBlocks')
    BY <1>3, ValidRemains
  <2>2. queue \in Seq(S)
    <3> HIDE DEF S
    <3> QED  BY <2>1, SeqMonotonic
  <2>3. S = RequestsFor(VotesFor(blocks'), R)
    BY DEF ValidRequests
  <2>4. /\ o.action \in {"Prepare_consensus_votes", "Prepare_attestations"} =>
             o.arg \in VotesFor(blocks')
        /\ o.action = "Prepare_block" => o.arg \in R
    BY <2>1 DEF GoodOutcome, ValidBlocks
  <2> HIDE DEF S, R
  <2> QED  BY <2>2, <2>3, <2>4, RequestsAreTyped
<1>8. InTime(b)'
  <2>1. Timely(o.state, FinalBlocks')
    BY <1>3, ValidRemains DEF TimelyOutcome
  <2>2. recorded[b] = NoStateData
    BY DEF RoundInv, InTime
  <2> QED  BY <1>4, <1>6, <1>7, <2>1, <2>2 DEF InTime
<1>9. RoundInv'
  BY <1>1, <1>2, <1>4, <1>6, <1>8, OthersInTime DEF RoundInv
<1>10. AllForward
  <2>1. \A c \in Bakers : c # b => Forward(state[c], state'[c])
    BY <1>4 DEF Forward
  <2> QED  BY <1>4, <2>1 DEF AllForward, TimelyOutcome
<1> QED  BY <1>9, <1>10

(* The two announcements of a block. *)
LEMMA ProposalInTime ==
  ASSUME ~RecordState, Inv, RoundInv, NEW b \in Bakers,
         NewValidProposal(b) \/ NewHeadProposal(b)
  PROVE  RoundInv' /\ AllForward
<1>1. PICK p \in blocks \union ForeignBlocks : \E now \in Now(p) :
        /\ \/ perform_action(b, state[b], New_valid_proposal(state[b], p, now),
                             forge_requests[b])
           \/ perform_action(b, state[b], New_head_proposal(state[b], p, now),
                             forge_requests[b])
        /\ blocks' = blocks \union {p}
  BY DEF NewValidProposal, NewHeadProposal
<1>2. PICK now \in Now(p) :
        \/ perform_action(b, state[b], New_valid_proposal(state[b], p, now),
                          forge_requests[b])
        \/ perform_action(b, state[b], New_head_proposal(state[b], p, now),
                          forge_requests[b])
  BY <1>1
<1>3. recorded' = recorded /\ restarts' = restarts
  BY DEF NewValidProposal, NewHeadProposal
<1> DEFINE C == CertifiedBy(preattestations, blocks')
           E == Attested(b) \union {}
           R == ValidBlocks(blocks', FinalBlocks)
<1>4. /\ Context(blocks', Payloads(blocks'), C) /\ Chain(blocks', C)
      /\ PqcBefore(blocks') /\ blocks \subseteq blocks' /\ p \in blocks'
  BY <1>1, BlockInTime
<1>5. now \in Nat /\ now \in Rounds(p.level) /\ p.round <= now
  <2>1. p.round \in Nat /\ p.level \in 0 .. MaxLevel
    BY <1>4, BlockTypes
  <2> QED  BY <2>1, BoundsAssumption DEF Now, Rounds
<1>6. Good(state[b], b, blocks', Payloads(blocks'), C, E)
  BY <1>4, StateBefore
<1>7. Timely(state[b], FinalBlocks)
      /\ forge_requests[b] \in Seq(ValidRequests(blocks, FinalBlocks))
  BY DEF RoundInv, InTime
<1>8. PICK o : /\ GoodOutcome(o, b, blocks', Payloads(blocks'), C, E, {}, R)
               /\ TimelyOutcome(o, state[b], FinalBlocks)
               /\ perform_action(b, state[b], o, forge_requests[b])
  <2> HIDE DEF C, R, E
  <2>1. /\ GoodOutcome(New_head_proposal(state[b], p, now), b, blocks',
                       Payloads(blocks'), C, E, {}, R)
        /\ GoodOutcome(New_valid_proposal(state[b], p, now), b, blocks',
                       Payloads(blocks'), C, E, {}, R)
    BY <1>4, <1>5, <1>6, NewProposal
  <2>2. /\ TimelyOutcome(New_head_proposal(state[b], p, now), state[b], FinalBlocks)
        /\ TimelyOutcome(New_valid_proposal(state[b], p, now), state[b], FinalBlocks)
    BY <1>4, <1>5, <1>6, <1>7, TimelyNewProposal
  <2> QED  BY <1>2, <2>1, <2>2
<1> QED  BY <1>1, <1>3, <1>7, <1>8, PerformInTime

(* An action that announces no block. *)
LEMMA ActionInTime ==
  ASSUME ~RecordState, Inv, RoundInv, NEW b \in Bakers, blocks' = blocks,
         NEW o, NEW E, NEW N, NEW queue,
         queue \in Seq(ValidRequests(blocks, FinalBlocks)),
         GoodOutcome(o, b, blocks, Payloads(blocks), Certified, E, N,
                     ValidBlocks(blocks, FinalBlocks)),
         TimelyOutcome(o, state[b], FinalBlocks),
         perform_action(b, state[b], o, queue),
         recorded' = recorded, restarts' = restarts
  PROVE  RoundInv' /\ AllForward
<1>1. Genesis \in blocks \union ForeignBlocks /\ blocks' = blocks \union {Genesis}
  BY DEF Inv, BlockInv, Chain
<1>2. GoodOutcome(o, b, blocks', Payloads(blocks'),
                  CertifiedBy(preattestations, blocks'), E, N,
                  ValidBlocks(blocks', FinalBlocks))
  BY DEF Certified
<1> QED  BY <1>1, <1>2, PerformInTime

(* What is known of the acting baker when no block is announced. *)
LEMMA ActorInTime ==
  ASSUME Inv, RoundInv, NEW b \in Bakers
  PROVE  /\ Good(state[b], b, blocks, Payloads(blocks), Certified, Attested(b))
         /\ Timely(state[b], FinalBlocks)
         /\ forge_requests[b] \in Seq(ValidRequests(blocks, FinalBlocks))
         /\ Chain(blocks, Certified)
         /\ Context(blocks, Payloads(blocks), Certified)
         /\ PayloadBefore(Certified)
         /\ BlocksAreValid(blocks, FinalBlocks)
<1>1. Chain(blocks, Certified)
  BY DEF Inv, BlockInv
<1>2. blocks \subseteq Block(Payloads(blocks))
  BY <1>1, BlockTypes
<1>3. OnePayload(Certified)
  BY OnePayloadCertified DEF Certified
<1>4. BlocksAreCertified(blocks, Certified)
  <2>1. Genesis.pqc = NoRound
    BY DEF Genesis
  <2> QED  BY <1>1, <2>1 DEF Chain, Extends, BlocksAreCertified
<1>5. PayloadBefore(Certified)
  BY CertifiedAfter DEF Certified
<1> QED
  BY <1>1, <1>2, <1>3, <1>4, <1>5
  DEF Context, Inv, BakerInv, StateInv, RoundInv, InTime

(* End_of_round. *)
LEMMA EndInTime ==
  ASSUME ~RecordState, Inv, RoundInv, NEW b \in Bakers, EndOfRound(b)
  PROVE  RoundInv' /\ AllForward
<1> DEFINE s == state[b]
           ending == s.round_state.current_round
           L == s.level_state.current_level
           R == ValidBlocks(blocks, FinalBlocks)
<1>1. PICK ops \in Ops : perform_action(b, s, end_of_round(s, ending, ops),
                                       forge_requests[b])
  BY DEF EndOfRound
<1>2. blocks' = blocks /\ recorded' = recorded /\ restarts' = restarts
      /\ ending < MaxRound[L]
  BY DEF EndOfRound
<1>3. /\ Good(s, b, blocks, Payloads(blocks), Certified, Attested(b))
      /\ Timely(s, FinalBlocks) /\ Chain(blocks, Certified)
      /\ Context(blocks, Payloads(blocks), Certified) /\ PayloadBefore(Certified)
      /\ BlocksAreValid(blocks, FinalBlocks)
      /\ forge_requests[b] \in Seq(ValidRequests(blocks, FinalBlocks))
  BY ActorInTime
<1>4. /\ ending \in Int /\ ending + 1 \in Nat /\ ending + 1 >= ending
      /\ ending + 1 \in Rounds(L)
  <2>1. /\ s.level_state.latest_proposal \in blocks /\ ending \in Nat
        /\ L = s.level_state.latest_proposal.level
    BY <1>3 DEF Good, State, LevelState, RoundState, Sound
  <2>2. L \in 0 .. MaxLevel
    BY <1>3, <2>1, BlockTypes
  <2>3. MaxRound[L] \in Nat
    BY <2>2, BoundsAssumption
  <2> HIDE DEF ending, L
  <2> QED  BY <1>2, <2>1, <2>2, <2>3 DEF Rounds
<1>5. s.level_state.attestable_payload.prequorum < ending + 1
  BY <1>3, <1>4 DEF Timely, Good, State, LevelState, Attestable, OptRound, NoRound
<1> HIDE DEF s, ending, L
<1>6. /\ RoundProposer(s.level_state.current_level, ending + 1) = b
      /\ s.level_state.latest_proposal.level # 0
      => propose_block_action(s, ending + 1, ops).arg \in R
  BY <1>3, <1>4, <1>5, ProposeValid DEF L
<1>7. GoodOutcome(end_of_round(s, ending, ops), b, blocks, Payloads(blocks), Certified,
                  Attested(b), {}, R)
  <2> HIDE DEF R
  <2> QED  BY <1>3, <1>4, <1>6, EndRound
<1>8. TimelyOutcome(end_of_round(s, ending, ops), s, FinalBlocks)
  <2>1. blocks \subseteq Block(Payloads(blocks))
    BY <1>3 DEF Context
  <2>2. ending + 1 >= s.round_state.current_round
        /\ ending + 1 \in Rounds(s.level_state.current_level)
    BY <1>4 DEF ending, L
  <2> QED  BY <1>3, <1>4, <2>1, <2>2, TimelyEnd
<1> QED  BY <1>1, <1>2, <1>3, <1>7, <1>8, ActionInTime DEF s

(* Time_to_prepare_next_level_block: the elected block is final. *)
LEMMA PrepareInTime ==
  ASSUME ~RecordState, Inv, RoundInv, NEW b \in Bakers, TimeToPrepareNextLevelBlock(b)
  PROVE  RoundInv' /\ AllForward
<1> DEFINE s == state[b]
           L == s.level_state.current_level
           elected == s.level_state.elected_block
           R == ValidBlocks(blocks, FinalBlocks)
<1>1. PICK at_round \in Rounds(L + 1), ops \in Ops :
        /\ next_baking_armed(s, at_round)
        /\ perform_action(b, s, time_to_prepare_next_level_block(s, at_round, ops),
                          forge_requests[b])
  BY DEF TimeToPrepareNextLevelBlock
<1>2. blocks' = blocks /\ recorded' = recorded /\ restarts' = restarts
      /\ L < MaxLevel
  BY DEF TimeToPrepareNextLevelBlock
<1>3. /\ Good(s, b, blocks, Payloads(blocks), Certified, Attested(b))
      /\ Timely(s, FinalBlocks) /\ Chain(blocks, Certified)
      /\ forge_requests[b] \in Seq(ValidRequests(blocks, FinalBlocks))
  BY ActorInTime
<1>4. /\ elected \in blocks /\ elected.level = L /\ elected \in FinalBlocks
      /\ RoundProposer(L + 1, at_round) = b
  BY <1>1, <1>3 DEF next_baking_armed, round_proposer, Good, Sound, State, LevelState,
     Timely
<1>5. at_round \in Nat
  BY <1>2, <1>3, <1>4, BlockTypes, BoundsAssumption DEF Rounds
<1>6. FreshBlock(elected, at_round, ops) \in R
  <2>1. FreshBlock(elected, at_round, ops) \in Proposable(b, blocks, Certified)
    <3> HIDE DEF elected
    <3> QED  BY <1>2, <1>3, <1>4, FreshExtends
  <2>2. Valid(FreshBlock(elected, at_round, ops), FinalBlocks)
    BY <1>4 DEF Valid, FreshBlock, predecessor
  <2> QED  BY <2>1, <2>2 DEF Proposable, ValidBlocks
<1> HIDE DEF s, R
<1>7. GoodOutcome(time_to_prepare_next_level_block(s, at_round, ops), b, blocks,
                  Payloads(blocks), Certified, Attested(b), {}, R)
  BY <1>3, <1>5, <1>6, PrepareNextLevel
<1>8. TimelyOutcome(time_to_prepare_next_level_block(s, at_round, ops), s, FinalBlocks)
  BY <1>3, TimelyPrepare
<1> QED  BY <1>1, <1>2, <1>3, <1>7, <1>8, ActionInTime DEF s, R

(* Prequorum_reached and Quorum_reached. *)
LEMMA QuorumInTime ==
  ASSUME ~RecordState, Inv, RoundInv, NEW b \in Bakers, QuorumEvent(b)
  PROVE  RoundInv' /\ AllForward
<1> DEFINE s == state[b]
           e == Head(qc_event_stream[b])
           o == IF e.kind = "prequorum" THEN Prequorum_reached(s, e.candidate)
                                        ELSE Quorum_reached(s, e.candidate)
           R == ValidBlocks(blocks, FinalBlocks)
<1>1. /\ perform_action(b, s, o, forge_requests[b])
      /\ qc_event_stream[b] # <<>>
      /\ blocks' = blocks /\ recorded' = recorded /\ restarts' = restarts
  BY DEF QuorumEvent
<1>2. /\ Good(s, b, blocks, Payloads(blocks), Certified, Attested(b))
      /\ Timely(s, FinalBlocks) /\ Context(blocks, Payloads(blocks), Certified)
      /\ forge_requests[b] \in Seq(ValidRequests(blocks, FinalBlocks))
  BY ActorInTime
<1>3. e \in Events
  BY <1>1, HeadTailProperties DEF Inv, BakerInv, WorkerInv
<1>4. /\ e.candidate \in blocks
      /\ e.kind = "prequorum" => Vote(e.candidate) \in Certified
      /\ e.kind # "prequorum" => e.candidate \in FinalBlocks
  <2>1. Vote(e.candidate) \in [level : Nat, round : Nat, payload : Payloads(blocks)]
    BY <1>3, VoteTypes DEF VotesFor, Inv, Events, Watches
  <2> QED
    BY <1>3, <2>1 DEF Events, Watches, Certified, CertifiedBy, Prequorum, FinalBlocks,
       Final
<1> HIDE DEF s, e, R
<1>5. GoodOutcome(o, b, blocks, Payloads(blocks), Certified, Attested(b), {}, R)
  BY <1>2, <1>4, PrequorumReached, QuorumReached
<1>6. TimelyOutcome(o, s, FinalBlocks)
  BY <1>2, <1>4, TimelyPrequorum, TimelyQuorum
<1> HIDE DEF o
<1> QED  BY <1>1, <1>2, <1>5, <1>6, ActionInTime DEF s, R

(* A vote is signed and handled. *)
LEMMA VoteInTime ==
  ASSUME ~RecordState, Inv, RoundInv, NEW b \in Bakers, NewForgedVote(b)
  PROVE  RoundInv' /\ AllForward
<1> DEFINE s == state[b]
           r == Head(forge_requests[b])
           v == r.content
           o == IF r.kind = "preattestation"
                THEN handle_forged_preattestation(s, v)
                ELSE handle_forged_attestation(s, v)
           E == Attested(b) \union {v}
           R == ValidBlocks(blocks, FinalBlocks)
           S == ValidRequests(blocks, FinalBlocks)
<1>1. /\ perform_action(b, s, o, Tail(forge_requests[b]))
      /\ forge_requests[b] # <<>>
      /\ blocks' = blocks /\ recorded' = recorded /\ restarts' = restarts
  BY DEF NewForgedVote
<1>2. /\ Good(s, b, blocks, Payloads(blocks), Certified, Attested(b))
      /\ Timely(s, FinalBlocks) /\ forge_requests[b] \in Seq(S)
  BY ActorInTime
<1>3. Tail(forge_requests[b]) \in Seq(S)
  <2> HIDE DEF S
  <2> QED  BY <1>1, <1>2, HeadTailProperties
<1>4. Good(s, b, blocks, Payloads(blocks), Certified, E)
  <2>1. s.round_state.early_attestations \subseteq E
    BY <1>2 DEF Good, State, RoundState
  <2> HIDE DEF s, E
  <2> QED  BY <1>2, <2>1, GoodForEarly
<1>5. v \in E /\ v \in {v}
  OBVIOUS
<1> HIDE DEF s, r, v, E, R
<1>6. GoodOutcome(o, b, blocks, Payloads(blocks), Certified, E, {v}, R)
  BY <1>4, <1>5, ForgedVote
<1>7. TimelyOutcome(o, s, FinalBlocks)
  BY <1>2, TimelyForged
<1> HIDE DEF o
<1> QED  BY <1>1, <1>3, <1>6, <1>7, ActionInTime DEF s, R

(* A block is signed and sent, or a request is dropped. *)
LEMMA RequestInTime ==
  ASSUME Inv, RoundInv, NEW b \in Bakers, NewForgedBlock(b) \/ RequestDropped(b)
  PROVE  RoundInv' /\ AllForward
<1> DEFINE r == Head(forge_requests[b])
           S == ValidRequests(blocks, FinalBlocks)
<1>1. /\ forge_requests[b] # <<>>
      /\ forge_requests' = [forge_requests EXCEPT ![b] = Tail(@)]
      /\ UNCHANGED <<state, recorded, unrecorded, restarts, preattestations, attestations>>
      /\ \/ blocks' = blocks
         \/ r.kind = "block" /\ blocks' = blocks \union {r.content}
  BY DEF NewForgedBlock, RequestDropped, network
<1>2. InTime(b) /\ forge_requests[b] \in Seq(S)
  BY DEF RoundInv, InTime
<1>3. r \in S /\ Tail(forge_requests[b]) \in Seq(S)
  <2> HIDE DEF S
  <2> QED  BY <1>1, <1>2, HeadTailProperties
<1>4. PICK p : blocks' = blocks \union {p} /\ (p \in blocks \/ Valid(p, FinalBlocks))
  <2>1. CASE blocks' = blocks
    <3>1. Genesis \in blocks
      BY DEF Inv, BlockInv, Chain
    <3> QED  BY <2>1, <3>1
  <2>2. CASE r.kind = "block" /\ blocks' = blocks \union {r.content}
    <3>1. Valid(r.content, FinalBlocks)
      BY <1>3, <2>2 DEF ValidRequests, RequestsFor, ValidBlocks
    <3> QED  BY <2>2, <3>1
  <2> QED  BY <1>1, <2>1, <2>2
<1>5. Grows
  BY <1>1, <1>4 DEF Grows
<1>6. InTime(b)'
  <2>1. /\ blocks \subseteq blocks' /\ FinalBlocks \subseteq FinalBlocks'
    BY <1>4, <1>5, FinalGrows
  <2>2. /\ S \subseteq ValidRequests(blocks', FinalBlocks')
        /\ Timely(state[b], FinalBlocks')
    BY <1>2, <2>1, ValidRemains DEF InTime
  <2>3. forge_requests'[b] = Tail(forge_requests[b])
    BY <1>1 DEF Inv, DomainInv
  <2>4. forge_requests'[b] \in Seq(ValidRequests(blocks', FinalBlocks'))
    <3> HIDE DEF S
    <3> QED  BY <1>3, <2>2, <2>3, SeqMonotonic
  <2> QED  BY <1>1, <1>2, <2>2, <2>4 DEF InTime
<1>7. RoundInv'
  <2>1. \A c \in Bakers : c # b => forge_requests'[c] = forge_requests[c]
    BY <1>1 DEF Inv, DomainInv
  <2> QED  BY <1>1, <1>4, <1>5, <1>6, <2>1, OthersInTime DEF RoundInv
<1> QED  BY <1>1, <1>7 DEF AllForward, Forward

(* A step of a worker or of a peer that bakers do not see. *)
LEMMA UnseenInTime ==
  ASSUME Inv, RoundInv, Grows,
         UNCHANGED <<state, forge_requests, recorded, unrecorded, blocks, restarts>>
  PROVE  RoundInv' /\ AllForward
<1>1. blocks \subseteq blocks' /\ FinalBlocks \subseteq FinalBlocks'
  BY FinalGrows DEF Grows
<1>2. /\ \A q : Valid(q, FinalBlocks) => Valid(q, FinalBlocks')
      /\ \A s : Timely(s, FinalBlocks) => Timely(s, FinalBlocks')
      /\ ValidRequests(blocks, FinalBlocks) \subseteq ValidRequests(blocks', FinalBlocks')
  BY <1>1, ValidRemains
<1>3. BlocksAreValid(blocks', FinalBlocks')
  BY <1>2 DEF RoundInv, BlocksAreValid
<1>4. ASSUME NEW c \in Bakers  PROVE InTime(c)'
  <2>1. forge_requests[c] \in Seq(ValidRequests(blocks', FinalBlocks'))
    BY <1>2, SeqMonotonic DEF RoundInv, InTime
  <2> QED  BY <1>2, <2>1 DEF RoundInv, InTime
<1> QED  BY <1>3, <1>4 DEF RoundInv, AllForward, Forward

(* The absence of recorded state is sound. *)
LEMMA NoDataIsSound ==
  ASSUME NEW B, NEW C
  PROVE  /\ NoStateData \in StateData(B)
         /\ SoundData(NoStateData.level, NoStateData.locked_round,
                      NoStateData.attestable_payload, B, C)
BY DEF NoStateData, StateData, NoLock, NoAttestable, Lock, Attestable, OptRound,
   NoRound, SoundData, AttestableIsReal, LockIsReal, LockBelowAttestable

(* A baker that starts with no recorded state is in time. *)
LEMMA TimelyStart ==
  ASSUME NEW b, NEW B, NEW C, NEW F, Context(B, Payloads(B), C), Chain(B, C),
         PqcBefore(B), Genesis \in F,
         NEW p \in B, NEW now \in Nat, now \in Rounds(p.level), p.round <= now,
         NEW s, s = create_initial_state(b, p, now, NoStateData)
  PROVE  /\ Timely(s, F)
         /\ s.level_state.attestable_payload.prequorum < p.round
<1> DEFINE e == IF is_first_block_in_protocol(p) THEN p ELSE None
           t == [me |-> b, level_state |-> NewLevelState(p, TRUE, e),
                 round_state |-> NewRoundState(now)]
           u == [t EXCEPT !.level_state.attestable_payload =
                            [proposal |-> p, prequorum |-> p.pqc]]
<1>1. /\ p.level \in Nat /\ p.round \in Nat /\ p.pqc \in Int /\ p.pqc < p.round
      /\ is_first_block_in_protocol(p) => p = Genesis
  <2>1. p \in Block(Payloads(B))
    BY BlockTypes
  <2>2. is_first_block_in_protocol(p) => p = Genesis
    BY BlockTypes DEF is_first_block_in_protocol
  <2> QED  BY <2>1, <2>2 DEF Block, OptRound, NoRound, PqcBefore
<1>3. may_load_attestable_data(t, NoStateData) = t
  BY <1>1 DEF may_load_attestable_data, NewLevelState, NoStateData, NoRound
<1>4. s = may_initialise_with_latest_proposal_pqc(t)
  BY <1>3 DEF create_initial_state
<1>5. s \in {t, u}
  <2>1. t.level_state.latest_proposal = p
    BY DEF NewLevelState
  <2> HIDE DEF t
  <2> QED  BY <1>4, <2>1 DEF may_initialise_with_latest_proposal_pqc
<1>6. /\ Timely(t, F) /\ t.level_state.attestable_payload.prequorum < p.round
      /\ Timely(u, F) /\ u.level_state.attestable_payload.prequorum < p.round
  BY <1>1 DEF Timely, NewLevelState, NewRoundState, NoLock, NoAttestable, NoRound
<1> HIDE DEF t, u
<1> QED  BY <1>5, <1>6

(* A restart without recorded state. *)
LEMMA RestartInTime ==
  ASSUME Inv, RoundInv, NEW b \in Bakers, Restart(b)
  PROVE  RoundInv'
<1>1. PICK p \in blocks \union ForeignBlocks : \E now \in Now(p), ops \in Ops :
       LET s == create_initial_state(b, p, now, recorded[b])
           o == compute_bootstrap_event(s, ops)
       IN  /\ state' = [state EXCEPT ![b] = o.state]
           /\ \E q \in NewRequests(o, <<>>) :
                forge_requests' = [forge_requests EXCEPT ![b] = q]
           /\ blocks' = blocks \union {p}
  BY DEF Restart
<1>2. PICK now \in Now(p), ops \in Ops :
       LET s == create_initial_state(b, p, now, recorded[b])
           o == compute_bootstrap_event(s, ops)
       IN  /\ state' = [state EXCEPT ![b] = o.state]
           /\ \E q \in NewRequests(o, <<>>) :
                forge_requests' = [forge_requests EXCEPT ![b] = q]
           /\ blocks' = blocks \union {p}
  BY <1>1
<1> DEFINE s == create_initial_state(b, p, now, NoStateData)
           o == compute_bootstrap_event(s, ops)
           C == CertifiedBy(preattestations, blocks')
           R == ValidBlocks(blocks', FinalBlocks)
           head_event == New_head_proposal(s, p, now)
           end_event == end_of_round(s, now - 1, ops)
<1>3. InTime(b) /\ recorded[b] = NoStateData
  BY DEF RoundInv, InTime
<1>4. PICK q \in NewRequests(o, <<>>) :
        /\ state' = [state EXCEPT ![b] = o.state]
        /\ forge_requests' = [forge_requests EXCEPT ![b] = q]
        /\ blocks' = blocks \union {p}
  BY <1>2, <1>3
<1>5. /\ unrecorded' = [unrecorded EXCEPT ![b] = FALSE]
      /\ UNCHANGED <<recorded, preattestations, attestations>>
      /\ restarts' = restarts + 1
  BY DEF Restart
<1>6. Grows
  BY <1>4, <1>5 DEF Grows
<1>7. /\ p \in blocks \/ Valid(p, FinalBlocks)
      /\ Context(blocks', Payloads(blocks'), C) /\ Chain(blocks', C)
      /\ BlocksAreValid(blocks', FinalBlocks) /\ PqcBefore(blocks')
      /\ PayloadBefore(C) /\ blocks \subseteq blocks' /\ p \in blocks'
  BY <1>4, BlockInTime
<1>8. /\ now \in Nat /\ now \in Rounds(p.level) /\ p.round <= now /\ p.round \in Nat
      /\ now - 1 \in Int /\ (now - 1) + 1 = now
  <2>1. p.round \in Nat /\ p.level \in 0 .. MaxLevel
    BY <1>7, BlockTypes
  <2> QED  BY <2>1, BoundsAssumption DEF Now, Rounds
<1>9. Genesis \in FinalBlocks
  BY DEF FinalBlocks, Final, Inv, BlockInv, Chain
<1>10. /\ Good(s, b, blocks', Payloads(blocks'), C, {})
       /\ Timely(s, FinalBlocks)
       /\ s.level_state.latest_proposal = p
       /\ s.round_state.current_round = now
       /\ s.level_state.attestable_payload.prequorum < p.round
       /\ s.level_state.attestable_payload.prequorum \in Int
       /\ s.level_state.current_level = p.level
  <2>1. /\ Good(s, b, blocks', Payloads(blocks'), C, {})
        /\ s.level_state.latest_proposal = p
        /\ s.round_state.current_round = now
    <3> HIDE DEF C
    <3>1. /\ NoStateData \in StateData(blocks')
          /\ SoundData(NoStateData.level, NoStateData.locked_round,
                       NoStateData.attestable_payload, blocks', C)
      BY NoDataIsSound
    <3> QED  BY <1>7, <1>8, <3>1, InitialState
  <2>2. /\ Timely(s, FinalBlocks)
        /\ s.level_state.attestable_payload.prequorum < p.round
    <3>1. s = create_initial_state(b, p, now, NoStateData)
      OBVIOUS
    <3> HIDE DEF C, s
    <3> QED  BY <1>7, <1>8, <1>9, <3>1, TimelyStart
  <2> HIDE DEF s
  <2> QED  BY <2>1, <2>2 DEF Good, Sound, State, LevelState, Attestable, OptRound, NoRound
<1> HIDE DEF s, C, R
<1>11. /\ GoodOutcome(head_event, b, blocks', Payloads(blocks'), C, {}, {}, R)
       /\ TimelyOutcome(head_event, s, FinalBlocks)
  BY <1>7, <1>8, <1>10, NewProposal, TimelyNewProposal
<1> DEFINE ending == now - 1
<1>12. /\ ending \in Int /\ ending + 1 \in Nat /\ ending + 1 = now
       /\ ending + 1 \in Rounds(s.level_state.current_level)
       /\ ending + 1 >= s.round_state.current_round
       /\ s.level_state.attestable_payload.prequorum < ending + 1
  BY <1>8, <1>10
<1> HIDE DEF ending
<1>13. /\ GoodOutcome(end_of_round(s, ending, ops), b, blocks', Payloads(blocks'), C, {},
                      {}, R)
       /\ TimelyOutcome(end_of_round(s, ending, ops), s, FinalBlocks)
  <2>1. /\ RoundProposer(s.level_state.current_level, ending + 1) = b
        /\ s.level_state.latest_proposal.level # 0
        => propose_block_action(s, ending + 1, ops).arg \in R
    BY <1>7, <1>10, <1>12, ProposeValid DEF R
  <2>2. blocks' \subseteq Block(Payloads(blocks'))
    BY <1>7 DEF Context
  <2> QED  BY <1>10, <1>12, <2>1, <2>2, EndRound, TimelyEnd
<1>14. o \in {head_event, end_of_round(s, ending, ops)}
  BY <1>10 DEF compute_bootstrap_event, ending
<1> HIDE DEF head_event, o
<1>15. /\ GoodOutcome(o, b, blocks', Payloads(blocks'), C, {}, {}, R)
       /\ TimelyOutcome(o, s, FinalBlocks)
  BY <1>11, <1>13, <1>14
<1>16. /\ state'[b] = o.state /\ forge_requests'[b] = q /\ unrecorded'[b] = FALSE
       /\ \A c \in Bakers : c # b => /\ state'[c] = state[c]
                                     /\ forge_requests'[c] = forge_requests[c]
                                     /\ unrecorded'[c] = unrecorded[c]
  BY <1>4, <1>5 DEF Inv, DomainInv
<1>17. FinalBlocks \subseteq FinalBlocks'
  BY <1>6, FinalGrows
<1>18. InTime(b)'
  <2>1. /\ \A x : Valid(x, FinalBlocks) => Valid(x, FinalBlocks')
        /\ Timely(o.state, FinalBlocks')
    BY <1>15, <1>17, ValidRemains DEF TimelyOutcome
  <2> DEFINE S == ValidBlocks(blocks', FinalBlocks')
  <2>2. q \in Seq(RequestsFor(VotesFor(blocks'), S))
    <3>1. /\ o.action \in {"Prepare_consensus_votes", "Prepare_attestations"} =>
               o.arg \in VotesFor(blocks')
          /\ o.action = "Prepare_block" => o.arg \in S
      BY <1>15, <2>1 DEF GoodOutcome, ValidBlocks, R
    <3>2. <<>> \in Seq(RequestsFor(VotesFor(blocks'), S))
      BY EmptySeq
    <3> HIDE DEF S
    <3> QED  BY <3>1, <3>2, RequestsAreTyped
  <2> QED  BY <1>3, <1>5, <1>16, <2>1, <2>2 DEF InTime, ValidRequests
<1>19. restarts' \in Nat
  BY <1>5 DEF RoundInv
<1>20. /\ blocks' = blocks \union {p} /\ recorded' = recorded
       /\ (p \in blocks \/ Valid(p, FinalBlocks))
  BY <1>4, <1>5, <1>7
<1> QED  BY <1>6, <1>16, <1>18, <1>19, <1>20, OthersInTime

(* Init establishes the invariant. *)
LEMMA InitInTime ==
  ASSUME Init
  PROVE  RoundInv
<1>1. Inv
  BY InitInv
<1>2. /\ Chain(blocks, Certified) /\ Genesis \in FinalBlocks
      /\ BlocksAreValid(blocks, FinalBlocks)
  BY <1>1 DEF Init, Inv, BlockInv, FinalBlocks, Final, BlocksAreValid
<1>3. PqcBefore(blocks)
  BY <1>2, ValidBefore
<1>4. Context(blocks, Payloads(blocks), Certified)
  <2>1. blocks \subseteq Block(Payloads(blocks))
    BY <1>2, BlockTypes
  <2>2. OnePayload(Certified)
    BY <1>1, OnePayloadCertified DEF Certified
  <2> QED  BY <2>1, <2>2 DEF Context, BlocksAreCertified, Init, Genesis
<1>5. /\ 0 \in Rounds(Genesis.level) /\ Genesis.round <= 0 /\ 0 \in Nat
      /\ Genesis \in blocks
  BY BoundsAssumption DEF Init, Genesis, Rounds
<1>6. ASSUME NEW b \in Bakers  PROVE InTime(b)
  <2>1. state[b] = create_initial_state(b, Genesis, 0, NoStateData)
    BY DEF Init
  <2>2. Timely(state[b], FinalBlocks)
    BY <1>2, <1>3, <1>4, <1>5, <2>1, TimelyStart
  <2> QED  BY <2>2, EmptySeq DEF Init, InTime
<1> QED  BY <1>2, <1>6 DEF RoundInv, Init

(* Every step of Next keeps the invariant, and every one but a restart     *)
(* moves forward.                                                          *)
LEMMA NextInTime ==
  ASSUME ~RecordState, Inv, RoundInv, [Next]_vars
  PROVE  RoundInv' /\ (AllForward \/ restarts < MaxRestarts)
<1>1. ASSUME NEW b \in Bakers, BakerStep(b)
      PROVE  RoundInv' /\ (AllForward \/ restarts < MaxRestarts)
  <2>1. ~unrecorded[b]
    BY DEF RoundInv, InTime
  <2>2. ~Record(b)
    BY <2>1 DEF Record
  <2>3. CASE update_monitoring(b)
    BY <2>3, UnseenInTime DEF update_monitoring, disk, node, network, Grows
  <2>4. CASE Restart(b)
    BY <2>4, RestartInTime DEF Restart
  <2> QED
    BY <1>1, <2>2, <2>3, <2>4, ProposalInTime, EndInTime, PrepareInTime, QuorumInTime,
       VoteInTime, RequestInTime DEF BakerStep
<1>2. ASSUME NEW m \in Peers, PeerPreattests(m) \/ PeerAttests(m)
      PROVE  RoundInv' /\ AllForward
  BY <1>2, UnseenInTime DEF PeerPreattests, PeerAttests, workers, disk, Grows
<1>3. CASE UNCHANGED vars
  BY <1>3, UnseenInTime DEF vars, workers, disk, network, Grows
<1> QED  BY <1>1, <1>2, <1>3 DEF Next

(***************************************************************************)
(* Theorems                                                                *)
(***************************************************************************)
(* The invariant of bakers that do not record their state, whatever their  *)
(* restarts.                                                               *)
THEOREM RoundInvariance ==
  ASSUME ~RecordState
  PROVE  Spec => [](Inv /\ RoundInv)
<1>1. Init => Inv /\ RoundInv
  BY InitInv, InitInTime
<1>2. Inv /\ RoundInv /\ [Next]_vars => (Inv /\ RoundInv)'
  BY NextInv, NextInTime
<1> QED  BY <1>1, <1>2, PTL DEF Spec

(* The state keeps its shape: what a baker holds was sent on the network,  *)
(* and its clock is never behind its latest proposal.                      *)
THEOREM TypeCorrect ==
  ASSUME ~RecordState
  PROVE  Spec => []TypeOK
<1>1. Inv /\ RoundInv => TypeOK
  <2> SUFFICES ASSUME Inv, RoundInv, NEW b \in Bakers
               PROVE  /\ ls(b).latest_proposal \in blocks /\ head[b] \in blocks
                      /\ ls(b).current_level = ls(b).latest_proposal.level
                      /\ rs(b).current_round \in Rounds(ls(b).current_level)
                      /\ rs(b).current_round >= ls(b).latest_proposal.round
                      /\ rs(b).current_phase \in Phases
                      /\ rs(b).delayed_quorum \in BOOLEAN
                      /\ rs(b).awaiting_unlocking_pqc \in BOOLEAN
                      /\ ls(b).is_latest_proposal_applied \in BOOLEAN
                      /\ rs(b).early_attestations \subseteq {Vote(p) : p \in blocks}
                      /\ ls(b).locked_round = NoLock \/
                           [level |-> ls(b).current_level,
                            round |-> ls(b).locked_round.round,
                            payload |-> ls(b).locked_round.payload]
                           \in {Vote(p) : p \in blocks}
                      /\ ls(b).attestable_payload = NoAttestable \/
                           ls(b).attestable_payload.proposal \in blocks
                      /\ ls(b).elected_block \in blocks \union {None}
                      /\ proposal_watched[b] = None \/
                           proposal_watched[b].candidate \in blocks
    BY DEF TypeOK
  <2>1. Good(state[b], b, blocks, Payloads(blocks), Certified, Attested(b))
        /\ Timely(state[b], FinalBlocks)
    BY ActorInTime
  <2>2. /\ ls(b).latest_proposal \in blocks
        /\ ls(b).current_level = ls(b).latest_proposal.level
        /\ rs(b).current_phase \in Phases
        /\ rs(b).delayed_quorum \in BOOLEAN
        /\ rs(b).awaiting_unlocking_pqc \in BOOLEAN
        /\ ls(b).is_latest_proposal_applied \in BOOLEAN
        /\ ls(b).elected_block \in blocks \union {None}
    BY <2>1 DEF Good, State, LevelState, RoundState, Sound, ls, rs
  <2>3. /\ rs(b).current_round \in Rounds(ls(b).current_level)
        /\ rs(b).current_round >= ls(b).latest_proposal.round
    BY <2>1 DEF Timely, ls, rs
  <2>4. rs(b).early_attestations \subseteq {Vote(p) : p \in blocks}
    BY DEF Inv, BakerInv, WatermarkInv, Attested, VotesFor
  <2>5. ls(b).locked_round = NoLock \/
          Cert(ls(b).current_level, ls(b).locked_round.round, ls(b).locked_round.payload)
          \in VotesFor(blocks)
    BY <2>1, CertifiedIsProposed DEF Good, Sound, SoundData, LockIsReal, Certified, ls
  <2>6. ls(b).attestable_payload = NoAttestable \/
          ls(b).attestable_payload.proposal \in blocks
    BY <2>1 DEF Good, Sound, SoundData, AttestableIsReal, ls
  <2>7. /\ head[b] \in blocks
        /\ proposal_watched[b] = None \/ proposal_watched[b].candidate \in blocks
    BY DEF Inv, BakerInv, WorkerInv, Watches
  <2> QED  BY <2>2, <2>3, <2>4, <2>5, <2>6, <2>7 DEF Cert, VotesFor
<1> QED  BY <1>1, RoundInvariance, PTL

(* A late quorum is for the proposal that handle_expected_applied_proposal *)
(* will elect.                                                             *)
THEOREM DelayedQuorumHolds ==
  ASSUME ~RecordState
  PROVE  Spec => []DelayedQuorumIsForLatest
<1>1. RoundInv => DelayedQuorumIsForLatest
  BY DEF RoundInv, InTime, Timely, DelayedQuorumIsForLatest, FinalBlocks, ls, rs
<1> QED  BY <1>1, RoundInvariance, PTL

(* Bakers elect, and build on, blocks with a quorum only, and every block  *)
(* they send is fresh or carries a real certificate of an earlier round.   *)
THEOREM OwnBlocksHold ==
  ASSUME ~RecordState
  PROVE  Spec => []OwnBlocksAreValid
<1>1. Inv /\ RoundInv => OwnBlocksAreValid
  <2> SUFFICES ASSUME Inv, RoundInv  PROVE OwnBlocksAreValid
    OBVIOUS
  <2>1. \A b \in Bakers : ls(b).elected_block # None => Final(ls(b).elected_block)
    BY DEF RoundInv, InTime, Timely, FinalBlocks, ls
  <2>2. ASSUME NEW p \in blocks \ {Genesis}
        PROVE  /\ Final(predecessor(p))
               /\ IF p.pqc = NoRound THEN p.payload.round = p.round
                  ELSE /\ p.payload.round <= p.pqc /\ p.pqc < p.round
                       /\ Prequorum([level |-> p.level, round |-> p.pqc,
                                     payload |-> p.payload])
    <3>1. Valid(p, FinalBlocks)
      BY DEF RoundInv, BlocksAreValid
    <3>2. p.pqc # NoRound => Cert(p.level, p.pqc, p.payload) \in Certified
      BY DEF Inv, BlockInv, Chain, Extends
    <3>3. p.pqc # NoRound => Prequorum(Cert(p.level, p.pqc, p.payload))
      BY <3>2 DEF Certified, CertifiedBy, Prequorum
    <3> QED  BY <3>1, <3>3 DEF Valid, FinalBlocks, Cert
  <2> QED  BY <2>1, <2>2 DEF OwnBlocksAreValid
<1> QED  BY <1>1, RoundInvariance, PTL

(* The lock of a running baker moves to later rounds only, and a block it  *)
(* elected stays elected.                                                  *)
THEOREM LocksMoveForward ==
  ASSUME ~RecordState, MaxRestarts = 0
  PROVE  Spec => LockMovesForward /\ ElectedBlockStays
<1>1. Inv /\ RoundInv /\ [Next]_vars => AllForward
  <2> SUFFICES ASSUME Inv, RoundInv, [Next]_vars  PROVE AllForward
    OBVIOUS
  <2>1. ~(restarts < MaxRestarts)
    BY DEF RoundInv
  <2> QED  BY <2>1, NextInTime
<1>2. AllForward =>
        /\ \A b \in Bakers :
             ls(b)'.current_level = ls(b).current_level =>
               \/ ls(b)'.locked_round = ls(b).locked_round
               \/ ls(b)'.locked_round.round > ls(b).locked_round.round
        /\ \A b \in Bakers :
             /\ ls(b)'.current_level = ls(b).current_level
             /\ ls(b).elected_block # None
             => ls(b)'.elected_block = ls(b).elected_block
  BY DEF AllForward, Forward, ls
<1> QED
  BY <1>1, <1>2, RoundInvariance, PTL DEF Spec, LockMovesForward, ElectedBlockStays

\* The block elected at a level, on which the next one is baked, is not replaced
\* while the level lasts, whatever quorums follow (state_transitions.ml:1016).
THEOREM ElectedBlockStaysHolds ==
  ASSUME ~RecordState, MaxRestarts = 0
  PROVE  Spec => ElectedBlockStays
BY LocksMoveForward, PTL
=============================================================================
