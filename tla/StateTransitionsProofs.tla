------------------------ MODULE StateTransitionsProofs ------------------------
(***************************************************************************)
(* What the handlers of StateTransitions preserve, for every set of blocks *)
(* and of certificates.  Throughout, b is a baker, B a set of blocks, P    *)
(* the set of their payloads, C the set of votes that have a prequorum, E  *)
(* and N sets of votes that b may inject as attestations and as            *)
(* preattestations, and R a set of blocks that b may propose.              *)
(***************************************************************************)
EXTENDS StateTransitions, TLAPS

OptRound == Nat \union {NoRound}

Block(P) == [level : Nat, round : Nat, pqc : OptRound, payload : P]
VotesFor(B) == {Vote(p) : p \in B}
Lock(P) == [round : OptRound, payload : P \union {None}]
Attestable(B) == [proposal : B \union {None}, prequorum : OptRound]

LevelState(B, P) ==
  [current_level : Nat, latest_proposal : B,
   is_latest_proposal_applied : BOOLEAN, locked_round : Lock(P),
   attestable_payload : Attestable(B), elected_block : B \union {None},
   next_level_proposed_round : OptRound]

RoundState(E) ==
  [current_round : Nat, current_phase : Phases, delayed_quorum : BOOLEAN,
   early_attestations : SUBSET E, awaiting_unlocking_pqc : BOOLEAN]

State(b, B, P, E) ==
  [me : {b}, level_state : LevelState(B, P), round_state : RoundState(E)]

-----------------------------------------------------------------------------
(***************************************************************************)
(* Soundness of a state: what it holds is of its level, and the payload    *)
(* it could repropose and its lock rest on certificates, the first on one  *)
(* at least as recent as the second.                                       *)
(***************************************************************************)
Cert(level, round, payload) ==
  [level |-> level, round |-> round, payload |-> payload]

AttestableIsReal(level, attestable, B, C) ==
  attestable = NoAttestable \/
    /\ attestable.proposal \in B
    /\ attestable.prequorum \in Nat
    /\ attestable.proposal.level = level
    /\ Cert(level, attestable.prequorum, attestable.proposal.payload) \in C

LockIsReal(level, lock, C) ==
  lock = NoLock \/ /\ lock.round \in Nat
                   /\ Cert(level, lock.round, lock.payload) \in C

LockBelowAttestable(lock, attestable) ==
  lock # NoLock =>
    /\ attestable.prequorum >= lock.round
    /\ attestable.prequorum = lock.round =>
         attestable.proposal.payload = lock.payload

SoundData(level, lock, attestable, B, C) ==
  /\ AttestableIsReal(level, attestable, B, C)
  /\ LockIsReal(level, lock, C)
  /\ LockBelowAttestable(lock, attestable)

Sound(s, B, C) ==
  LET l == s.level_state
  IN  /\ l.current_level = l.latest_proposal.level
      /\ l.elected_block # None => l.elected_block.level = l.current_level
      /\ SoundData(l.current_level, l.locked_round, l.attestable_payload, B, C)

Good(s, b, B, P, C, E) == s \in State(b, B, P, E) /\ Sound(s, B, C)

(* Per level and round one payload at most has a certificate. *)
OnePayload(C) ==
  \A v, w \in C : v.level = w.level /\ v.round = w.round => v.payload = w.payload

BlocksAreCertified(B, C) ==
  \A p \in B : p.pqc # NoRound => Cert(p.level, p.pqc, p.payload) \in C

Context(B, P, C) ==
  /\ B \subseteq Block(P)
  /\ OnePayload(C)
  /\ BlocksAreCertified(B, C)

(* An outcome is good when both its states are and its argument is what    *)
(* the baker may vote for, inject or propose.                              *)
GoodOutcome(o, b, B, P, C, E, N, R) ==
  /\ Good(o.state, b, B, P, C, E)
  /\ Good(o.step, b, B, P, C, E)
  /\ o.action \in {"Prepare_consensus_votes", "Prepare_attestations"} =>
       o.arg \in VotesFor(B)
  /\ o.action = "Inject_attestations" => o.arg \subseteq E
  /\ o.action = "Inject_preattestation" => o.arg \in N
  /\ o.action = "Prepare_block" => o.arg \in R

-----------------------------------------------------------------------------
(* The outcome of a step that changes nothing but the state. *)
LEMMA DoNothing ==
  ASSUME NEW b, NEW B, NEW P, NEW C, NEW E, NEW N, NEW R,
         NEW s, Good(s, b, B, P, C, E)
  PROVE  GoodOutcome(do_nothing(s), b, B, P, C, E, N, R)
BY DEF do_nothing, Outcome, GoodOutcome

(* The phase is not part of what makes a state sound. *)
LEMMA PhaseChange ==
  ASSUME NEW b, NEW B, NEW P, NEW C, NEW E, NEW phase \in Phases,
         NEW s, Good(s, b, B, P, C, E)
  PROVE  Good(update_current_phase(s, phase), b, B, P, C, E)
BY DEF Good, Sound, State, RoundState, update_current_phase

(* Taking up the certificate of a proposal of the level. *)
LEMMA UpdateAttestable ==
  ASSUME NEW b, NEW B, NEW P, NEW C, NEW E, Context(B, P, C),
         NEW s, Good(s, b, B, P, C, E),
         NEW p \in B, p.level = s.level_state.current_level
  PROVE  Good(may_update_attestable_payload_with_internal_pqc(s, p),
              b, B, P, C, E)
<1> DEFINE t == may_update_attestable_payload_with_internal_pqc(s, p)
<1>0. p \in Block(P) /\ s \in State(b, B, P, E) /\ Sound(s, B, C)
  BY DEF Context, Good
<1>1. CASE t = s
  BY <1>1, <1>0
<1>2. CASE t # s
  <2>1. /\ p.pqc \in Nat /\ p.pqc >= s.level_state.attestable_payload.prequorum
        /\ p.level \in Nat
    BY <1>2, <1>0 DEF may_update_attestable_payload_with_internal_pqc, Block,
       OptRound, NoRound, State, LevelState, Attestable
  <2>2. t = [s EXCEPT !.level_state.attestable_payload =
                    [proposal |-> p, prequorum |-> p.pqc]]
    BY <1>2 DEF may_update_attestable_payload_with_internal_pqc
  <2>3. t \in State(b, B, P, E)
    BY <1>0, <2>2, <2>1 DEF State, LevelState, Attestable, OptRound
  <2>4. /\ t.level_state.attestable_payload = [proposal |-> p, prequorum |-> p.pqc]
        /\ t.level_state.current_level = s.level_state.current_level
        /\ t.level_state.locked_round = s.level_state.locked_round
        /\ t.level_state.latest_proposal = s.level_state.latest_proposal
        /\ t.level_state.elected_block = s.level_state.elected_block
    BY <1>0, <2>2 DEF State, LevelState
  <2> DEFINE L == s.level_state.current_level
             lock == s.level_state.locked_round
             new == [proposal |-> p, prequorum |-> p.pqc]
  <2>5. AttestableIsReal(L, new, B, C)
    BY <2>1 DEF AttestableIsReal, Context, BlocksAreCertified, NoRound
  <2>6. LockBelowAttestable(lock, new)
    <3> SUFFICES ASSUME lock # NoLock
                 PROVE  /\ p.pqc >= lock.round
                        /\ p.pqc = lock.round => p.payload = lock.payload
      BY DEF LockBelowAttestable
    <3>1. /\ lock.round \in Nat /\ Cert(L, lock.round, lock.payload) \in C
          /\ s.level_state.attestable_payload.prequorum >= lock.round
      BY <1>0 DEF Sound, SoundData, LockIsReal, LockBelowAttestable
    <3>2. Cert(L, p.pqc, p.payload) \in C
      BY <2>1 DEF Context, BlocksAreCertified, NoRound
    <3>3. s.level_state.attestable_payload.prequorum \in Int
      BY <1>0 DEF State, LevelState, Attestable, OptRound, NoRound
    <3>4. OnePayload(C)
      BY DEF Context
    <3> QED  BY <3>1, <3>2, <3>3, <3>4, <2>1 DEF Cert, OnePayload
  <2>7. Sound(t, B, C)
    <3> HIDE DEF t
    <3> QED BY <1>0, <2>4, <2>5, <2>6 DEF Sound, SoundData
  <2> QED  BY <2>3, <2>7 DEF Good
<1> QED  BY <1>1, <1>2

(* Taking a block of the current level for the latest proposal. *)
LEMMA UpdateProposal ==
  ASSUME NEW b, NEW B, NEW P, NEW C, NEW E, NEW applied \in BOOLEAN,
         NEW s, Good(s, b, B, P, C, E),
         NEW p \in B, p.level = s.level_state.current_level
  PROVE  /\ Good(update_proposal(s, applied, p), b, B, P, C, E)
         /\ Good(may_update_proposal(s, applied, p), b, B, P, C, E)
BY DEF Good, Sound, State, LevelState, update_proposal, may_update_proposal

(* Entering a round. *)
LEMMA NewRound ==
  ASSUME NEW b, NEW B, NEW P, NEW C, NEW E, NEW round \in Nat,
         NEW s, Good(s, b, B, P, C, E)
  PROVE  Good([s EXCEPT !.round_state = NewRoundState(round)], b, B, P, C, E)
BY DEF Good, Sound, State, RoundState, NewRoundState, Phases

(* Entering a level. *)
LEMMA NewLevel ==
  ASSUME NEW b, NEW B, NEW P, NEW C, NEW E, Context(B, P, C),
         NEW now \in Nat, NEW applied \in BOOLEAN,
         NEW s, Good(s, b, B, P, C, E), NEW p \in B
  PROVE  Good([s EXCEPT !.level_state = NewLevelState(p, applied, None),
                        !.round_state = NewRoundState(now)], b, B, P, C, E)
<1> DEFINE t == [s EXCEPT !.level_state = NewLevelState(p, applied, None),
                          !.round_state = NewRoundState(now)]
<1>1. p.level \in Nat
  BY DEF Context, Block
<1>2. NewRoundState(now) \in RoundState(E)
  BY DEF RoundState, NewRoundState, Phases
<1>3. NewLevelState(p, applied, None) \in LevelState(B, P)
  BY <1>1 DEF LevelState, NewLevelState, NoLock, NoAttestable, Lock, Attestable,
     OptRound
<1>4. /\ t \in State(b, B, P, E)
      /\ t.level_state = NewLevelState(p, applied, None)
  BY <1>2, <1>3 DEF Good, State
<1>5. Sound(t, B, C)
  BY <1>4 DEF Sound, SoundData, AttestableIsReal, LockIsReal,
     LockBelowAttestable, NewLevelState
<1> QED  BY <1>4, <1>5 DEF Good

(* Asking for votes on the proposal. *)
LEMMA PrepareVotes ==
  ASSUME NEW b, NEW B, NEW P, NEW C, NEW E, NEW N, NEW R,
         NEW s, Good(s, b, B, P, C, E), NEW p \in B
  PROVE  GoodOutcome(prepare_consensus_votes(s, p), b, B, P, C, E, N, R)
<1>1. /\ Good(update_current_phase(s, "Idle"), b, B, P, C, E)
      /\ Good(update_current_phase(s, "Awaiting_preattestations"), b, B, P, C, E)
  BY PhaseChange DEF Phases
<1> QED
  BY <1>1, DoNothing DEF prepare_consensus_votes, Outcome, GoodOutcome, VotesFor

(* Watching a proposal that contradicts the lock. *)
LEMMA WatchUnlocking ==
  ASSUME NEW b, NEW B, NEW P, NEW C, NEW E, NEW N, NEW R,
         NEW s, Good(s, b, B, P, C, E)
  PROVE  GoodOutcome(watch_unlocking_prequorum(s), b, B, P, C, E, N, R)
<1> DEFINE t == [s EXCEPT !.round_state.awaiting_unlocking_pqc = TRUE,
                          !.round_state.current_phase = "Awaiting_preattestations"]
<1>1. Good(t, b, B, P, C, E)
  BY DEF Good, Sound, State, RoundState, Phases
<1> QED
  BY <1>1 DEF watch_unlocking_prequorum, Outcome, GoodOutcome

(* The early attestations of a state may be dropped. *)
LEMMA DropEarly ==
  ASSUME NEW b, NEW B, NEW P, NEW C, NEW E,
         NEW s, Good(s, b, B, P, C, E)
  PROVE  Good([s EXCEPT !.round_state.early_attestations = {}], b, B, P, C, E)
BY DEF Good, Sound, State, RoundState

(* A proposal of the current level, whatever its round. *)
LEMMA CurrentProposal ==
  ASSUME NEW b, NEW B, NEW P, NEW C, NEW E, NEW N, NEW R, Context(B, P, C),
         NEW applied \in BOOLEAN,
         NEW s, Good(s, b, B, P, C, E),
         NEW p \in B, p.level = s.level_state.current_level
  PROVE  GoodOutcome(handle_current_proposal(s, applied, p), b, B, P, C, E, N, R)
<1> DEFINE u == may_update_attestable_payload_with_internal_pqc(s, p)
           w == may_update_proposal(u, applied, p)
           t == [w EXCEPT !.round_state.early_attestations = {}]
           marked == [s EXCEPT !.level_state.is_latest_proposal_applied = TRUE]
<1>1. Good(u, b, B, P, C, E)
  BY UpdateAttestable
<1>2. u.level_state.current_level = s.level_state.current_level
  BY DEF may_update_attestable_payload_with_internal_pqc, Good, State, LevelState
<1>3. Good(w, b, B, P, C, E)
  <2> HIDE DEF u
  <2> QED  BY <1>1, <1>2, UpdateProposal
<1>4. Good(t, b, B, P, C, E)
  <2> HIDE DEF w
  <2> QED  BY <1>3, DropEarly
<1>5. GoodOutcome(do_nothing(w), b, B, P, C, E, N, R)
  BY <1>3, DoNothing
<1>6. GoodOutcome(handle_valid_proposal(s, applied, p), b, B, P, C, E, N, R)
  <2> HIDE DEF t
  <2>1. /\ GoodOutcome(do_nothing(t), b, B, P, C, E, N, R)
        /\ GoodOutcome(prepare_consensus_votes(t, p), b, B, P, C, E, N, R)
        /\ GoodOutcome(watch_unlocking_prequorum(t), b, B, P, C, E, N, R)
    BY <1>4, DoNothing, PrepareVotes, WatchUnlocking
  <2>2. handle_valid_proposal(s, applied, p) \in
          {do_nothing(t), prepare_consensus_votes(t, p), watch_unlocking_prequorum(t)}
    BY DEF handle_valid_proposal, may_vote, t
  <2> QED  BY <2>1, <2>2
<1>7. Good(marked, b, B, P, C, E)
  BY DEF Good, Sound, State, LevelState
<1>8. /\ GoodOutcome(do_nothing(marked), b, B, P, C, E, N, R)
      /\ GoodOutcome(do_nothing(s), b, B, P, C, E, N, R)
  BY <1>7, DoNothing
<1>9. handle_current_proposal(s, applied, p) \in
        {do_nothing(marked), do_nothing(s), do_nothing(w),
         handle_valid_proposal(s, applied, p)}
  BY DEF handle_current_proposal, mark_applied, handle_outdated_proposal
<1> QED
  BY <1>5, <1>6, <1>8, <1>9

(* A proposal of a later level starts that level. *)
LEMMA UpdateToLevel ==
  ASSUME NEW b, NEW B, NEW P, NEW C, NEW E, NEW N, NEW R, Context(B, P, C),
         NEW applied \in BOOLEAN, NEW now \in Nat,
         NEW s, Good(s, b, B, P, C, E), NEW p \in B
  PROVE  GoodOutcome(update_to_level(s, applied, p, now), b, B, P, C, E, N, R)
<1> DEFINE t == [s EXCEPT !.level_state = NewLevelState(p, applied, None),
                          !.round_state = NewRoundState(now)]
           o == handle_current_proposal(t, applied, p)
<1>1. Good(t, b, B, P, C, E)
  BY NewLevel
<1>2. t.level_state.current_level = p.level
  BY DEF Good, State, NewLevelState
<1>3. GoodOutcome(o, b, B, P, C, E, N, R)
  <2> HIDE DEF t
  <2> QED  BY <1>1, <1>2, CurrentProposal
<1>4. update_to_level(s, applied, p, now) = [o EXCEPT !.step = s]
  BY DEF update_to_level
<1> QED
  BY <1>3, <1>4 DEF GoodOutcome

(* A proposal of another branch restarts the round. *)
LEMMA SynchronizeRound ==
  ASSUME NEW b, NEW B, NEW P, NEW C, NEW E, NEW N, NEW R, Context(B, P, C),
         NEW applied \in BOOLEAN, NEW now \in Nat,
         NEW s, Good(s, b, B, P, C, E),
         NEW p \in B, p.level = s.level_state.current_level
  PROVE  GoodOutcome(synchronize_round(s, applied, p, now), b, B, P, C, E, N, R)
<1> DEFINE t == update_proposal(s, applied, p)
           u == [t EXCEPT !.round_state = NewRoundState(now)]
           o == handle_current_proposal(u, applied, p)
<1>1. Good(t, b, B, P, C, E)
  BY UpdateProposal
<1>2. t.level_state.current_level = p.level
  BY DEF Good, State, LevelState, update_proposal
<1>3. Good(u, b, B, P, C, E) /\ u.level_state.current_level = p.level
  <2> HIDE DEF t
  <2>1. u.level_state = t.level_state
    BY <1>1 DEF Good, State
  <2> QED  BY <1>1, <1>2, <2>1, NewRound
<1>4. GoodOutcome(o, b, B, P, C, E, N, R)
  <2> HIDE DEF u
  <2> QED  BY <1>3, CurrentProposal
<1>5. synchronize_round(s, applied, p, now) = [o EXCEPT !.step = t]
  BY DEF synchronize_round
<1> QED
  BY <1>1, <1>4, <1>5 DEF GoodOutcome

(* A proposal of any level, from the two kinds of announcements. *)
LEMMA HandleProposal ==
  ASSUME NEW b, NEW B, NEW P, NEW C, NEW E, NEW N, NEW R, Context(B, P, C),
         NEW applied \in BOOLEAN, NEW now \in Nat,
         NEW s, Good(s, b, B, P, C, E), NEW p \in B
  PROVE  GoodOutcome(handle_proposal(s, applied, p, now), b, B, P, C, E, N, R)
<1> DEFINE marked == [s EXCEPT !.level_state.is_latest_proposal_applied = TRUE]
           o == handle_proposal(s, applied, p, now)
<1>1. Good(marked, b, B, P, C, E)
  BY DEF Good, Sound, State, LevelState
<1>2. /\ GoodOutcome(do_nothing(marked), b, B, P, C, E, N, R)
      /\ GoodOutcome(do_nothing(s), b, B, P, C, E, N, R)
  BY <1>1, DoNothing
<1>3. GoodOutcome(update_to_level(s, applied, p, now), b, B, P, C, E, N, R)
  BY UpdateToLevel
<1>4. CASE p.level = s.level_state.current_level
  <2>1. /\ GoodOutcome(synchronize_round(s, applied, p, now), b, B, P, C, E, N, R)
        /\ GoodOutcome(handle_current_proposal(s, applied, p), b, B, P, C, E, N, R)
    BY <1>4, SynchronizeRound, CurrentProposal
  <2>2. o \in {do_nothing(marked), do_nothing(s),
               synchronize_round(s, applied, p, now),
               handle_current_proposal(s, applied, p)}
    <3>1. ~(s.level_state.current_level < p.level)
          /\ ~(s.level_state.current_level > p.level)
      BY <1>4 DEF Good, State, LevelState
    <3> QED  BY <3>1 DEF handle_proposal, mark_applied, may_switch_branch
  <2> QED  BY <2>1, <2>2, <1>2
<1>5. CASE p.level # s.level_state.current_level
  <2>1. \/ s.level_state.current_level < p.level
        \/ s.level_state.current_level > p.level
    BY <1>5 DEF Good, State, LevelState, Context, Block
  <2>2. o \in {do_nothing(marked), do_nothing(s), update_to_level(s, applied, p, now)}
    BY <2>1 DEF handle_proposal, mark_applied
  <2> QED  BY <2>2, <1>2, <1>3
<1> QED  BY <1>4, <1>5

(* The applied block that a late quorum waits for. *)
LEMMA ExpectedApplied ==
  ASSUME NEW b, NEW B, NEW P, NEW C, NEW E, NEW N, NEW R,
         NEW s, Good(s, b, B, P, C, E)
  PROVE  GoodOutcome(handle_expected_applied_proposal(s), b, B, P, C, E, N, R)
<1> DEFINE t == IF s.level_state.elected_block = None
                THEN [s EXCEPT !.level_state.elected_block =
                                 s.level_state.latest_proposal]
                ELSE [s EXCEPT !.level_state.is_latest_proposal_applied = TRUE]
<1>1. Good(t, b, B, P, C, E)
  BY DEF Good, Sound, State, LevelState
<1>2. Good(update_current_phase(t, "Idle"), b, B, P, C, E)
  BY <1>1, PhaseChange DEF Phases
<1> QED
  BY <1>2, DoNothing DEF handle_expected_applied_proposal

(* The events New_head_proposal and New_valid_proposal. *)
LEMMA NewProposal ==
  ASSUME NEW b, NEW B, NEW P, NEW C, NEW E, NEW N, NEW R, Context(B, P, C),
         NEW now \in Nat, NEW s, Good(s, b, B, P, C, E), NEW p \in B
  PROVE  /\ GoodOutcome(New_head_proposal(s, p, now), b, B, P, C, E, N, R)
         /\ GoodOutcome(New_valid_proposal(s, p, now), b, B, P, C, E, N, R)
<1>1. /\ GoodOutcome(handle_expected_applied_proposal(s), b, B, P, C, E, N, R)
      /\ GoodOutcome(handle_proposal(s, TRUE, p, now), b, B, P, C, E, N, R)
      /\ GoodOutcome(handle_proposal(s, FALSE, p, now), b, B, P, C, E, N, R)
      /\ GoodOutcome(do_nothing(s), b, B, P, C, E, N, R)
  BY ExpectedApplied, HandleProposal, DoNothing
<1> QED  BY <1>1 DEF New_head_proposal, New_valid_proposal

(* Injecting attestations that may be injected. *)
LEMMA MayInject ==
  ASSUME NEW b, NEW B, NEW P, NEW C, NEW E, NEW N, NEW R,
         NEW s, Good(s, b, B, P, C, E), NEW votes \in SUBSET E
  PROVE  GoodOutcome(may_inject_attestations(s, votes), b, B, P, C, E, N, R)
BY DoNothing DEF may_inject_attestations, Outcome, GoodOutcome

(* A prequorum for a candidate that really has one: the lock is taken on   *)
(* the latest proposal, and the attestable payload stays above it.         *)
LEMMA PrequorumReached ==
  ASSUME NEW b, NEW B, NEW P, NEW C, NEW E, NEW N, NEW R, Context(B, P, C),
         NEW s, Good(s, b, B, P, C, E),
         NEW candidate \in B, Vote(candidate) \in C
  PROVE  GoodOutcome(Prequorum_reached(s, candidate), b, B, P, C, E, N, R)
<1> DEFINE latest == s.level_state.latest_proposal
           old == s.level_state.attestable_payload
           new == IF old.prequorum < latest.round
                  THEN [proposal |-> latest, prequorum |-> latest.round] ELSE old
           lock == [round |-> latest.round, payload |-> latest.payload]
           t == [s EXCEPT
                   !.level_state.attestable_payload =
                      IF @.prequorum < latest.round
                      THEN [proposal |-> latest, prequorum |-> latest.round] ELSE @,
                   !.level_state.locked_round = lock,
                   !.round_state.current_phase = "Awaiting_attestations"]
           L == s.level_state.current_level
<1>1. CASE candidate = latest
  <2>1. /\ latest \in B /\ latest \in Block(P) /\ s \in State(b, B, P, E)
        /\ Sound(s, B, C) /\ latest.round \in Nat /\ latest.level = L
        /\ old.prequorum \in OptRound
    BY DEF Good, Context, State, LevelState, Sound, Block, Attestable
  <2>2. /\ t.level_state.attestable_payload = new
        /\ t.level_state.locked_round = lock
        /\ t.level_state.current_level = L
        /\ t.level_state.latest_proposal = latest
        /\ t.level_state.elected_block = s.level_state.elected_block
    BY <2>1 DEF State, LevelState
  <2>3. t \in State(b, B, P, E)
    <3>1. new \in Attestable(B) /\ lock \in Lock(P)
      BY <2>1 DEF State, LevelState, Attestable, Lock, OptRound, Block
    <3>2. t = [s EXCEPT !.level_state.attestable_payload = new,
                        !.level_state.locked_round = lock,
                        !.round_state.current_phase = "Awaiting_attestations"]
      BY <2>1 DEF State, LevelState
    <3> HIDE DEF new, lock, t
    <3> QED  BY <2>1, <3>1, <3>2 DEF State, LevelState, RoundState, Phases
  <2>4. Cert(L, latest.round, latest.payload) \in C
    BY <1>1, <2>1 DEF Vote, Cert
  <2>5. AttestableIsReal(L, new, B, C)
    BY <2>1, <2>4 DEF Sound, SoundData, AttestableIsReal
  <2>6. LockIsReal(L, lock, C)
    BY <2>1, <2>4 DEF LockIsReal
  <2>7. LockBelowAttestable(lock, new)
    <3>1. CASE old.prequorum < latest.round
      BY <3>1, <2>1 DEF LockBelowAttestable
    <3>2. CASE ~(old.prequorum < latest.round)
      <4>1. old.prequorum \in Nat /\ old.prequorum >= latest.round /\ new = old
        BY <3>2, <2>1 DEF OptRound, NoRound
      <4>2. Cert(L, old.prequorum, old.proposal.payload) \in C
        BY <4>1, <2>1 DEF Sound, SoundData, AttestableIsReal, NoAttestable, NoRound
      <4>3. old.prequorum = latest.round => old.proposal.payload = latest.payload
        BY <4>2, <2>4 DEF Context, OnePayload, Cert
      <4> QED  BY <4>1, <4>3 DEF LockBelowAttestable
    <3> QED  BY <3>1, <3>2
  <2>8. Good(t, b, B, P, C, E)
    <3> HIDE DEF t, new, lock
    <3>1. Sound(t, B, C)
      BY <2>1, <2>2, <2>5, <2>6, <2>7 DEF Sound, SoundData
    <3> QED  BY <2>3, <3>1 DEF Good
  <2>9. GoodOutcome(Outcome(t, "Prepare_attestations", Vote(latest)), b, B, P, C, E, N, R)
    BY <2>8, <2>1 DEF Outcome, GoodOutcome, VotesFor
  <2>10. GoodOutcome(may_inject_early_forged_attestations(t), b, B, P, C, E, N, R)
    <3> HIDE DEF t
    <3>1. GoodOutcome(Outcome(t, "Watch_quorum", None), b, B, P, C, E, N, R)
      BY <2>8 DEF Outcome, GoodOutcome
    <3>2. t.round_state.early_attestations \in SUBSET E
      BY <2>3 DEF State, RoundState
    <3>3. Good([t EXCEPT !.round_state.early_attestations = {}], b, B, P, C, E)
      BY <2>8, DropEarly
    <3>4. GoodOutcome(may_inject_attestations(
                        [t EXCEPT !.round_state.early_attestations = {}],
                        t.round_state.early_attestations), b, B, P, C, E, N, R)
      BY <3>2, <3>3, MayInject
    <3> QED  BY <3>1, <3>4 DEF may_inject_early_forged_attestations
  <2>11. GoodOutcome(do_nothing(s), b, B, P, C, E, N, R)
    BY DoNothing
  <2>12. Prequorum_reached(s, candidate) \in
           {do_nothing(s), Outcome(t, "Prepare_attestations", Vote(latest)),
            may_inject_early_forged_attestations(t)}
    BY <1>1 DEF Prequorum_reached, prequorum_reached_when_awaiting_preattestations
  <2> HIDE DEF t
  <2> QED  BY <2>9, <2>10, <2>11, <2>12
<1>2. CASE candidate # latest
  <2>1. Prequorum_reached(s, candidate) = do_nothing(s)
    BY <1>2 DEF Prequorum_reached, prequorum_reached_when_awaiting_preattestations
  <2> QED  BY <2>1, DoNothing
<1> QED  BY <1>1, <1>2

(* A quorum. *)
LEMMA QuorumReached ==
  ASSUME NEW b, NEW B, NEW P, NEW C, NEW E, NEW N, NEW R,
         NEW s, Good(s, b, B, P, C, E), NEW candidate
  PROVE  GoodOutcome(Quorum_reached(s, candidate), b, B, P, C, E, N, R)
<1> DEFINE elected == [s EXCEPT !.level_state.elected_block =
                                  s.level_state.latest_proposal,
                                !.round_state.current_phase = "Idle"]
           delayed == [s EXCEPT !.round_state.current_phase = "Awaiting_application",
                                !.round_state.delayed_quorum = TRUE]
<1>1. /\ Good(elected, b, B, P, C, E)
      /\ Good(delayed, b, B, P, C, E)
  BY DEF Good, Sound, State, LevelState, RoundState, Phases
<1>2. Quorum_reached(s, candidate) \in
        {do_nothing(s), do_nothing(elected), do_nothing(delayed)}
  BY DEF Quorum_reached, quorum_reached_when_waiting_attestations
<1> HIDE DEF elected, delayed
<1> QED  BY <1>1, <1>2, DoNothing

(* A signed vote, which the baker may inject. *)
LEMMA ForgedVote ==
  ASSUME NEW b, NEW B, NEW P, NEW C, NEW E, NEW N, NEW R,
         NEW s, Good(s, b, B, P, C, E), NEW v
  PROVE  /\ v \in N => GoodOutcome(handle_forged_preattestation(s, v), b, B, P, C, E, N, R)
         /\ v \in E => GoodOutcome(handle_forged_attestation(s, v), b, B, P, C, E, N, R)
<1>1. GoodOutcome(do_nothing(s), b, B, P, C, E, N, R)
  BY DoNothing
<1>2. v \in N => GoodOutcome(Outcome(s, "Inject_preattestation", v), b, B, P, C, E, N, R)
  BY DEF Outcome, GoodOutcome
<1> DEFINE t == [s EXCEPT !.round_state.early_attestations = @ \union {v}]
<1>3. v \in E => Good(t, b, B, P, C, E)
  BY DEF Good, Sound, State, RoundState
<1>4. v \in E => GoodOutcome(do_nothing(t), b, B, P, C, E, N, R)
  BY <1>3, DoNothing
<1>5. v \in E => GoodOutcome(may_inject_attestations(s, {v}), b, B, P, C, E, N, R)
  BY MayInject
<1>6. handle_forged_attestation(s, v) \in
        {do_nothing(s), do_nothing(t), may_inject_attestations(s, {v})}
  BY DEF handle_forged_attestation
<1> HIDE DEF t
<1> QED  BY <1>1, <1>2, <1>4, <1>5, <1>6 DEF handle_forged_preattestation

(* The end of a round, when what would be proposed is in R. *)
LEMMA EndRound ==
  ASSUME NEW b, NEW B, NEW P, NEW C, NEW E, NEW N, NEW R, NEW ops,
         NEW s, Good(s, b, B, P, C, E), NEW ending \in Int, ending + 1 \in Nat,
         /\ RoundProposer(s.level_state.current_level, ending + 1) = b
         /\ s.level_state.latest_proposal.level # 0
         => propose_block_action(s, ending + 1, ops).arg \in R
  PROVE  GoodOutcome(end_of_round(s, ending, ops), b, B, P, C, E, N, R)
<1> DEFINE t == [s EXCEPT !.round_state = NewRoundState(ending + 1)]
<1>1. Good(t, b, B, P, C, E)
  BY NewRound
<1>2. t.level_state = s.level_state /\ t.me = b
  BY DEF Good, State
<1>3. propose_block_action(t, ending + 1, ops).arg
        = propose_block_action(s, ending + 1, ops).arg
  BY <1>2 DEF propose_block_action, Outcome
<1>4. CASE /\ RoundProposer(s.level_state.current_level, ending + 1) = b
           /\ s.level_state.latest_proposal.level # 0
  <2>1. end_of_round(s, ending, ops) = propose_block_action(t, ending + 1, ops)
    BY <1>2, <1>4 DEF end_of_round, round_proposer, is_first_block_in_protocol
  <2>2. /\ propose_block_action(t, ending + 1, ops).state = t
        /\ propose_block_action(t, ending + 1, ops).step = t
        /\ propose_block_action(t, ending + 1, ops).action = "Prepare_block"
    BY DEF propose_block_action, Outcome
  <2> HIDE DEF t
  <2> QED  BY <1>1, <1>3, <1>4, <2>1, <2>2 DEF GoodOutcome
<1>5. CASE ~ /\ RoundProposer(s.level_state.current_level, ending + 1) = b
             /\ s.level_state.latest_proposal.level # 0
  <2>1. end_of_round(s, ending, ops) = do_nothing(t)
    BY <1>2, <1>5 DEF end_of_round, round_proposer, is_first_block_in_protocol
  <2> HIDE DEF t
  <2> QED  BY <1>1, <2>1, DoNothing
<1> QED  BY <1>4, <1>5

(* Time to bake at the next level. *)
LEMMA PrepareNextLevel ==
  ASSUME NEW b, NEW B, NEW P, NEW C, NEW E, NEW N, NEW R, NEW ops,
         NEW s, Good(s, b, B, P, C, E), NEW at_round \in Nat,
         FreshBlock(s.level_state.elected_block, at_round, ops) \in R
  PROVE  GoodOutcome(time_to_prepare_next_level_block(s, at_round, ops),
                     b, B, P, C, E, N, R)
<1> DEFINE t == [s EXCEPT !.level_state.next_level_proposed_round = at_round]
<1>1. Good(t, b, B, P, C, E)
  BY DEF Good, Sound, State, LevelState, OptRound
<1> QED
  BY <1>1 DEF time_to_prepare_next_level_block, Outcome, GoodOutcome

(* More blocks, certificates and votes leave a good state good. *)
LEMMA GoodMonotone ==
  ASSUME NEW b, NEW B, NEW P, NEW C, NEW E, NEW B2, NEW P2, NEW C2, NEW E2,
         B \subseteq B2, P \subseteq P2, C \subseteq C2, E \subseteq E2,
         NEW s, Good(s, b, B, P, C, E)
  PROVE  Good(s, b, B2, P2, C2, E2)
<1>1. s \in State(b, B2, P2, E2)
  BY DEF Good, State, LevelState, RoundState, Lock, Attestable
<1>2. Sound(s, B2, C2)
  BY DEF Good, Sound, SoundData, AttestableIsReal, LockIsReal
<1> QED  BY <1>1, <1>2 DEF Good
=============================================================================
