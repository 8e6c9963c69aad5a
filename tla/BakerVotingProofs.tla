--------------------------- MODULE BakerVotingProofs ---------------------------
(***************************************************************************)
(* The bakers implement TenderbakeVoting, and so agree: for every          *)
(* committee, number of rounds and schedule.  They do not record their     *)
(* state nor restart, and sign the votes of a round before they leave it   *)
(* (without that the conclusion is false: run late_signing).  The votes    *)
(* are those of the levels up to 1, where all blocks are on one branch.    *)
(***************************************************************************)
EXTENDS BakerRoundProofs

(***************************************************************************)
(* The discipline of a baker, for its state s, the set R of its pending    *)
(* requests, the sets A and N of the attestations and preattestations it   *)
(* has sent, and the set C of votes that have a prequorum.                 *)
(***************************************************************************)
LockOn(p) == [round |-> p.round, payload |-> p.payload]

(* Attestations kept back are for the proposal of this very round; and     *)
(* once past the prequorum, the lock is on the latest proposal.            *)
KeepsRound(s) ==
  LET l == s.level_state
      r == s.round_state
  IN  /\ r.early_attestations \subseteq {Vote(l.latest_proposal)}
      /\ r.early_attestations # {} => r.current_round = l.latest_proposal.round
      /\ r.current_phase \in {"Awaiting_attestations", "Awaiting_application"} =>
           l.locked_round = LockOn(l.latest_proposal)

(* A vote v of the current level, a level without branches. *)
Here(v, s) == v.level = s.level_state.current_level /\ v.level <= 1

(* Votes asked for are for the latest proposal, of this round, and if      *)
(* preattestations are not awaited any more then it is locked.             *)
AskedInTime(s, v) ==
  LET l == s.level_state
      r == s.round_state
  IN  /\ v.level <= l.current_level
      /\ Here(v, s) =>
           /\ v = Vote(l.latest_proposal)
           /\ r.current_round = l.latest_proposal.round
           /\ r.current_phase # "Awaiting_preattestations" =>
                l.locked_round = LockOn(l.latest_proposal)

(* What was attested is locked at its round or later, and nothing was      *)
(* preattested beyond the latest proposal.                                 *)
AttestedInTime(s, v) ==
  /\ v.level <= s.level_state.current_level
  /\ Here(v, s) => v.round <= s.level_state.locked_round.round
PreattestedInTime(s, v) ==
  /\ v.level <= s.level_state.current_level
  /\ Here(v, s) => v.round <= s.level_state.latest_proposal.round

(* After other payloads were attested, v waits for a later certificate. *)
Released(v, A, C) ==
  \A a \in A :
    a.level = v.level /\ a.round < v.round /\ a.payload # v.payload =>
      \E r \in Nat : a.round < r /\ r <= v.round /\ Cert(v.level, r, v.payload) \in C

Disciplined(s, R, A, N, C) ==
  /\ KeepsRound(s)
  /\ \A x \in R : x.kind # "block" => AskedInTime(s, x.content)
  /\ \A v \in A : AttestedInTime(s, v) /\ (v.level <= 1 => v \in C)
  /\ \A v \in N : PreattestedInTime(s, v) /\ (v.level <= 1 => Released(v, A, C))
  /\ \A x \in R : x.kind = "preattestation" /\ x.content.level <= 1 =>
                    Released(x.content, A, C)

(* The types of votes asked for and sent. *)
Ballot(v) == v.level \in Nat /\ v.round \in Nat
Ballots(R, A, N) ==
  /\ \A x \in R : x.kind # "block" => Ballot(x.content)
  /\ \A v \in A : Ballot(v)
  /\ \A v \in N : Ballot(v)

(* What performing an outcome adds to R, A and N. *)
Asks(o) ==
  CASE o.action = "Prepare_consensus_votes" ->
         {request("preattestation", o.arg), request("attestation", o.arg)}
    [] o.action = "Prepare_attestations" -> {request("attestation", o.arg)}
    [] o.action = "Prepare_block" -> {request("block", o.arg)}
    [] OTHER -> {}
Attests(o) == IF o.action = "Inject_attestations" THEN o.arg ELSE {}
Preattests(o) == IF o.action = "Inject_preattestation" THEN {o.arg} ELSE {}

DisciplinedOutcome(o, R, A, N, C) ==
  /\ Disciplined(o.state, R \union Asks(o), A \union Attests(o),
                 N \union Preattests(o), C)
  /\ Attests(o) \subseteq {Vote(o.state.level_state.latest_proposal)}

(* An outcome that asks for no vote and sends none. *)
Quiet(o) ==
  o.action \in {"Do_nothing", "Watch_prequorum", "Watch_quorum", "Prepare_block"}

(* Fewer requests, more certificates. *)
LEMMA DisciplineRemains ==
  ASSUME NEW s, NEW R, NEW A, NEW N, NEW C, Disciplined(s, R, A, N, C),
         NEW Q, Q \subseteq R, NEW D, C \subseteq D
  PROVE  Disciplined(s, Q, A, N, D)
<1>1. \A v : Released(v, A, C) => Released(v, A, D)
  BY DEF Released
<1> QED  BY <1>1 DEF Disciplined

(* A quiet outcome is disciplined when its state is. *)
LEMMA QuietDiscipline ==
  ASSUME NEW o, Quiet(o), NEW R, NEW A, NEW N, NEW C,
         Disciplined(o.state, R, A, N, C)
  PROVE  DisciplinedOutcome(o, R, A, N, C)
<1>1. Attests(o) = {} /\ Preattests(o) = {} /\ \A x \in Asks(o) : x.kind = "block"
  BY DEF Quiet, Attests, Preattests, Asks, request
<1> QED  BY <1>1 DEF DisciplinedOutcome, Disciplined

(***************************************************************************)
(* Proposals                                                               *)
(***************************************************************************)
(* The lock lets the baker vote for p: the guard of handle_proposal. *)
Unlocked(lock, p) ==
  \/ lock = NoLock
  \/ lock.payload = p.payload
  \/ p.pqc # NoRound /\ lock.round < p.pqc

(* The clock is not behind the proposal, and votes are awaited, or kept    *)
(* back, only for a proposal of its round.                                 *)
InRound(s) ==
  LET now == s.round_state.current_round
      round == s.level_state.latest_proposal.round
  IN  /\ now >= round
      /\ s.round_state.current_phase # "Idle" => now = round
      /\ s.round_state.early_attestations # {} => now = round

(* What handling a proposal p of the level may do to a state s: nothing    *)
(* the discipline sees; take up a later proposal without a vote; or await  *)
(* the preattestations of p, asking for a vote if the lock allows it.      *)
Settles(s, o, p) ==
  LET l == s.level_state
      r == s.round_state
      m == o.state.level_state
      q == o.state.round_state
  IN  /\ m.current_level = l.current_level
      /\ m.locked_round = l.locked_round
      /\ q.current_round = r.current_round
      /\ \/ /\ Quiet(o)
            /\ m.latest_proposal = l.latest_proposal
            /\ q.current_phase = r.current_phase
            /\ q.early_attestations \subseteq r.early_attestations
         \/ /\ Quiet(o)
            /\ m.latest_proposal = p /\ l.latest_proposal.round < p.round
            /\ p.round <= r.current_round
            /\ q.current_phase = "Idle" /\ q.early_attestations = {}
         \/ /\ m.latest_proposal = p /\ p.round = r.current_round
            /\ p = l.latest_proposal \/ l.latest_proposal.round < p.round
            /\ q.current_phase = "Awaiting_preattestations"
            /\ q.early_attestations = {}
            /\ \/ Quiet(o)
               \/ /\ o.action = "Prepare_consensus_votes" /\ o.arg = Vote(p)
                  /\ Unlocked(l.locked_round, p)

(* Taking up the certificate of a proposal, and the proposal. *)
LEMMA SettleUpdate ==
  ASSUME NEW b, NEW B, NEW P, NEW C, NEW E, B \subseteq Block(P),
         NEW s, Good(s, b, B, P, C, E), NEW applied \in BOOLEAN, NEW p \in B,
         NEW u, u = may_update_attestable_payload_with_internal_pqc(s, p),
         NEW w, w = may_update_proposal(u, applied, p)
  PROVE  /\ w \in State(b, B, P, E)
         /\ w.round_state = s.round_state
         /\ w.level_state.current_level = s.level_state.current_level
         /\ w.level_state.locked_round = s.level_state.locked_round
         /\ w.level_state.latest_proposal =
              IF s.level_state.latest_proposal.round < p.round
              THEN p ELSE s.level_state.latest_proposal
<1>1. /\ u \in State(b, B, P, E)
      /\ u.round_state = s.round_state
      /\ u.level_state.current_level = s.level_state.current_level
      /\ u.level_state.locked_round = s.level_state.locked_round
      /\ u.level_state.latest_proposal = s.level_state.latest_proposal
  BY DEF may_update_attestable_payload_with_internal_pqc, Good, State, LevelState,
     Attestable, Block
<1> QED
  BY <1>1 DEF may_update_proposal, update_proposal, State, LevelState

(* A proposal of the current level and branch. *)
LEMMA Settle ==
  ASSUME NEW b, NEW B, NEW P, NEW C, NEW E, B \subseteq Block(P),
         NEW s, Good(s, b, B, P, C, E), InRound(s), NEW applied \in BOOLEAN,
         NEW p \in B, predecessor(p) = predecessor(s.level_state.latest_proposal)
  PROVE  Settles(s, handle_current_proposal(s, applied, p), p)
<1> DEFINE u == may_update_attestable_payload_with_internal_pqc(s, p)
           w == may_update_proposal(u, applied, p)
           t == [w EXCEPT !.round_state.early_attestations = {}]
           marked == [s EXCEPT !.level_state.is_latest_proposal_applied = TRUE]
           o == handle_current_proposal(s, applied, p)
           now == s.round_state.current_round
           latest == s.level_state.latest_proposal
<1>1. /\ marked.round_state = s.round_state
      /\ marked.level_state.current_level = s.level_state.current_level
      /\ marked.level_state.locked_round = s.level_state.locked_round
      /\ marked.level_state.latest_proposal = latest
  BY DEF Good, State, LevelState
<1>2. p.round \in Nat /\ now \in Nat /\ latest.round \in Nat
  BY DEF Block, Good, State, LevelState, RoundState
<1>3. /\ w \in State(b, B, P, E)
      /\ w.round_state = s.round_state
      /\ w.level_state.current_level = s.level_state.current_level
      /\ w.level_state.locked_round = s.level_state.locked_round
      /\ w.level_state.latest_proposal =
           IF latest.round < p.round THEN p ELSE latest
  <2> HIDE DEF u, w, latest
  <2>1. u = may_update_attestable_payload_with_internal_pqc(s, p)
        /\ w = may_update_proposal(u, applied, p)
    BY DEF u, w
  <2> QED  BY <2>1, SettleUpdate DEF latest
<1>4. CASE applied /\ latest = p
  <2>1. o = do_nothing(marked)
    BY <1>4 DEF handle_current_proposal, mark_applied
  <2> HIDE DEF marked, o
  <2> QED  BY <1>1, <2>1 DEF Settles, Quiet, do_nothing, Outcome, o
<1>5. CASE ~(applied /\ latest = p)
           /\ is_acceptable_proposal_for_current_level(s, p) = "Invalid"
  <2>1. o = do_nothing(s)
    BY <1>5 DEF handle_current_proposal
  <2> HIDE DEF o
  <2> QED  BY <2>1 DEF Settles, Quiet, do_nothing, Outcome, o
<1>6. CASE ~(applied /\ latest = p)
           /\ is_acceptable_proposal_for_current_level(s, p) = "Outdated_proposal"
  <2>1. o = do_nothing(w)
    BY <1>6 DEF handle_current_proposal, handle_outdated_proposal
  <2>2. p.round < now
    BY <1>2, <1>6 DEF is_acceptable_proposal_for_current_level
  <2>3. o.state = w /\ Quiet(o)
    <3> HIDE DEF w, o
    <3> QED  BY <2>1 DEF do_nothing, Outcome, Quiet
  <2>4. latest.round < p.round =>
          s.round_state.current_phase = "Idle" /\ s.round_state.early_attestations = {}
    BY <1>2, <2>2 DEF InRound
  <2> HIDE DEF w, o, now, latest
  <2> QED  BY <1>2, <1>3, <2>2, <2>3, <2>4 DEF Settles, now, latest, o
<1>7. CASE ~(applied /\ latest = p)
           /\ is_acceptable_proposal_for_current_level(s, p)
                \notin {"Invalid", "Outdated_proposal"}
  <2>1. o = handle_valid_proposal(s, applied, p)
    BY <1>7 DEF handle_current_proposal
  <2>2. p.round = now
    BY <1>2, <1>7 DEF is_acceptable_proposal_for_current_level
  <2>3. p = latest \/ latest.round < p.round
    BY <1>2, <1>7, <2>2 DEF is_acceptable_proposal_for_current_level, InRound
  <2>4. /\ t \in State(b, B, P, E) /\ t.level_state = w.level_state
        /\ t.round_state = [s.round_state EXCEPT !.early_attestations = {}]
    <3> HIDE DEF w
    <3> QED  BY <1>3 DEF State, RoundState
  <2>5. /\ t.level_state.current_level = s.level_state.current_level
        /\ t.level_state.locked_round = s.level_state.locked_round
        /\ t.level_state.latest_proposal = p
        /\ t.round_state.early_attestations = {}
        /\ t.round_state.current_round = now
        /\ t.round_state.current_phase = s.round_state.current_phase
    <3> HIDE DEF w, t
    <3> QED  BY <1>2, <1>3, <2>3, <2>4 DEF Good, State, RoundState
  <2>6. t.round_state.current_phase # "Idle" => p = latest
    BY <1>2, <2>2, <2>3, <2>5 DEF InRound
  <2> DEFINE x == update_current_phase(t, "Awaiting_preattestations")
             y == update_current_phase(t, "Idle")
             z == [t EXCEPT !.round_state.awaiting_unlocking_pqc = TRUE,
                            !.round_state.current_phase = "Awaiting_preattestations"]
  <2>7. \A v \in {x, y, z} :
          /\ v.level_state = t.level_state
          /\ v.round_state.early_attestations = {}
          /\ v.round_state.current_round = now
    <3> HIDE DEF t
    <3>1. \A ph : LET v == update_current_phase(t, ph)
                  IN  /\ v.level_state = t.level_state
                      /\ v.round_state.early_attestations = {}
                      /\ v.round_state.current_round = now
      BY <2>4, <2>5 DEF update_current_phase, State, RoundState
    <3>2. /\ z.level_state = t.level_state
          /\ z.round_state.early_attestations = {}
          /\ z.round_state.current_round = now
      BY <2>4, <2>5 DEF State, RoundState
    <3> QED  BY <3>1, <3>2
  <2>8. /\ x.round_state.current_phase = "Awaiting_preattestations"
        /\ y.round_state.current_phase = "Idle"
        /\ z.round_state.current_phase = "Awaiting_preattestations"
    <3> HIDE DEF t
    <3> QED  BY <2>4 DEF update_current_phase, State, RoundState
  <2>9. \/ Quiet(o) /\ o.state = t /\ t.round_state.current_phase # "Idle"
        \/ Quiet(o) /\ o.state = y /\ t.round_state.current_phase = "Idle"
        \/ Quiet(o) /\ o.state = z
        \/ /\ o.action = "Prepare_consensus_votes" /\ o.arg = Vote(p) /\ o.state = x
           /\ Unlocked(t.level_state.locked_round, p)
    <3>1. o = IF Unlocked(t.level_state.locked_round, p)
              THEN may_vote(t, p) ELSE watch_unlocking_prequorum(t)
      BY <2>1 DEF handle_valid_proposal, Unlocked
    <3> HIDE DEF t, o
    <3> QED
      BY <3>1 DEF may_vote, prepare_consensus_votes, do_nothing, Outcome,
         watch_unlocking_prequorum, Quiet
  <2> HIDE DEF t, x, y, z, o, now, latest
  <2>10. CASE Quiet(o) /\ o.state = t /\ t.round_state.current_phase # "Idle"
    BY <1>2, <2>5, <2>6, <2>10 DEF Settles, now, latest, o
  <2>11. CASE Quiet(o) /\ o.state = y /\ t.round_state.current_phase = "Idle"
    BY <1>2, <2>2, <2>3, <2>5, <2>7, <2>8, <2>11 DEF Settles, now, latest, o
  <2>12. CASE Quiet(o) /\ o.state = z
    BY <1>2, <2>2, <2>3, <2>5, <2>7, <2>8, <2>12 DEF Settles, now, latest, o
  <2>13. CASE /\ o.action = "Prepare_consensus_votes" /\ o.arg = Vote(p) /\ o.state = x
              /\ Unlocked(t.level_state.locked_round, p)
    BY <1>2, <2>2, <2>3, <2>5, <2>7, <2>8, <2>13 DEF Settles, now, latest, o
  <2> QED  BY <2>9, <2>10, <2>11, <2>12, <2>13
<1> QED  BY <1>4, <1>5, <1>6, <1>7

(* The key fact: what the lock lets a baker vote for is released from all  *)
(* it has attested, by the certificate of its lock or of the proposal.     *)
LEMMA UnlockedIsReleased ==
  ASSUME NEW b, NEW B, NEW P, NEW C, NEW E, Context(B, P, C), PqcBefore(B),
         NEW s, Good(s, b, B, P, C, E),
         NEW p \in B, p.level = s.level_state.current_level,
         Unlocked(s.level_state.locked_round, p),
         s.level_state.locked_round.round <= p.round,
         NEW A, \A a \in A : /\ Ballot(a)
                             /\ a.level = p.level =>
                                  /\ a.round <= s.level_state.locked_round.round
                                  /\ a \in C
  PROVE  Released(Vote(p), A, C)
<1> DEFINE lock == s.level_state.locked_round
<1>1. SUFFICES ASSUME NEW a \in A, a.level = p.level, a.round < p.round,
                      a.payload # p.payload
               PROVE  \E r \in Nat : /\ a.round < r /\ r <= p.round
                                     /\ Cert(p.level, r, p.payload) \in C
  BY DEF Released, Vote
<1>2. /\ a.round \in Nat /\ a.round <= lock.round /\ a \in C
      /\ p.round \in Nat /\ p.pqc \in Nat \union {NoRound} /\ lock.round \in Int
      /\ p.pqc < p.round
  BY <1>1 DEF Ballot, Context, Block, OptRound, NoRound, Good, State, LevelState, Lock,
     PqcBefore
<1>3. lock # NoLock
  BY <1>2 DEF NoLock, NoRound
<1>4. /\ lock.round \in Nat
      /\ Cert(p.level, lock.round, lock.payload) \in C
  BY <1>3 DEF Good, Sound, SoundData, LockIsReal
<1>5. CASE lock.payload = p.payload
  <2>1. a.round # lock.round
    BY <1>1, <1>2, <1>4, <1>5 DEF Context, OnePayload, Cert
  <2> QED  BY <1>2, <1>4, <1>5, <2>1
<1>6. CASE p.pqc # NoRound /\ lock.round < p.pqc
  <2>1. Cert(p.level, p.pqc, p.payload) \in C
    BY <1>6 DEF Context, BlocksAreCertified
  <2> QED  BY <1>2, <1>4, <1>6, <2>1
<1> QED  BY <1>3, <1>5, <1>6 DEF Unlocked

(* Handling a proposal keeps the discipline. *)
LEMMA SettledDiscipline ==
  ASSUME NEW b, NEW B, NEW P, NEW C, NEW E, Context(B, P, C), PqcBefore(B),
         NEW s, Good(s, b, B, P, C, E), InRound(s),
         s.level_state.current_level <= 1 =>
           s.level_state.locked_round.round <= s.level_state.latest_proposal.round,
         NEW R, NEW A, NEW N, Ballots(R, A, N), Disciplined(s, R, A, N, C),
         NEW p \in B, p.level = s.level_state.current_level,
         NEW o, Settles(s, o, p)
  PROVE  DisciplinedOutcome(o, R, A, N, C)
<1> DEFINE l == s.level_state
           r == s.round_state
           m == o.state.level_state
           q == o.state.round_state
<1>1. /\ m.current_level = l.current_level /\ m.locked_round = l.locked_round
      /\ q.current_round = r.current_round
  BY DEF Settles
<1>2. /\ p.round \in Nat /\ p.level \in Nat /\ r.current_round \in Nat
      /\ l.latest_proposal.round \in Nat /\ l.locked_round.round \in Int
      /\ l.current_level \in Nat
  BY DEF Context, Block, Good, State, LevelState, RoundState, Lock, OptRound, NoRound
<1>3. /\ \A v \in A : AttestedInTime(o.state, v) /\ (v.level <= 1 => v \in C)
      /\ \A v \in N : v.level <= m.current_level
      /\ \A v \in N : v.level <= 1 => Released(v, A, C)
      /\ \A x \in R : x.kind = "preattestation" /\ x.content.level <= 1 =>
                        Released(x.content, A, C)
  BY <1>1 DEF Disciplined, AttestedInTime, PreattestedInTime, Here
<1>4. CASE /\ Quiet(o)
           /\ m.latest_proposal = l.latest_proposal
           /\ q.current_phase = r.current_phase
           /\ q.early_attestations \subseteq r.early_attestations
  <2>1. /\ KeepsRound(o.state)
        /\ \A v : AskedInTime(s, v) => AskedInTime(o.state, v)
        /\ \A v : PreattestedInTime(s, v) => PreattestedInTime(o.state, v)
    BY <1>1, <1>4 DEF Disciplined, KeepsRound, AskedInTime, PreattestedInTime, Here
  <2>2. Disciplined(o.state, R, A, N, C)
    BY <1>3, <2>1 DEF Disciplined
  <2> QED  BY <1>4, <2>2, QuietDiscipline
<1>5. CASE /\ Quiet(o)
           /\ m.latest_proposal = p /\ l.latest_proposal.round < p.round
           /\ p.round <= r.current_round
           /\ q.current_phase = "Idle" /\ q.early_attestations = {}
  <2>1. KeepsRound(o.state)
    BY <1>5 DEF KeepsRound
  <2>2. ASSUME NEW v, AskedInTime(s, v)  PROVE AskedInTime(o.state, v)
    BY <1>1, <1>2, <1>5, <2>2 DEF AskedInTime, Here
  <2>3. ASSUME NEW v \in N  PROVE PreattestedInTime(o.state, v)
    <3>1. PreattestedInTime(s, v) /\ v.round \in Nat
      BY DEF Disciplined, Ballots, Ballot
    <3> QED  BY <1>1, <1>2, <1>5, <3>1 DEF PreattestedInTime, Here
  <2>4. Disciplined(o.state, R, A, N, C)
    BY <1>3, <2>1, <2>2, <2>3 DEF Disciplined
  <2> QED  BY <1>5, <2>4, QuietDiscipline
<1>6. CASE /\ m.latest_proposal = p /\ p.round = r.current_round
           /\ p = l.latest_proposal \/ l.latest_proposal.round < p.round
           /\ q.current_phase = "Awaiting_preattestations"
           /\ q.early_attestations = {}
           /\ \/ Quiet(o)
              \/ /\ o.action = "Prepare_consensus_votes" /\ o.arg = Vote(p)
                 /\ Unlocked(l.locked_round, p)
  <2>1. KeepsRound(o.state)
    BY <1>6 DEF KeepsRound
  <2>2. ASSUME NEW v, AskedInTime(s, v)  PROVE AskedInTime(o.state, v)
    BY <1>1, <1>2, <1>6, <2>2 DEF AskedInTime, Here
  <2>3. ASSUME NEW v \in N  PROVE PreattestedInTime(o.state, v)
    <3>1. PreattestedInTime(s, v) /\ v.round \in Nat
      BY DEF Disciplined, Ballots, Ballot
    <3> QED  BY <1>1, <1>2, <1>6, <3>1 DEF PreattestedInTime, Here
  <2>4. Disciplined(o.state, R, A, N, C)
    BY <1>3, <2>1, <2>2, <2>3 DEF Disciplined
  <2>5. CASE Quiet(o)
    BY <2>4, <2>5, QuietDiscipline
  <2>6. CASE /\ o.action = "Prepare_consensus_votes" /\ o.arg = Vote(p)
             /\ Unlocked(l.locked_round, p)
    <3>1. AskedInTime(o.state, Vote(p))
      BY <1>1, <1>2, <1>6 DEF AskedInTime, Here, Vote
    <3>2. Vote(p).level = p.level
      BY DEF Vote
    <3>3. ASSUME p.level <= 1  PROVE Released(Vote(p), A, C)
      <4>1. l.locked_round.round <= p.round
        BY <1>2, <1>6, <3>3
      <4>2. ASSUME NEW a \in A
            PROVE  /\ Ballot(a)
                   /\ a.level = p.level => a.round <= l.locked_round.round /\ a \in C
        BY <3>3 DEF Ballots, Disciplined, AttestedInTime, Here
      <4> QED  BY <2>6, <4>1, <4>2, UnlockedIsReleased
    <3>4. /\ Asks(o) = {request("preattestation", Vote(p)),
                        request("attestation", Vote(p))}
          /\ Attests(o) = {} /\ Preattests(o) = {}
      BY <2>6 DEF Asks, Attests, Preattests
    <3>5. \A x \in Asks(o) : x.content = Vote(p)
      BY <3>4 DEF request
    <3>6. Disciplined(o.state, R \union Asks(o), A, N, C)
      BY <2>4, <3>1, <3>2, <3>3, <3>5 DEF Disciplined
    <3> QED  BY <3>4, <3>6 DEF DisciplinedOutcome
  <2> QED  BY <1>6, <2>5, <2>6
<1> QED  BY <1>4, <1>5, <1>6 DEF Settles

(* Up to level 1 there is one branch. *)
OneBranch(B) ==
  \A p, q \in B : p.level = q.level /\ p.level <= 1 => predecessor(p) = predecessor(q)

(* A disciplined state that is in time is in its round. *)
LEMMA TimelyInRound ==
  ASSUME NEW s, NEW F, Timely(s, F), NEW R, NEW A, NEW N, NEW C,
         Disciplined(s, R, A, N, C)
  PROVE  /\ InRound(s)
         /\ s.level_state.locked_round.round <= s.level_state.latest_proposal.round
BY DEF Timely, Disciplined, KeepsRound, InRound

(* A state that enters a round and a level, or a branch of a level after   *)
(* the first, has nothing to keep.                                         *)
LEMMA EnteredDiscipline ==
  ASSUME NEW s, NEW R, NEW A, NEW N, NEW C, Disciplined(s, R, A, N, C),
         Ballots(R, A, N), NEW t, NEW now, t.round_state = NewRoundState(now),
         s.level_state.current_level \in Nat, t.level_state.current_level \in Nat,
         \/ s.level_state.current_level < t.level_state.current_level
         \/ /\ s.level_state.current_level = t.level_state.current_level
            /\ s.level_state.current_level > 1
  PROVE  Disciplined(t, R, A, N, C)
<1>1. KeepsRound(t)
  BY DEF KeepsRound, NewRoundState
<1>2. ASSUME NEW v, Ballot(v), v.level <= s.level_state.current_level
      PROVE  v.level <= t.level_state.current_level /\ ~Here(v, t)
  BY <1>2 DEF Ballot, Here
<1>3. /\ \A x \in R : x.kind # "block" => AskedInTime(t, x.content)
      /\ \A v \in A : AttestedInTime(t, v)
      /\ \A v \in N : PreattestedInTime(t, v)
  BY <1>2 DEF Disciplined, Ballots, AskedInTime, AttestedInTime, PreattestedInTime
<1> QED  BY <1>1, <1>3 DEF Disciplined

(* A proposal of a later level. *)
LEMMA LevelDiscipline ==
  ASSUME NEW b, NEW B, NEW P, NEW C, NEW E, Context(B, P, C), PqcBefore(B),
         NEW s, Good(s, b, B, P, C, E), NEW applied \in BOOLEAN,
         NEW R, NEW A, NEW N, Ballots(R, A, N), Disciplined(s, R, A, N, C),
         NEW p \in B, s.level_state.current_level < p.level,
         NEW now \in Nat, p.round <= now
  PROVE  DisciplinedOutcome(update_to_level(s, applied, p, now), R, A, N, C)
<1> DEFINE t == [s EXCEPT !.level_state = NewLevelState(p, applied, None),
                          !.round_state = NewRoundState(now)]
           h == handle_current_proposal(t, applied, p)
           o == update_to_level(s, applied, p, now)
<1>1. Good(t, b, B, P, C, E)
  BY NewLevel
<1>2. t.level_state = NewLevelState(p, applied, None) /\ t.round_state = NewRoundState(now)
  BY DEF Good, State
<1>3. p.round \in Nat /\ p.level \in Nat /\ s.level_state.current_level \in Nat
      /\ B \subseteq Block(P)
  BY DEF Context, Block, Good, State, LevelState
<1>4. /\ t.level_state.current_level = p.level /\ t.level_state.latest_proposal = p
      /\ t.level_state.locked_round.round <= p.round
      /\ InRound(t)
  BY <1>2, <1>3 DEF InRound, NewLevelState, NewRoundState, NoLock, NoRound
<1>5. o.state = h.state /\ o.action = h.action /\ o.arg = h.arg
  BY DEF update_to_level, handle_current_proposal, handle_valid_proposal,
     handle_outdated_proposal, may_vote, prepare_consensus_votes, mark_applied,
     watch_unlocking_prequorum, do_nothing, Outcome
<1> HIDE DEF t, o
<1>6. Disciplined(t, R, A, N, C)
  BY <1>2, <1>3, <1>4, EnteredDiscipline
<1>7. Settles(t, h, p)
  BY <1>1, <1>3, <1>4, Settle
<1> HIDE DEF h
<1>8. DisciplinedOutcome(h, R, A, N, C)
  BY <1>1, <1>4, <1>6, <1>7, SettledDiscipline
<1> QED  BY <1>5, <1>8 DEF DisciplinedOutcome, Asks, Attests, Preattests, o

(* A proposal of another branch. *)
LEMMA SynchronizeDiscipline ==
  ASSUME NEW b, NEW B, NEW P, NEW C, NEW E, Context(B, P, C), PqcBefore(B),
         NEW s, Good(s, b, B, P, C, E), NEW applied \in BOOLEAN,
         NEW R, NEW A, NEW N, Ballots(R, A, N), Disciplined(s, R, A, N, C),
         NEW p \in B, s.level_state.current_level = p.level, p.level > 1,
         NEW now \in Nat, p.round <= now
  PROVE  DisciplinedOutcome(synchronize_round(s, applied, p, now), R, A, N, C)
<1> DEFINE t == update_proposal(s, applied, p)
           u == [t EXCEPT !.round_state = NewRoundState(now)]
           h == handle_current_proposal(u, applied, p)
           o == synchronize_round(s, applied, p, now)
<1>1. Good(t, b, B, P, C, E)
  BY UpdateProposal
<1>2. t.level_state.latest_proposal = p /\ t.level_state.current_level = p.level
  BY DEF Good, State, LevelState, update_proposal
<1>3. /\ Good(u, b, B, P, C, E)
      /\ u.level_state = t.level_state /\ u.round_state = NewRoundState(now)
  <2> HIDE DEF t
  <2>1. u.level_state = t.level_state /\ u.round_state = NewRoundState(now)
    BY <1>1 DEF Good, State
  <2> QED  BY <1>1, <2>1, NewRound
<1>4. p.round \in Nat /\ p.level \in Nat /\ s.level_state.current_level \in Nat
      /\ B \subseteq Block(P)
  BY DEF Context, Block, Good, State, LevelState
<1>5. o.state = h.state /\ o.action = h.action /\ o.arg = h.arg
  BY DEF synchronize_round, handle_current_proposal, handle_valid_proposal,
     handle_outdated_proposal, may_vote, prepare_consensus_votes, mark_applied,
     watch_unlocking_prequorum, do_nothing, Outcome
<1> HIDE DEF t, u, o
<1>6. InRound(u) /\ u.level_state.latest_proposal = p
      /\ u.level_state.current_level = p.level
  BY <1>2, <1>3, <1>4 DEF InRound, NewRoundState
<1>7. Disciplined(u, R, A, N, C)
  BY <1>3, <1>4, <1>6, EnteredDiscipline
<1>8. Settles(u, h, p)
  BY <1>3, <1>4, <1>6, Settle
<1> HIDE DEF h
<1>9. ~(u.level_state.current_level <= 1)
  BY <1>4, <1>6
<1>10. DisciplinedOutcome(h, R, A, N, C)
  BY <1>3, <1>6, <1>7, <1>8, <1>9, SettledDiscipline
<1> QED  BY <1>5, <1>10 DEF DisciplinedOutcome, Asks, Attests, Preattests, o

(* Doing nothing. *)
LEMMA IdleDiscipline ==
  ASSUME NEW s, NEW R, NEW A, NEW N, NEW C, Disciplined(s, R, A, N, C)
  PROVE  DisciplinedOutcome(do_nothing(s), R, A, N, C)
<1>1. Quiet(do_nothing(s)) /\ do_nothing(s).state = s
  BY DEF Quiet, do_nothing, Outcome
<1> QED  BY <1>1, QuietDiscipline

(* A proposal of any level. *)
LEMMA ProposalDiscipline ==
  ASSUME NEW b, NEW B, NEW P, NEW C, NEW E, NEW F, Context(B, P, C), PqcBefore(B),
         OneBranch(B),
         NEW s, Good(s, b, B, P, C, E), Timely(s, F), NEW applied \in BOOLEAN,
         NEW R, NEW A, NEW N, Ballots(R, A, N), Disciplined(s, R, A, N, C),
         NEW p \in B, NEW now \in Nat, p.round <= now
  PROVE  DisciplinedOutcome(handle_proposal(s, applied, p, now), R, A, N, C)
<1> DEFINE latest == s.level_state.latest_proposal
           level == s.level_state.current_level
           marked == [s EXCEPT !.level_state.is_latest_proposal_applied = TRUE]
<1>1. /\ level \in Nat /\ p.level \in Nat /\ latest \in B /\ latest.level = level
      /\ B \subseteq Block(P)
  BY DEF Good, State, LevelState, Sound, Context, Block
<1>2. InRound(s) /\ s.level_state.locked_round.round <= latest.round
  BY TimelyInRound
<1>3. CASE applied /\ latest = p
  <2>1. handle_proposal(s, applied, p, now) = do_nothing(marked)
    <3>1. ~(level < p.level)
      BY <1>1, <1>3
    <3>2. handle_proposal(s, applied, p, now) = mark_applied(s)
      BY <1>3, <3>1 DEF handle_proposal
    <3> QED  BY <3>2 DEF mark_applied
  <2>2. /\ marked.round_state = s.round_state
        /\ marked.level_state.current_level = s.level_state.current_level
        /\ marked.level_state.locked_round = s.level_state.locked_round
        /\ marked.level_state.latest_proposal = latest
    BY DEF Good, State, LevelState
  <2> HIDE DEF marked
  <2>3. Disciplined(marked, R, A, N, C)
    BY <2>2 DEF Disciplined, KeepsRound, AskedInTime, AttestedInTime,
       PreattestedInTime, Here
  <2> QED  BY <2>1, <2>3, IdleDiscipline
<1>4. CASE ~(applied /\ latest = p) /\ level > p.level
  <2>1. handle_proposal(s, applied, p, now) = do_nothing(s)
    BY <1>1, <1>4 DEF handle_proposal
  <2> QED  BY <2>1, IdleDiscipline
<1>5. CASE ~(applied /\ latest = p) /\ level < p.level
  <2>1. handle_proposal(s, applied, p, now) = update_to_level(s, applied, p, now)
    BY <1>1, <1>5 DEF handle_proposal
  <2> QED  BY <1>5, <2>1, LevelDiscipline
<1>6. CASE ~(applied /\ latest = p) /\ level = p.level /\ predecessor(latest) # predecessor(p)
  <2>1. p.level > 1
    BY <1>1, <1>6 DEF OneBranch
  <2>2. handle_proposal(s, applied, p, now) = may_switch_branch(s, applied, p, now)
    BY <1>1, <1>6 DEF handle_proposal
  <2>3. \/ handle_proposal(s, applied, p, now) = synchronize_round(s, applied, p, now)
        \/ handle_proposal(s, applied, p, now) = do_nothing(s)
    BY <2>2 DEF may_switch_branch
  <2> QED  BY <1>6, <2>1, <2>3, SynchronizeDiscipline, IdleDiscipline
<1>7. CASE ~(applied /\ latest = p) /\ level = p.level /\ predecessor(latest) = predecessor(p)
  <2>1. handle_proposal(s, applied, p, now) = handle_current_proposal(s, applied, p)
    BY <1>1, <1>7 DEF handle_proposal
  <2> DEFINE o == handle_current_proposal(s, applied, p)
  <2>2. Settles(s, o, p)
    BY <1>1, <1>2, <1>7, Settle
  <2> HIDE DEF o
  <2>3. DisciplinedOutcome(o, R, A, N, C)
    BY <1>2, <1>7, <2>2, SettledDiscipline
  <2> QED  BY <2>1, <2>3 DEF o
<1> QED  BY <1>1, <1>3, <1>4, <1>5, <1>6, <1>7

(* A change that the discipline does not see, or that leaves the phase     *)
(* after the prequorum.                                                    *)
LEMMA PhaseDiscipline ==
  ASSUME NEW s, NEW R, NEW A, NEW N, NEW C, Disciplined(s, R, A, N, C), NEW t,
         t.level_state.current_level = s.level_state.current_level,
         t.level_state.latest_proposal = s.level_state.latest_proposal,
         t.level_state.locked_round = s.level_state.locked_round,
         t.round_state.current_round = s.round_state.current_round,
         t.round_state.early_attestations = s.round_state.early_attestations,
         \/ t.round_state.current_phase = s.round_state.current_phase
         \/ s.round_state.current_phase \in
              {"Awaiting_attestations", "Awaiting_application"}
  PROVE  Disciplined(t, R, A, N, C)
<1>1. KeepsRound(t)
  BY DEF Disciplined, KeepsRound
<1>2. \A v : AskedInTime(s, v) => AskedInTime(t, v)
  BY DEF Disciplined, KeepsRound, AskedInTime, Here
<1>3. \A v : /\ AttestedInTime(s, v) => AttestedInTime(t, v)
             /\ PreattestedInTime(s, v) => PreattestedInTime(t, v)
  BY DEF AttestedInTime, PreattestedInTime, Here
<1> QED  BY <1>1, <1>2, <1>3 DEF Disciplined

(* The events New_head_proposal and New_valid_proposal. *)
LEMMA AnnouncedDiscipline ==
  ASSUME NEW b, NEW B, NEW P, NEW C, NEW E, NEW F, Context(B, P, C), PqcBefore(B),
         OneBranch(B), NEW s, Good(s, b, B, P, C, E), Timely(s, F),
         NEW R, NEW A, NEW N, Ballots(R, A, N), Disciplined(s, R, A, N, C),
         NEW p \in B, NEW now \in Nat, p.round <= now
  PROVE  /\ DisciplinedOutcome(New_head_proposal(s, p, now), R, A, N, C)
         /\ DisciplinedOutcome(New_valid_proposal(s, p, now), R, A, N, C)
<1>1. \A applied \in BOOLEAN :
        DisciplinedOutcome(handle_proposal(s, applied, p, now), R, A, N, C)
  BY ProposalDiscipline
<1>2. ASSUME s.round_state.current_phase = "Awaiting_application"
      PROVE  DisciplinedOutcome(handle_expected_applied_proposal(s), R, A, N, C)
  <2> DEFINE e == [s EXCEPT !.level_state.elected_block = s.level_state.latest_proposal]
             a == [s EXCEPT !.level_state.is_latest_proposal_applied = TRUE]
  <2>1. \E t \in {e, a} :
          handle_expected_applied_proposal(s) = do_nothing(update_current_phase(t, "Idle"))
    BY DEF handle_expected_applied_proposal
  <2>2. PICK t \in {e, a} :
          handle_expected_applied_proposal(s) = do_nothing(update_current_phase(t, "Idle"))
    BY <2>1
  <2>3. /\ t \in State(b, B, P, E)
        /\ t.round_state = s.round_state
        /\ t.level_state.current_level = s.level_state.current_level
        /\ t.level_state.latest_proposal = s.level_state.latest_proposal
        /\ t.level_state.locked_round = s.level_state.locked_round
    <3>1. CASE t = e
      BY <3>1 DEF Good, State, LevelState
    <3>2. CASE t = a
      BY <3>2 DEF Good, State, LevelState
    <3> QED  BY <3>1, <3>2
  <2> DEFINE u == update_current_phase(t, "Idle")
  <2>4. /\ u.level_state = t.level_state
        /\ u.round_state.current_round = s.round_state.current_round
        /\ u.round_state.early_attestations = s.round_state.early_attestations
    BY <2>3 DEF State, RoundState, update_current_phase
  <2> HIDE DEF u
  <2>5. Disciplined(u, R, A, N, C)
    BY <1>2, <2>3, <2>4, PhaseDiscipline
  <2> QED  BY <2>2, <2>5, IdleDiscipline DEF u
<1> QED  BY <1>1, <1>2, IdleDiscipline DEF New_head_proposal, New_valid_proposal

(***************************************************************************)
(* Quorums, forged votes and timeouts                                      *)
(***************************************************************************)
(* The latest proposal is attested: it is certified, it is locked, and     *)
(* nothing was preattested beyond it.                                      *)
LEMMA AttestDiscipline ==
  ASSUME NEW b, NEW B, NEW P, NEW C, NEW E, Context(B, P, C),
         NEW s, Good(s, b, B, P, C, E),
         NEW R, NEW A, NEW N, Ballots(R, A, N), Disciplined(s, R, A, N, C),
         NEW v, v = Vote(s.level_state.latest_proposal),
         v.level <= 1 => v \in C /\ v.round <= s.level_state.locked_round.round
  PROVE  Disciplined(s, R, A \union {v}, N, C)
<1> DEFINE latest == s.level_state.latest_proposal
<1>1. /\ v.level = s.level_state.current_level /\ v.round = latest.round
      /\ v.level \in Nat /\ v.round \in Nat
  BY DEF Good, State, LevelState, Sound, Context, Block, Vote
<1>2. AttestedInTime(s, v)
  BY <1>1 DEF AttestedInTime, Here
<1>3. ASSUME NEW w, Released(w, A, C), w.round \in Nat,
             w.level = v.level => w.round <= v.round
      PROVE  Released(w, A \union {v}, C)
  BY <1>1, <1>3 DEF Released
<1>4. ASSUME NEW w \in N, w.level <= 1  PROVE Released(w, A \union {v}, C)
  <2>1. Released(w, A, C) /\ w.round \in Nat
    BY <1>4 DEF Disciplined, Ballots, Ballot
  <2>2. w.level = v.level => w.round <= v.round
    BY <1>1, <1>4 DEF Disciplined, PreattestedInTime, Here
  <2> QED  BY <1>3, <2>1, <2>2
<1>5. ASSUME NEW x \in R, x.kind = "preattestation", x.content.level <= 1
      PROVE  Released(x.content, A \union {v}, C)
  <2>1. Released(x.content, A, C) /\ x.content.round \in Nat
    BY <1>5 DEF Disciplined, Ballots, Ballot
  <2>2. x.content.level = v.level => x.content = v
    BY <1>1, <1>5 DEF Disciplined, AskedInTime, Here
  <2> QED  BY <1>1, <1>3, <2>1, <2>2
<1> QED  BY <1>2, <1>4, <1>5 DEF Disciplined

(* A prequorum. *)
LEMMA PrequorumDiscipline ==
  ASSUME NEW b, NEW B, NEW P, NEW C, NEW E, NEW F, Context(B, P, C),
         NEW s, Good(s, b, B, P, C, E), Timely(s, F),
         NEW R, NEW A, NEW N, Ballots(R, A, N), Disciplined(s, R, A, N, C),
         NEW candidate \in B, Vote(candidate) \in C
  PROVE  DisciplinedOutcome(Prequorum_reached(s, candidate), R, A, N, C)
<1> DEFINE latest == s.level_state.latest_proposal
           t == [s EXCEPT
                   !.level_state.attestable_payload =
                      IF @.prequorum < latest.round
                      THEN [proposal |-> latest, prequorum |-> latest.round] ELSE @,
                   !.level_state.locked_round = LockOn(latest),
                   !.round_state.current_phase = "Awaiting_attestations"]
           early == s.round_state.early_attestations
           dropped == [t EXCEPT !.round_state.early_attestations = {}]
           o == Prequorum_reached(s, candidate)
<1>1. CASE s.round_state.current_phase # "Awaiting_preattestations" \/ candidate # latest
  <2>1. o = do_nothing(s)
    BY <1>1 DEF Prequorum_reached, prequorum_reached_when_awaiting_preattestations
  <2> QED  BY <2>1, IdleDiscipline
<1>2. CASE s.round_state.current_phase = "Awaiting_preattestations" /\ candidate = latest
  <2>1. /\ latest \in B /\ latest.round \in Nat /\ latest.level \in Nat
        /\ s.level_state.locked_round.round \in Int
        /\ s.level_state.current_level = latest.level
        /\ Vote(latest) \in C
    BY <1>2 DEF Good, State, LevelState, Sound, Context, Block, Lock, OptRound, NoRound
  <2>2. /\ s.round_state.current_round = latest.round
        /\ s.level_state.locked_round.round <= latest.round
    BY <1>2 DEF Timely
  <2>3. /\ t.level_state.current_level = s.level_state.current_level
        /\ t.level_state.latest_proposal = latest
        /\ t.level_state.locked_round = LockOn(latest)
        /\ t.round_state = [s.round_state EXCEPT !.current_phase = "Awaiting_attestations"]
    BY DEF Good, State, LevelState
  <2>4. /\ t.round_state.current_phase = "Awaiting_attestations"
        /\ t.round_state.current_round = latest.round
        /\ t.round_state.early_attestations = early
    <3> HIDE DEF t
    <3> QED  BY <2>2, <2>3 DEF Good, State, RoundState
  <2> HIDE DEF t
  <2>5. dropped.level_state = t.level_state
        /\ dropped.round_state.current_phase = "Awaiting_attestations"
        /\ dropped.round_state.current_round = latest.round
        /\ dropped.round_state.early_attestations = {}
    <3>1. Good(s, b, B, P, C, E) => t.round_state \in RoundState(E)
      BY <2>3 DEF Good, State, RoundState, Phases
    <3>2. dropped.level_state = t.level_state
          /\ dropped.round_state = [t.round_state EXCEPT !.early_attestations = {}]
      BY DEF t
    <3> QED  BY <2>4, <3>1, <3>2 DEF RoundState
  <2> HIDE DEF dropped, early
  <2>6. Disciplined(t, R, A, N, C) /\ Disciplined(dropped, R, A, N, C)
    <3>1. KeepsRound(t) /\ KeepsRound(dropped)
      BY <2>2, <2>3, <2>4, <2>5 DEF Disciplined, KeepsRound, early
    <3>2. \A v : AskedInTime(s, v) => AskedInTime(t, v) /\ AskedInTime(dropped, v)
      BY <2>2, <2>3, <2>4, <2>5 DEF AskedInTime, Here
    <3>3. ASSUME NEW v \in A  PROVE AttestedInTime(t, v) /\ AttestedInTime(dropped, v)
      <4>1. AttestedInTime(s, v) /\ v.round \in Nat
        BY DEF Disciplined, Ballots, Ballot
      <4>2. LockOn(latest).round = latest.round
        BY DEF LockOn
      <4> QED  BY <2>1, <2>2, <2>3, <2>5, <4>1, <4>2 DEF AttestedInTime, Here
    <3>4. \A v : PreattestedInTime(s, v) =>
                   PreattestedInTime(t, v) /\ PreattestedInTime(dropped, v)
      BY <2>3, <2>5 DEF PreattestedInTime, Here
    <3> QED  BY <3>1, <3>2, <3>3, <3>4 DEF Disciplined
  <2> DEFINE v == Vote(latest)
  <2>7. v.level = latest.level /\ v.round = latest.round
    BY DEF Vote
  <2>8. \/ o = Outcome(t, "Prepare_attestations", v)
        \/ o = Outcome(t, "Watch_quorum", None)
        \/ o = do_nothing(dropped)
        \/ o = Outcome(dropped, "Inject_attestations", early) /\ early # {}
    <3>1. o \in {Outcome(t, "Prepare_attestations", v),
                 may_inject_early_forged_attestations(t)}
      BY <1>2 DEF Prequorum_reached, prequorum_reached_when_awaiting_preattestations,
         t, LockOn
    <3>2. may_inject_early_forged_attestations(t) =
            IF early = {} THEN Outcome(t, "Watch_quorum", None)
            ELSE may_inject_attestations(dropped, early)
      BY <2>4 DEF may_inject_early_forged_attestations, dropped
    <3>3. may_inject_attestations(dropped, early) \in
            {Outcome(dropped, "Inject_attestations", early), do_nothing(dropped)}
      BY DEF may_inject_attestations
    <3> HIDE DEF o, v
    <3> QED  BY <3>1, <3>2, <3>3
  <2> HIDE DEF o, v, latest
  <2>9. CASE o = Outcome(t, "Prepare_attestations", v)
    <3>1. AskedInTime(t, v)
      BY <2>1, <2>2, <2>3, <2>4, <2>7 DEF AskedInTime, v, Here
    <3>2. /\ o.state = t /\ Asks(o) = {request("attestation", v)}
          /\ Attests(o) = {} /\ Preattests(o) = {}
      BY <2>9 DEF Outcome, Asks, Attests, Preattests
    <3>3. \A x \in Asks(o) : x.content = v /\ x.kind = "attestation"
      <4> HIDE DEF o
      <4> QED  BY <3>2 DEF request
    <3>4. Disciplined(t, R \union Asks(o), A, N, C)
      BY <2>6, <3>1, <3>3 DEF Disciplined
    <3> QED  BY <3>2, <3>4 DEF DisciplinedOutcome, o
  <2>10. CASE o = Outcome(t, "Watch_quorum", None)
    <3>1. Quiet(o) /\ o.state = t
      BY <2>10 DEF Quiet, Outcome
    <3>2. DisciplinedOutcome(o, R, A, N, C)
      BY <2>6, <3>1, QuietDiscipline
    <3> QED  BY <3>2 DEF o
  <2>11. CASE o = do_nothing(dropped)
    <3>1. DisciplinedOutcome(o, R, A, N, C)
      BY <2>6, <2>11, IdleDiscipline
    <3> QED  BY <3>1 DEF o
  <2>12. CASE o = Outcome(dropped, "Inject_attestations", early) /\ early # {}
    <3>1. early = {v}
      BY <2>12 DEF Disciplined, KeepsRound, early, v, latest
    <3>2. /\ o.state = dropped /\ Asks(o) = {} /\ Attests(o) = {v} /\ Preattests(o) = {}
      BY <2>12, <3>1 DEF Outcome, Asks, Attests, Preattests
    <3>3. Disciplined(dropped, R, A \union {v}, N, C)
      <4>1. Good(dropped, b, B, P, C, E)
        <5>1. GoodOutcome(o, b, B, P, C, E, {}, {})
          BY PrequorumReached DEF o
        <5> QED  BY <3>2, <5>1 DEF GoodOutcome
      <4>2. v = Vote(dropped.level_state.latest_proposal)
        BY <2>3, <2>5 DEF v
      <4>3. v \in C /\ v.round <= dropped.level_state.locked_round.round
        BY <2>1, <2>3, <2>5, <2>7 DEF v, LockOn
      <4> QED  BY <2>6, <4>1, <4>2, <4>3, AttestDiscipline
    <3>4. DisciplinedOutcome(o, R, A, N, C)
      BY <2>3, <2>5, <3>2, <3>3 DEF DisciplinedOutcome, v
    <3> QED  BY <3>4 DEF o
  <2> QED  BY <2>8, <2>9, <2>10, <2>11, <2>12
<1> QED  BY <1>1, <1>2

(* A quorum. *)
LEMMA QuorumDiscipline ==
  ASSUME NEW b, NEW B, NEW P, NEW C, NEW E,
         NEW s, Good(s, b, B, P, C, E),
         NEW R, NEW A, NEW N, Disciplined(s, R, A, N, C), NEW candidate
  PROVE  DisciplinedOutcome(Quorum_reached(s, candidate), R, A, N, C)
<1> DEFINE latest == s.level_state.latest_proposal
           e == [s EXCEPT !.level_state.elected_block = latest,
                          !.round_state.current_phase = "Idle"]
           d == [s EXCEPT !.round_state.current_phase = "Awaiting_application",
                          !.round_state.delayed_quorum = TRUE]
<1>1. CASE s.round_state.current_phase # "Awaiting_attestations"
  <2>1. Quorum_reached(s, candidate) = do_nothing(s)
    BY <1>1 DEF Quorum_reached
  <2> QED  BY <2>1, IdleDiscipline
<1>2. CASE s.round_state.current_phase = "Awaiting_attestations"
  <2>1. \/ Quorum_reached(s, candidate) = do_nothing(s)
        \/ Quorum_reached(s, candidate) = do_nothing(e)
        \/ Quorum_reached(s, candidate) = do_nothing(d)
    BY <1>2 DEF Quorum_reached, quorum_reached_when_waiting_attestations
  <2>2. /\ e.level_state.current_level = s.level_state.current_level
        /\ e.level_state.latest_proposal = latest
        /\ e.level_state.locked_round = s.level_state.locked_round
        /\ e.round_state.current_round = s.round_state.current_round
        /\ e.round_state.early_attestations = s.round_state.early_attestations
    BY DEF Good, State, LevelState, RoundState
  <2>3. /\ d.level_state = s.level_state
        /\ d.round_state.current_round = s.round_state.current_round
        /\ d.round_state.early_attestations = s.round_state.early_attestations
    BY DEF Good, State, RoundState
  <2> HIDE DEF e, d
  <2>4. Disciplined(e, R, A, N, C)
    BY <1>2, <2>2, PhaseDiscipline
  <2>5. Disciplined(d, R, A, N, C)
    BY <1>2, <2>3, PhaseDiscipline
  <2> QED  BY <2>1, <2>4, <2>5, IdleDiscipline
<1> QED  BY <1>1, <1>2

(* A signed preattestation comes back. *)
LEMMA ForgedPreattestation ==
  ASSUME NEW b, NEW B, NEW P, NEW C, NEW E, Context(B, P, C),
         NEW s, Good(s, b, B, P, C, E),
         NEW R, NEW A, NEW N, Disciplined(s, R, A, N, C),
         NEW x \in R, x.kind = "preattestation"
  PROVE  DisciplinedOutcome(handle_forged_preattestation(s, x.content), R, A, N, C)
<1> DEFINE v == x.content
           o == Outcome(s, "Inject_preattestation", v)
<1>1. handle_forged_preattestation(s, v) \in {o, do_nothing(s)}
  BY DEF handle_forged_preattestation
<1>2. /\ o.state = s /\ Asks(o) = {} /\ Attests(o) = {} /\ Preattests(o) = {v}
  BY DEF Outcome, Asks, Attests, Preattests
<1>3. s.level_state.latest_proposal.round \in Nat
  BY DEF Good, State, LevelState, Context, Block
<1>4. PreattestedInTime(s, v)
  <2>1. AskedInTime(s, v)
    BY DEF Disciplined
  <2>2. Here(v, s) => v.round = s.level_state.latest_proposal.round
    BY <2>1 DEF AskedInTime, Vote
  <2> QED  BY <1>3, <2>1, <2>2 DEF AskedInTime, PreattestedInTime
<1>5. v.level <= 1 => Released(v, A, C)
  BY DEF Disciplined
<1> HIDE DEF o, v
<1>6. Disciplined(s, R, A, N \union {v}, C)
  BY <1>4, <1>5 DEF Disciplined
<1>7. DisciplinedOutcome(o, R, A, N, C)
  BY <1>2, <1>6 DEF DisciplinedOutcome
<1> QED  BY <1>1, <1>7, IdleDiscipline DEF v

(* A signed attestation comes back: it is kept back until the prequorum,   *)
(* or sent when the proposal is locked.                                    *)
LEMMA ForgedAttestation ==
  ASSUME NEW b, NEW B, NEW P, NEW C, NEW E, NEW F, Context(B, P, C),
         NEW s, Good(s, b, B, P, C, E), Timely(s, F),
         NEW R, NEW A, NEW N, Ballots(R, A, N), Disciplined(s, R, A, N, C),
         NEW x \in R, x.kind = "attestation"
  PROVE  DisciplinedOutcome(handle_forged_attestation(s, x.content), R, A, N, C)
<1> DEFINE v == x.content
           latest == s.level_state.latest_proposal
           t == [s EXCEPT !.round_state.early_attestations = @ \union {v}]
           o == Outcome(s, "Inject_attestations", {v})
<1>1. CASE v # Vote(latest)
  <2>1. handle_forged_attestation(s, v) = do_nothing(s)
    BY <1>1 DEF handle_forged_attestation
  <2> QED  BY <2>1, IdleDiscipline
<1>2. CASE v = Vote(latest) /\ s.round_state.current_phase = "Awaiting_preattestations"
  <2>1. handle_forged_attestation(s, v) = do_nothing(t)
    BY <1>2 DEF handle_forged_attestation
  <2>2. /\ t.level_state = s.level_state
        /\ t.round_state.current_phase = s.round_state.current_phase
        /\ t.round_state.current_round = s.round_state.current_round
        /\ t.round_state.early_attestations =
             s.round_state.early_attestations \union {v}
    BY DEF Good, State, RoundState
  <2>3. s.round_state.current_round = latest.round
    BY <1>2 DEF Timely
  <2> HIDE DEF t
  <2>4. KeepsRound(t)
    BY <1>2, <2>2, <2>3 DEF Disciplined, KeepsRound
  <2>5. \A w : AskedInTime(s, w) => AskedInTime(t, w)
    BY <2>2 DEF AskedInTime, Here
  <2>6. \A w : /\ AttestedInTime(s, w) => AttestedInTime(t, w)
               /\ PreattestedInTime(s, w) => PreattestedInTime(t, w)
    BY <2>2 DEF AttestedInTime, PreattestedInTime, Here
  <2>7. Disciplined(t, R, A, N, C)
    BY <2>4, <2>5, <2>6 DEF Disciplined
  <2> QED  BY <2>1, <2>7, IdleDiscipline
<1>3. CASE v = Vote(latest) /\ s.round_state.current_phase # "Awaiting_preattestations"
  <2>1. handle_forged_attestation(s, v) = may_inject_attestations(s, {v})
    BY <1>3 DEF handle_forged_attestation
  <2>2. may_inject_attestations(s, {v}) \in {o, do_nothing(s)}
    BY DEF may_inject_attestations
  <2>3. /\ o.state = s /\ Asks(o) = {} /\ Attests(o) = {v} /\ Preattests(o) = {}
    BY DEF Outcome, Asks, Attests, Preattests
  <2>4. /\ latest.level \in Nat /\ latest.round \in Nat
        /\ latest.level = s.level_state.current_level
    BY DEF Good, State, LevelState, Sound, Context, Block
  <2>5. v.level = latest.level /\ v.round = latest.round /\ v.payload = latest.payload
        /\ v = Cert(latest.level, latest.round, latest.payload)
    BY <1>3 DEF Vote, Cert
  <2>6. ASSUME v.level <= 1
        PROVE  v \in C /\ v.round <= s.level_state.locked_round.round
    <3>1. s.level_state.locked_round = LockOn(latest)
      BY <1>3, <2>4, <2>5, <2>6 DEF Disciplined, AskedInTime, Here
    <3>2. LockOn(latest).round = latest.round /\ LockOn(latest).payload = latest.payload
      BY DEF LockOn
    <3>3. s.level_state.locked_round # NoLock
      BY <2>4, <3>1, <3>2 DEF NoLock, NoRound
    <3>4. Cert(latest.level, latest.round, latest.payload) \in C
      BY <2>4, <3>1, <3>2, <3>3 DEF Good, Sound, SoundData, LockIsReal
    <3> QED  BY <2>4, <2>5, <3>1, <3>2, <3>4
  <2> HIDE DEF o, v
  <2>7. Disciplined(s, R, A \union {v}, N, C)
    BY <1>3, <2>6, AttestDiscipline
  <2>8. DisciplinedOutcome(o, R, A, N, C)
    BY <1>3, <2>3, <2>7 DEF DisciplinedOutcome
  <2> QED  BY <2>1, <2>2, <2>8, IdleDiscipline DEF v
<1> QED  BY <1>1, <1>2, <1>3

(* The end of a round whose votes are signed. *)
LEMMA EndDiscipline ==
  ASSUME NEW b, NEW B, NEW P, NEW C, NEW E,
         NEW s, Good(s, b, B, P, C, E),
         NEW R, NEW A, NEW N, Disciplined(s, R, A, N, C),
         \A x \in R : x.kind = "block", NEW ops, NEW ending
  PROVE  DisciplinedOutcome(end_of_round(s, ending, ops), R, A, N, C)
<1> DEFINE t == [s EXCEPT !.round_state = NewRoundState(ending + 1)]
           o == end_of_round(s, ending, ops)
<1>1. o.state = t /\ Quiet(o)
  BY DEF end_of_round, propose_block_action, do_nothing, Outcome, Quiet
<1>2. /\ t.level_state = s.level_state
      /\ t.round_state.current_phase = "Idle"
      /\ t.round_state.early_attestations = {}
  BY DEF Good, State, NewRoundState
<1> HIDE DEF t, o
<1>3. KeepsRound(t)
  BY <1>2 DEF KeepsRound
<1>4. \A w : /\ AttestedInTime(s, w) => AttestedInTime(t, w)
             /\ PreattestedInTime(s, w) => PreattestedInTime(t, w)
  BY <1>2 DEF AttestedInTime, PreattestedInTime, Here
<1>5. Disciplined(t, R, A, N, C)
  BY <1>3, <1>4 DEF Disciplined
<1>6. DisciplinedOutcome(o, R, A, N, C)
  BY <1>1, <1>5, QuietDiscipline
<1> QED  BY <1>6 DEF o

(* The time to prepare a block of the next level. *)
LEMMA PrepareDiscipline ==
  ASSUME NEW b, NEW B, NEW P, NEW C, NEW E,
         NEW s, Good(s, b, B, P, C, E),
         NEW R, NEW A, NEW N, Disciplined(s, R, A, N, C), NEW ops, NEW at_round
  PROVE  DisciplinedOutcome(time_to_prepare_next_level_block(s, at_round, ops),
                            R, A, N, C)
<1> DEFINE t == [s EXCEPT !.level_state.next_level_proposed_round = at_round]
           o == time_to_prepare_next_level_block(s, at_round, ops)
<1>1. o.state = t /\ Quiet(o)
  BY DEF time_to_prepare_next_level_block, Outcome, Quiet
<1>2. /\ t.round_state = s.round_state
      /\ t.level_state.current_level = s.level_state.current_level
      /\ t.level_state.latest_proposal = s.level_state.latest_proposal
      /\ t.level_state.locked_round = s.level_state.locked_round
  BY DEF Good, State, LevelState
<1> HIDE DEF t, o
<1>3. Disciplined(t, R, A, N, C)
  BY <1>2, PhaseDiscipline
<1>4. DisciplinedOutcome(o, R, A, N, C)
  BY <1>1, <1>3, QuietDiscipline
<1> QED  BY <1>4 DEF o

-----------------------------------------------------------------------------
(***************************************************************************)
(* The discipline is kept                                                  *)
(***************************************************************************)
Elements(q) == {q[i] : i \in DOMAIN q}

(* A sequence is one of its elements. *)
LEMMA ElementsOfSeq ==
  ASSUME NEW S, NEW q \in Seq(S)
  PROVE  /\ q \in Seq(Elements(q))
         /\ Elements(q) \subseteq S
         /\ q # <<>> => /\ Head(q) \in Elements(q)
                        /\ Elements(Tail(q)) \subseteq Elements(q)
<1>1. Len(q) \in Nat /\ DOMAIN q = 1 .. Len(q) /\ \A i \in 1 .. Len(q) : q[i] \in S
  BY LenProperties, ElementOfSeq
<1>2. q \in Seq(Elements(q))
  BY <1>1 DEF Elements
<1>3. Elements(q) \subseteq S
  BY <1>1 DEF Elements
<1>4. ASSUME q # <<>>
      PROVE  Head(q) \in Elements(q) /\ Elements(Tail(q)) \subseteq Elements(q)
  <2>1. /\ Head(q) = q[1] /\ Len(q) > 0
        /\ Len(Tail(q)) = Len(q) - 1
        /\ DOMAIN Tail(q) = 1 .. Len(q) - 1
        /\ \A i \in 1 .. Len(q) - 1 : Tail(q)[i] = q[i + 1]
    BY <1>1, <1>4, HeadTailProperties, EmptySeq
  <2> QED  BY <1>1, <2>1 DEF Elements
<1> QED  BY <1>2, <1>3, <1>4

(* The requests left after an action were there or are asked for. *)
LEMMA RequestsAreAsked ==
  ASSUME NEW S, NEW queue \in Seq(S), NEW o, NEW q \in NewRequests(o, queue)
  PROVE  Elements(q) \subseteq Elements(queue) \union Asks(o)
<1> DEFINE T == Elements(queue) \union Asks(o)
<1>1. queue \in Seq(T)
  <2>1. queue \in Seq(Elements(queue))
    BY ElementsOfSeq
  <2> HIDE DEF T
  <2>2. Elements(queue) \subseteq T
    BY DEF T
  <2> QED  BY <2>1, <2>2, SeqMonotonic
<1> HIDE DEF T
<1>2. q \in Seq(T)
  <2>1. CASE o.action = "Prepare_consensus_votes"
    <3>1. PICK r \in cancel_all_pending_tasks(queue) :
            q = r \o <<request("preattestation", o.arg), request("attestation", o.arg)>>
      BY <2>1 DEF NewRequests
    <3>2. r \in Seq(T)
      BY <1>1, Cancel
    <3>3. request("preattestation", o.arg) \in T /\ request("attestation", o.arg) \in T
      BY <2>1 DEF T, Asks
    <3>4. <<request("preattestation", o.arg), request("attestation", o.arg)>> \in Seq(T)
      BY <3>3
    <3> QED  BY <3>1, <3>2, <3>4, ConcatProperties
  <2>2. CASE o.action = "Prepare_attestations"
    <3>1. q = Append(queue, request("attestation", o.arg))
      BY <2>2 DEF NewRequests
    <3>2. request("attestation", o.arg) \in T
      BY <2>2 DEF T, Asks
    <3> QED  BY <1>1, <3>1, <3>2, AppendProperties
  <2>3. CASE o.action = "Prepare_block"
    <3>1. q = Append(queue, request("block", o.arg))
      BY <2>3 DEF NewRequests
    <3>2. request("block", o.arg) \in T
      BY <2>3 DEF T, Asks
    <3> QED  BY <1>1, <3>1, <3>2, AppendProperties
  <2>4. CASE o.action \notin {"Prepare_consensus_votes", "Prepare_attestations",
                              "Prepare_block"}
    BY <1>1, <2>4 DEF NewRequests
  <2> QED  BY <2>1, <2>2, <2>3, <2>4
<1>3. Elements(q) \subseteq T
  BY <1>2, ElementsOfSeq
<1> QED  BY <1>3 DEF T

(* Up to level 1 a chain has one branch. *)
LEMMA ChainIsOneBranch ==
  ASSUME NEW B, NEW C, Chain(B, C)
  PROVE  OneBranch(B) /\ \A p \in B : p.level = 1 => predecessor(p) = Genesis
<1>1. \A p \in B : p.level \in Nat /\ (p # Genesis => p.level > 0)
  BY BlockTypes
<1>2. ASSUME NEW p \in B, p.level = 1  PROVE predecessor(p) = Genesis
  <2>1. p # Genesis
    BY <1>2 DEF Genesis
  <2>2. predecessor(p) \in B /\ p.level = predecessor(p).level + 1
    BY <2>1 DEF Chain, Extends
  <2> QED  BY <1>1, <1>2, <2>2
<1>3. \A p \in B : p.level = 0 => p = Genesis
  BY <1>1
<1> QED  BY <1>1, <1>2, <1>3 DEF OneBranch

Discipline(b) ==
  Disciplined(state[b], Elements(forge_requests[b]), SentBy(b, attestations),
              Preattested(b), Certified)

VotingInv == \A b \in Bakers : Discipline(b)

(* Baker b performs a disciplined outcome. *)
Follows(b, o) ==
  DisciplinedOutcome(o, Elements(forge_requests[b]), SentBy(b, attestations),
                     Preattested(b), CertifiedBy(preattestations, blocks'))
Acts(b) ==
  \E o : \E queue \in Seq(Requests(b)) :
    /\ Elements(queue) \subseteq Elements(forge_requests[b])
    /\ perform_action(b, state[b], o, queue)
    /\ Follows(b, o)

(* The votes of a baker have levels and rounds. *)
LEMMA BallotTypes ==
  ASSUME Inv, NEW b \in Bakers
  PROVE  Ballots(Elements(forge_requests[b]), SentBy(b, attestations), Preattested(b))
<1>1. \A v \in VotesFor(blocks) : Ballot(v)
  <2> TAKE v \in VotesFor(blocks)
  <2>1. v \in [level : Nat, round : Nat, payload : Payloads(blocks)]
    BY VoteTypes DEF Inv
  <2> QED  BY <2>1 DEF Ballot
<1>2. SentBy(b, attestations) \subseteq VotesFor(blocks)
      /\ Preattested(b) \subseteq VotesFor(blocks)
  BY DEF Inv, VoteInv, SentVotes, SentBy, Preattested
<1>3. \A x \in Elements(forge_requests[b]) :
        x.kind # "block" => x.content \in VotesFor(blocks)
  <2>1. forge_requests[b] \in Seq(Requests(b))
    BY DEF Inv, BakerInv, WorkerInv
  <2>2. Elements(forge_requests[b]) \subseteq Requests(b)
    BY <2>1, ElementsOfSeq
  <2> QED  BY <2>2 DEF Requests, RequestsFor
<1> QED  BY <1>1, <1>2, <1>3 DEF Ballots

(* What a baker's step starts from, once a block is announced. *)
LEMMA DisciplineBefore ==
  ASSUME VotingInv, NEW b \in Bakers, blocks \subseteq blocks'
  PROVE  Disciplined(state[b], Elements(forge_requests[b]), SentBy(b, attestations),
                     Preattested(b), CertifiedBy(preattestations, blocks'))
<1>1. Certified \subseteq CertifiedBy(preattestations, blocks')
  BY CertifiedGrows DEF Certified
<1>2. Discipline(b)
  BY DEF VotingInv
<1> QED  BY <1>1, <1>2, DisciplineRemains DEF Discipline

(* A baker that does nothing stays disciplined. *)
LEMMA OthersDisciplined ==
  ASSUME Grows, NEW c, Discipline(c), state'[c] = state[c],
         Elements(forge_requests'[c]) \subseteq Elements(forge_requests[c]),
         SentBy(c, attestations') = SentBy(c, attestations),
         SentBy(c, preattestations') = SentBy(c, preattestations)
  PROVE  Discipline(c)'
<1>1. Certified \subseteq Certified'
  BY CertifiedGrows DEF Certified, Grows
<1>2. Disciplined(state[c], Elements(forge_requests'[c]), SentBy(c, attestations),
                  Preattested(c), Certified')
  BY <1>1, DisciplineRemains DEF Discipline
<1>3. SentBy(c, attestations)' = SentBy(c, attestations)
      /\ Preattested(c)' = Preattested(c)
      /\ Elements(forge_requests[c])' = Elements(forge_requests'[c])
  BY DEF SentBy, Preattested, Elements
<1> QED  BY <1>2, <1>3 DEF Discipline

(* Performing an outcome: what is sent and what is left to sign. *)
LEMMA Performs ==
  ASSUME ~RecordState, Inv, NEW b \in Bakers, NEW o,
         NEW queue \in Seq(Requests(b)),
         perform_action(b, state[b], o, queue)
  PROVE  /\ state'[b] = o.state
         /\ Elements(forge_requests'[b]) \subseteq Elements(queue) \union Asks(o)
         /\ preattestations' = preattestations \union signed(b, Preattests(o))
         /\ attestations' = attestations \union signed(b, Attests(o))
         /\ \A c \in Bakers : c # b => /\ state'[c] = state[c]
                                       /\ forge_requests'[c] = forge_requests[c]
<1>1. state'[b] = o.state /\ \A c \in Bakers : c # b => state'[c] = state[c]
  BY DEF perform_action, Inv, DomainInv
<1>2. PICK q \in NewRequests(o, queue) :
        forge_requests' = [forge_requests EXCEPT ![b] = q]
  BY DEF perform_action
<1>3. /\ forge_requests'[b] = q
      /\ \A c \in Bakers : c # b => forge_requests'[c] = forge_requests[c]
  BY <1>2 DEF Inv, DomainInv
<1>4. Elements(q) \subseteq Elements(queue) \union Asks(o)
  BY RequestsAreAsked
<1>5. signed(b, {}) = {}
  BY DEF signed
<1>6. preattestations' = preattestations \union signed(b, Preattests(o))
  BY <1>5 DEF perform_action, Preattests
<1>7. attestations' = attestations \union signed(b, Attests(o))
  BY <1>5 DEF perform_action, Attests
<1> QED  BY <1>1, <1>3, <1>4, <1>6, <1>7

(* All bakers stay disciplined when one acts. *)
LEMMA ActsDisciplined ==
  ASSUME ~RecordState, Inv, VotingInv, blocks \subseteq blocks', NEW b \in Bakers,
         Acts(b)
  PROVE  VotingInv'
<1>1. PICK o : \E queue \in Seq(Requests(b)) :
        /\ Elements(queue) \subseteq Elements(forge_requests[b])
        /\ perform_action(b, state[b], o, queue)
        /\ Follows(b, o)
  BY DEF Acts
<1>2. PICK queue \in Seq(Requests(b)) :
        /\ Elements(queue) \subseteq Elements(forge_requests[b])
        /\ perform_action(b, state[b], o, queue)
        /\ Follows(b, o)
  BY <1>1
<1> DEFINE R == Elements(forge_requests[b])
           A == SentBy(b, attestations)
           N == Preattested(b)
           C == CertifiedBy(preattestations, blocks')
<1>3. /\ state'[b] = o.state
      /\ Elements(forge_requests'[b]) \subseteq R \union Asks(o)
      /\ Sends(b, Preattests(o), preattestations, preattestations')
      /\ Sends(b, Attests(o), attestations, attestations')
      /\ \A c \in Bakers : c # b => /\ state'[c] = state[c]
                                    /\ forge_requests'[c] = forge_requests[c]
  BY <1>2, Performs DEF Sends
<1>4. /\ SentBy(b, preattestations') = N \union Preattests(o)
      /\ \A c : c # b => SentBy(c, preattestations') = SentBy(c, preattestations)
  BY <1>3, SentBySigner DEF Preattested
<1>5. /\ SentBy(b, attestations') = A \union Attests(o)
      /\ \A c : c # b => SentBy(c, attestations') = SentBy(c, attestations)
  BY <1>3, SentBySigner
<1>6. Grows
  BY <1>3 DEF Grows, Sends
<1>7. C \subseteq Certified'
  BY <1>6, CertifiedGrows DEF Certified, Grows
<1>8. Disciplined(o.state, R \union Asks(o), A \union Attests(o),
                  N \union Preattests(o), C)
  BY <1>2 DEF Follows, DisciplinedOutcome
<1>9. Disciplined(state'[b], Elements(forge_requests'[b]), SentBy(b, attestations'),
                  SentBy(b, preattestations'), Certified')
  <2> HIDE DEF C, R, A, N
  <2>1. Disciplined(o.state, Elements(forge_requests'[b]), A \union Attests(o),
                    N \union Preattests(o), Certified')
    BY <1>3, <1>7, <1>8, DisciplineRemains
  <2> QED  BY <1>3, <1>4, <1>5, <2>1
<1>10. Discipline(b)'
  BY <1>9 DEF Discipline, Preattested, SentBy, Elements
<1>11. ASSUME NEW c \in Bakers, c # b  PROVE Discipline(c)'
  <2>1. Discipline(c)
    BY DEF VotingInv
  <2> QED  BY <1>3, <1>4, <1>5, <1>6, <1>11, <2>1, OthersDisciplined
<1> QED  BY <1>10, <1>11 DEF VotingInv

(* What an action that announces no block starts from. *)
LEMMA ActorDisciplined ==
  ASSUME Inv, RoundInv, VotingInv, NEW b \in Bakers
  PROVE  /\ Good(state[b], b, blocks, Payloads(blocks), Certified, Attested(b))
         /\ Timely(state[b], FinalBlocks)
         /\ Context(blocks, Payloads(blocks), Certified)
         /\ forge_requests[b] \in Seq(Requests(b))
         /\ Ballots(Elements(forge_requests[b]), SentBy(b, attestations),
                    Preattested(b))
         /\ Disciplined(state[b], Elements(forge_requests[b]),
                        SentBy(b, attestations), Preattested(b), Certified)
<1>1. forge_requests[b] \in Seq(Requests(b))
  BY DEF Inv, BakerInv, WorkerInv
<1> QED  BY <1>1, ActorInTime, BallotTypes DEF VotingInv, Discipline

(* The two announcements of a block. *)
LEMMA ProposalActs ==
  ASSUME Inv, RoundInv, VotingInv, NEW b \in Bakers,
         NewValidProposal(b) \/ NewHeadProposal(b)
  PROVE  Acts(b) /\ blocks \subseteq blocks'
<1>1. PICK p \in blocks \union ForeignBlocks : \E now \in Now(p) :
        /\ \/ perform_action(b, state[b], New_valid_proposal(state[b], p, now),
                             forge_requests[b])
           \/ perform_action(b, state[b], New_head_proposal(state[b], p, now),
                             forge_requests[b])
        /\ blocks' = blocks \union {p}
  BY DEF NewValidProposal, NewHeadProposal
<1>2. PICK now \in Now(p) :
        \/ perform_action(b, state[b], New_valid_proposal(state[b], p, now),
                          forge_requests[b])
        \/ perform_action(b, state[b], New_head_proposal(state[b], p, now),
                          forge_requests[b])
  BY <1>1
<1> DEFINE R == Elements(forge_requests[b])
           A == SentBy(b, attestations)
           N == Preattested(b)
           C == CertifiedBy(preattestations, blocks')
           E == Attested(b) \union {}
<1>3. /\ Context(blocks', Payloads(blocks'), C) /\ Chain(blocks', C)
      /\ PqcBefore(blocks') /\ blocks \subseteq blocks' /\ p \in blocks'
  BY <1>1, BlockInTime
<1>4. now \in Nat /\ p.round <= now
  <2>1. p.round \in Nat /\ p.level \in 0 .. MaxLevel
    BY <1>3, BlockTypes
  <2> QED  BY <2>1, BoundsAssumption DEF Now
<1>5. Good(state[b], b, blocks', Payloads(blocks'), C, E)
  BY <1>3, StateBefore
<1>6. /\ Timely(state[b], FinalBlocks) /\ Ballots(R, A, N)
      /\ forge_requests[b] \in Seq(Requests(b))
  BY ActorDisciplined
<1>7. Disciplined(state[b], R, A, N, C)
  BY <1>3, DisciplineBefore
<1>8. OneBranch(blocks')
  BY <1>3, ChainIsOneBranch
<1>9. /\ Follows(b, New_head_proposal(state[b], p, now))
      /\ Follows(b, New_valid_proposal(state[b], p, now))
  <2> HIDE DEF C, R, E, A, N
  <2>1. /\ DisciplinedOutcome(New_head_proposal(state[b], p, now), R, A, N, C)
        /\ DisciplinedOutcome(New_valid_proposal(state[b], p, now), R, A, N, C)
    BY <1>3, <1>4, <1>5, <1>6, <1>7, <1>8, AnnouncedDiscipline
  <2> QED  BY <2>1 DEF Follows, C, R, A, N
<1> QED  BY <1>2, <1>3, <1>6, <1>9 DEF Acts

(* A round ends when its votes are signed. *)
LEMMA EndActs ==
  ASSUME TimelySigning, Inv, RoundInv, VotingInv, NEW b \in Bakers, EndOfRound(b)
  PROVE  Acts(b) /\ blocks \subseteq blocks'
<1> DEFINE s == state[b]
           ending == s.round_state.current_round
           R == Elements(forge_requests[b])
<1>1. PICK ops \in Ops : perform_action(b, s, end_of_round(s, ending, ops),
                                       forge_requests[b])
  BY DEF EndOfRound
<1>2. blocks' = blocks
  BY DEF EndOfRound
<1>3. \A x \in R : x.kind = "block"
  BY DEF EndOfRound, Elements
<1> HIDE DEF s, ending, R
<1>4. DisciplinedOutcome(end_of_round(s, ending, ops), R, SentBy(b, attestations),
                         Preattested(b), Certified)
  BY <1>3, ActorDisciplined, EndDiscipline DEF s, R
<1>5. Follows(b, end_of_round(s, ending, ops))
  BY <1>2, <1>4 DEF Follows, Certified, R
<1> QED  BY <1>1, <1>2, <1>5, ActorDisciplined DEF Acts, s

(* A block of the next level is prepared. *)
LEMMA PrepareActs ==
  ASSUME Inv, RoundInv, VotingInv, NEW b \in Bakers, TimeToPrepareNextLevelBlock(b)
  PROVE  Acts(b) /\ blocks \subseteq blocks'
<1> DEFINE s == state[b]
           R == Elements(forge_requests[b])
<1>1. PICK at_round \in Rounds(s.level_state.current_level + 1), ops \in Ops :
        perform_action(b, s, time_to_prepare_next_level_block(s, at_round, ops),
                       forge_requests[b])
  BY DEF TimeToPrepareNextLevelBlock
<1>2. blocks' = blocks
  BY DEF TimeToPrepareNextLevelBlock
<1> DEFINE o == time_to_prepare_next_level_block(s, at_round, ops)
<1>3. DisciplinedOutcome(o, R, SentBy(b, attestations), Preattested(b), Certified)
  <2> HIDE DEF s, R
  <2> QED  BY ActorDisciplined, PrepareDiscipline DEF s, R
<1> HIDE DEF o
<1>4. Follows(b, o)
  BY <1>2, <1>3 DEF Follows, Certified
<1> QED  BY <1>1, <1>2, <1>4, ActorDisciplined DEF Acts, o

(* Prequorum_reached and Quorum_reached. *)
LEMMA QuorumActs ==
  ASSUME Inv, RoundInv, VotingInv, NEW b \in Bakers, QuorumEvent(b)
  PROVE  Acts(b) /\ blocks \subseteq blocks'
<1> DEFINE s == state[b]
           e == Head(qc_event_stream[b])
           o == IF e.kind = "prequorum" THEN Prequorum_reached(s, e.candidate)
                                        ELSE Quorum_reached(s, e.candidate)
           R == Elements(forge_requests[b])
<1>1. /\ perform_action(b, s, o, forge_requests[b])
      /\ qc_event_stream[b] # <<>>
      /\ blocks' = blocks
  BY DEF QuorumEvent
<1>2. e \in Events
  BY <1>1, HeadTailProperties DEF Inv, BakerInv, WorkerInv
<1>3. /\ e.candidate \in blocks
      /\ e.kind = "prequorum" => Vote(e.candidate) \in Certified
  <2>1. Vote(e.candidate) \in [level : Nat, round : Nat, payload : Payloads(blocks)]
    BY <1>2, VoteTypes DEF VotesFor, Inv, Events, Watches
  <2> QED
    BY <1>2, <2>1 DEF Events, Watches, Certified, CertifiedBy, Prequorum
<1> HIDE DEF s, e, R
<1>4. DisciplinedOutcome(o, R, SentBy(b, attestations), Preattested(b), Certified)
  BY <1>3, ActorDisciplined, PrequorumDiscipline, QuorumDiscipline DEF s, R
<1> HIDE DEF o
<1>5. Follows(b, o)
  BY <1>1, <1>4 DEF Follows, Certified, R
<1> QED  BY <1>1, <1>5, ActorDisciplined DEF Acts, s

(* A vote is signed and handled. *)
LEMMA VoteActs ==
  ASSUME Inv, RoundInv, VotingInv, NEW b \in Bakers, NewForgedVote(b)
  PROVE  Acts(b) /\ blocks \subseteq blocks'
<1> DEFINE s == state[b]
           x == Head(forge_requests[b])
           o == IF x.kind = "preattestation"
                THEN handle_forged_preattestation(s, x.content)
                ELSE handle_forged_attestation(s, x.content)
           R == Elements(forge_requests[b])
<1>1. /\ perform_action(b, s, o, Tail(forge_requests[b]))
      /\ forge_requests[b] # <<>> /\ x.kind # "block"
      /\ blocks' = blocks
  BY DEF NewForgedVote
<1>2. /\ x \in R /\ Elements(Tail(forge_requests[b])) \subseteq R
      /\ x \in Requests(b) /\ Tail(forge_requests[b]) \in Seq(Requests(b))
  BY <1>1, ActorDisciplined, ElementsOfSeq, OldestRequest
<1>3. x.kind \in {"preattestation", "attestation"}
  BY <1>1, <1>2 DEF Requests, RequestsFor
<1> HIDE DEF s, x, R
<1>4. DisciplinedOutcome(o, R, SentBy(b, attestations), Preattested(b), Certified)
  BY <1>2, <1>3, ActorDisciplined, ForgedPreattestation, ForgedAttestation DEF s, R
<1> HIDE DEF o
<1>5. Follows(b, o)
  BY <1>1, <1>4 DEF Follows, Certified, R
<1> QED  BY <1>1, <1>2, <1>5 DEF Acts, s, R

-----------------------------------------------------------------------------
(***************************************************************************)
(* The votes of level 1 are those of TenderbakeVoting                      *)
(***************************************************************************)
Payload1 == [pred : {Genesis}, round : Rounds(1), ops : Ops]
OfLevel1(v) ==
  MaxRound[1] \in Nat /\ v.round \in Rounds(1) /\ v.payload \in Payload1

(* Votes of level 1 are for its rounds and payloads. *)
LEMMA LevelOne ==
  ASSUME NEW B, NEW C, Chain(B, C), NEW F, BlocksAreValid(B, F),
         NEW v \in VotesFor(B), v.level = 1
  PROVE  OfLevel1(v)
<1>1. PICK p \in B : v = Vote(p)
  BY DEF VotesFor
<1>2. /\ p.level = 1 /\ v.round = p.round /\ v.payload = p.payload
  BY <1>1 DEF Vote
<1>3. p # Genesis /\ predecessor(p) = Genesis
  BY <1>2, ChainIsOneBranch DEF Genesis
<1>4. /\ p \in Block(Payloads(B)) /\ p.round \in Rounds(1) /\ 1 <= MaxLevel
  BY <1>2, <1>3 DEF Chain, Extends
<1>5. Valid(p, F)
  BY <1>3 DEF BlocksAreValid
<1>6. MaxRound[1] \in Nat
  BY <1>4, BoundsAssumption
<1>7. /\ p.payload \in Payloads(B) /\ p.payload.pred = Genesis
      /\ p.payload.ops \in Ops /\ p.pqc \in OptRound /\ p.round \in Nat
  BY <1>3, <1>4, <1>5 DEF Valid, predecessor, Block
<1>8. p.payload.round \in Rounds(1)
  <2>1. p.payload.round \in Nat /\ p.payload.round <= p.round
    BY <1>5, <1>7 DEF Valid, Payloads, OptRound, NoRound
  <2> QED  BY <1>4, <1>6, <1>7, <2>1 DEF Rounds
<1>9. p.payload \in Payload1
  BY <1>7, <1>8 DEF Payloads, Payload1
<1> QED  BY <1>2, <1>4, <1>6, <1>9 DEF OfLevel1

(* One more vote. *)
LEMMA LevelOneGrows ==
  ASSUME NEW V, NEW m, NEW v
  PROVE  VotesOfLevel1(V \union signed(m, {v})) =
           VotesOfLevel1(V) \union
             IF v.level = 1 THEN {Voting!vote(m, v.round, v.payload)} ELSE {}
<1> DEFINE w == [member |-> m, vote |-> v]
<1>1. signed(m, {v}) = {w} /\ w.vote = v /\ w.member = m
  BY DEF signed
<1>2. Voting!vote(m, v.round, v.payload) =
        [member |-> w.member, round |-> w.vote.round, payload |-> w.vote.payload]
  BY <1>1 DEF Voting!vote
<1> HIDE DEF w
<1>3. CASE v.level = 1
  BY <1>1, <1>2, <1>3 DEF VotesOfLevel1
<1>4. CASE v.level # 1
  BY <1>1, <1>4 DEF VotesOfLevel1
<1> QED  BY <1>3, <1>4

(* A vote of level 1 was sent. *)
LEMMA LevelOneSent ==
  ASSUME NEW V, NEW x \in VotesOfLevel1(V)
  PROVE  \E v \in SentBy(x.member, V) :
           v.level = 1 /\ v.round = x.round /\ v.payload = x.payload
<1>1. PICK w \in V : w.vote.level = 1 /\
        x = [member |-> w.member, round |-> w.vote.round, payload |-> w.vote.payload]
  BY DEF VotesOfLevel1
<1>2. x.member = w.member /\ x.round = w.vote.round /\ x.payload = w.vote.payload
  BY <1>1
<1> QED  BY <1>1, <1>2 DEF SentBy

(* Votes sent by a quorum. *)
LEMMA LevelOneQuorum ==
  ASSUME NEW V, NEW Q, NEW r, NEW p, Sent(V, Cert(1, r, p), Q)
  PROVE  \A m \in Q \intersect (Bakers \union Peers) :
           Voting!vote(m, r, p) \in VotesOfLevel1(V)
<1> TAKE m \in Q \intersect (Bakers \union Peers)
<1> DEFINE w == [member |-> m, vote |-> Cert(1, r, p)]
<1>1. w \in V
  BY MembersAssumption DEF Sent
<1>2. w.member = m /\ w.vote.level = 1 /\ w.vote.round = r /\ w.vote.payload = p
  BY DEF Cert
<1> HIDE DEF w
<1> QED  BY <1>1, <1>2 DEF VotesOfLevel1, Voting!vote

(* What is certified has a prequorum. *)
LEMMA LevelOnePrequorum ==
  ASSUME NEW B, NEW r, NEW p, Cert(1, r, p) \in CertifiedBy(preattestations, B)
  PROVE  Voting!Prequorum(r, p)
<1>1. PICK Q \in Quorums : Sent(preattestations, Cert(1, r, p), Q)
  BY DEF CertifiedBy
<1> QED  BY <1>1, LevelOneQuorum DEF Voting!Prequorum

VotingStep == Voting!Next \/ UNCHANGED Voting!votes

(* A member preattests what a certificate released, once per round. *)
LEMMA VotingPreattests ==
  ASSUME NEW m \in Bakers \union Peers, NEW v,
         v.level = 1 => OfLevel1(v),
         preattestations' = preattestations \union signed(m, {v}),
         attestations' = attestations,
         \A w \in SentBy(m, preattestations) :
           w.level = v.level /\ w.round = v.round => w = v,
         NEW B,
         v.level = 1 =>
           Released(v, SentBy(m, attestations), CertifiedBy(preattestations, B))
  PROVE  VotingStep
<1> DEFINE V == VotesOfLevel1(preattestations)
           A == VotesOfLevel1(attestations)
           new == Voting!vote(m, v.round, v.payload)
<1>1. A' = A
  BY DEF VotesOfLevel1
<1>2. VotesOfLevel1(preattestations') = V \union IF v.level = 1 THEN {new} ELSE {}
  BY LevelOneGrows
<1>3. V' = VotesOfLevel1(preattestations')
  BY DEF VotesOfLevel1
<1>4. CASE v.level # 1 \/ new \in V
  <2>1. V' = V
    BY <1>2, <1>3, <1>4
  <2> QED  BY <1>1, <2>1 DEF VotingStep, Voting!votes
<1>5. CASE v.level = 1 /\ new \notin V
  <2>1. \A x \in V : x.member = m => x.round # v.round
    <3> SUFFICES ASSUME NEW x \in V, x.member = m, x.round = v.round  PROVE FALSE
      OBVIOUS
    <3>1. PICK w \in SentBy(m, preattestations) :
            w.level = 1 /\ w.round = x.round /\ w.payload = x.payload
      BY LevelOneSent
    <3>2. w = v
      BY <1>5, <3>1
    <3>3. x = new
      BY <3>1, <3>2 DEF Voting!vote, VotesOfLevel1
    <3> QED  BY <1>5, <3>3
  <2>2. \A x \in A :
          x.member = m /\ x.round < v.round /\ x.payload # v.payload =>
            \E r \in Rounds(1) : x.round < r /\ r <= v.round
                                 /\ Voting!Prequorum(r, v.payload)
    <3> SUFFICES ASSUME NEW x \in A, x.member = m, x.round < v.round,
                        x.payload # v.payload
                 PROVE  \E r \in Rounds(1) : x.round < r /\ r <= v.round
                                             /\ Voting!Prequorum(r, v.payload)
      OBVIOUS
    <3>1. PICK a \in SentBy(m, attestations) :
            a.level = 1 /\ a.round = x.round /\ a.payload = x.payload
      BY LevelOneSent
    <3>2. PICK r \in Nat : a.round < r /\ r <= v.round /\
            Cert(v.level, r, v.payload) \in CertifiedBy(preattestations, B)
      BY <1>5, <3>1 DEF Released
    <3>3. Voting!Prequorum(r, v.payload)
      BY <1>5, <3>2, LevelOnePrequorum
    <3>4. r \in Rounds(1)
      BY <1>5, <3>2 DEF Rounds, OfLevel1
    <3> QED  BY <3>1, <3>2, <3>3, <3>4
  <2>3. Voting!Preattest(m, v.round, v.payload)
    BY <1>1, <1>2, <1>3, <1>5, <2>1, <2>2 DEF Voting!Preattest
  <2> QED  BY <1>5, <2>3 DEF VotingStep, Voting!Next, Payload1, OfLevel1
<1> QED  BY <1>4, <1>5

(* A member attests what has a prequorum, once per round, and no round     *)
(* before one that it has preattested in.                                  *)
LEMMA VotingAttests ==
  ASSUME NEW m \in Bakers \union Peers, NEW v, v.level = 1 => OfLevel1(v),
         attestations' = attestations \union signed(m, {v}),
         preattestations' = preattestations,
         \A w \in SentBy(m, attestations) :
           w.level = v.level /\ w.round = v.round => w = v,
         \A w \in SentBy(m, preattestations) :
           w.level = 1 /\ v.level = 1 => w.round <= v.round,
         NEW B, v.level = 1 =>
                  Cert(1, v.round, v.payload) \in CertifiedBy(preattestations, B)
  PROVE  VotingStep
<1> DEFINE V == VotesOfLevel1(preattestations)
           A == VotesOfLevel1(attestations)
           new == Voting!vote(m, v.round, v.payload)
<1>1. V' = V
  BY DEF VotesOfLevel1
<1>2. VotesOfLevel1(attestations') = A \union IF v.level = 1 THEN {new} ELSE {}
  BY LevelOneGrows
<1>3. A' = VotesOfLevel1(attestations')
  BY DEF VotesOfLevel1
<1>4. CASE v.level # 1 \/ new \in A
  <2>1. A' = A
    BY <1>2, <1>3, <1>4
  <2> QED  BY <1>1, <2>1 DEF VotingStep, Voting!votes
<1>5. CASE v.level = 1 /\ new \notin A
  <2>1. \A x \in A : x.member = m => x.round # v.round
    <3> SUFFICES ASSUME NEW x \in A, x.member = m, x.round = v.round  PROVE FALSE
      OBVIOUS
    <3>1. PICK w \in SentBy(m, attestations) :
            w.level = 1 /\ w.round = x.round /\ w.payload = x.payload
      BY LevelOneSent
    <3>2. w = v
      BY <1>5, <3>1
    <3>3. x = new
      BY <3>1, <3>2 DEF Voting!vote, VotesOfLevel1
    <3> QED  BY <1>5, <3>3
  <2>2. \A x \in V : x.member = m => x.round <= v.round
    <3> SUFFICES ASSUME NEW x \in V, x.member = m  PROVE x.round <= v.round
      OBVIOUS
    <3>1. PICK w \in SentBy(m, preattestations) :
            w.level = 1 /\ w.round = x.round /\ w.payload = x.payload
      BY LevelOneSent
    <3> QED  BY <1>5, <3>1
  <2>3. Voting!Prequorum(v.round, v.payload)
    BY <1>5, LevelOnePrequorum
  <2>4. Voting!Attest(m, v.round, v.payload)
    BY <1>1, <1>2, <1>3, <1>5, <2>1, <2>2, <2>3 DEF Voting!Attest
  <2> QED  BY <1>5, <2>4 DEF VotingStep, Voting!Next, Payload1, OfLevel1
<1> QED  BY <1>4, <1>5

(* What a baker sends when it acts. *)
LEMMA ActsVoting ==
  ASSUME ~RecordState, Inv, Inv', RoundInv', NEW b \in Bakers, Acts(b)
  PROVE  VotingStep
<1>1. PICK o : \E queue \in Seq(Requests(b)) :
        perform_action(b, state[b], o, queue) /\ Follows(b, o)
  BY DEF Acts
<1>2. PICK queue \in Seq(Requests(b)) :
        perform_action(b, state[b], o, queue) /\ Follows(b, o)
  BY <1>1
<1> DEFINE C == CertifiedBy(preattestations, blocks')
           R == Elements(forge_requests[b])
           A == SentBy(b, attestations)
           N == Preattested(b)
           latest == o.state.level_state.latest_proposal
<1>3. /\ state'[b] = o.state
      /\ preattestations' = preattestations \union signed(b, Preattests(o))
      /\ attestations' = attestations \union signed(b, Attests(o))
  BY <1>2, Performs
<1>4. /\ Disciplined(o.state, R \union Asks(o), A \union Attests(o),
                     N \union Preattests(o), C)
      /\ Attests(o) \subseteq {Vote(latest)}
  BY <1>2 DEF Follows, DisciplinedOutcome
<1>5. signed(b, {}) = {}
  BY DEF signed
<1>6. /\ SentBy(b, preattestations') = N \union Preattests(o)
      /\ SentBy(b, attestations') = A \union Attests(o)
  BY <1>3, SentBySigner DEF Sends, Preattested
<1>7. OnePerRound(SentBy(b, preattestations')) /\ OnePerRound(SentBy(b, attestations'))
  <2>1. OnePerRound(Preattested(b)') /\ OnePerRound(Attested(b)')
    BY DEF Inv, BakerInv, WatermarkInv, Signed
  <2> QED  BY <2>1 DEF Preattested, Attested, SentBy, OnePerRound
<1>8. ASSUME NEW v \in SentBy(b, preattestations') \union SentBy(b, attestations'),
             v.level = 1
      PROVE  OfLevel1(v)
  <2>1. v \in VotesFor(blocks')
    BY DEF Inv, VoteInv, SentVotes, SentBy, VotesFor
  <2>2. Chain(blocks', Certified') /\ BlocksAreValid(blocks', FinalBlocks')
    BY DEF Inv, BlockInv, RoundInv
  <2> QED  BY <1>8, <2>1, <2>2, LevelOne
<1> HIDE DEF latest, R, A, N, C
<1>9. CASE Preattests(o) = {} /\ Attests(o) = {}
  <2>1. preattestations' = preattestations /\ attestations' = attestations
    BY <1>3, <1>5, <1>9
  <2> QED  BY <2>1 DEF VotingStep, Voting!votes, VotesOfLevel1
<1>10. CASE Preattests(o) # {}
  <2>1. PICK v : Preattests(o) = {v} /\ Attests(o) = {}
    BY <1>10 DEF Preattests, Attests
  <2>2. /\ preattestations' = preattestations \union signed(b, {v})
        /\ attestations' = attestations
    BY <1>3, <1>5, <2>1
  <2>3. v \in SentBy(b, preattestations') /\ N \subseteq SentBy(b, preattestations')
    BY <1>6, <2>1
  <2>4. \A w \in N : w.level = v.level /\ w.round = v.round => w = v
    BY <1>7, <2>3 DEF OnePerRound
  <2>5. v.level = 1 => Released(v, A, C)
    BY <1>4, <2>1 DEF Disciplined
  <2> QED
    BY <1>8, <2>2, <2>3, <2>4, <2>5, VotingPreattests DEF N, A, C, Preattested
<1>11. CASE Preattests(o) = {} /\ Attests(o) # {}
  <2>1. PICK v : Attests(o) = {v} /\ v = Vote(latest)
    BY <1>4, <1>11
  <2>2. /\ attestations' = attestations \union signed(b, {v})
        /\ preattestations' = preattestations
    BY <1>3, <1>5, <1>11, <2>1
  <2>3. v \in SentBy(b, attestations') /\ A \subseteq SentBy(b, attestations')
    BY <1>6, <2>1
  <2>4. \A w \in A : w.level = v.level /\ w.round = v.round => w = v
    BY <1>7, <2>3 DEF OnePerRound
  <2>5. v.level = 1 => v \in C
    BY <1>4, <2>1 DEF Disciplined
  <2>6. /\ o.state.level_state.current_level = latest.level
        /\ v.level = latest.level /\ v.round = latest.round
        /\ v = Cert(v.level, v.round, v.payload)
    <3>1. StateInv(b)'
      BY DEF Inv, BakerInv
    <3>2. o.state.level_state.current_level = latest.level
      BY <1>3, <3>1 DEF StateInv, Good, Sound, latest
    <3> QED  BY <2>1, <3>2 DEF Vote, Cert
  <2>7. \A w \in N : w.level = 1 /\ v.level = 1 => w.round <= v.round
    <3> SUFFICES ASSUME NEW w \in N, w.level = 1, v.level = 1
                 PROVE  w.round <= v.round
      OBVIOUS
    <3>1. PreattestedInTime(o.state, w)
      BY <1>4 DEF Disciplined
    <3>2. Here(w, o.state)
      BY <2>6 DEF Here
    <3> QED  BY <2>6, <3>1, <3>2 DEF PreattestedInTime, latest
  <2> QED
    BY <1>8, <2>2, <2>3, <2>4, <2>5, <2>6, <2>7, VotingAttests DEF N, A, C, Preattested
<1> QED  BY <1>9, <1>10, <1>11

(* The votes of peers. *)
LEMMA PeerVoting ==
  ASSUME Inv, RoundInv, VotingInv, NEW m \in Peers, PeerPreattests(m) \/ PeerAttests(m)
  PROVE  VotingStep /\ VotingInv'
<1>1. PICK p \in blocks \ {Genesis} :
        \/ /\ ~HasVoted(preattestations, m, Vote(p))
           /\ \A v \in attestations :
                /\ v.member = m /\ v.vote.level = p.level
                /\ v.vote.round < p.round /\ v.vote.payload # p.payload
                => \E r \in v.vote.round + 1 .. p.round :
                     Prequorum([Vote(p) EXCEPT !.round = r])
           /\ preattestations' = preattestations \union signed(m, {Vote(p)})
           /\ attestations' = attestations
        \/ /\ ~HasVoted(attestations, m, Vote(p))
           /\ Prequorum(Vote(p))
           /\ \A v \in preattestations :
                v.member = m /\ v.vote.level = p.level => v.vote.round <= p.round
           /\ attestations' = attestations \union signed(m, {Vote(p)})
           /\ preattestations' = preattestations
  BY DEF PeerPreattests, PeerAttests
<1>2. state' = state /\ forge_requests' = forge_requests /\ blocks' = blocks
  BY DEF PeerPreattests, PeerAttests, workers
<1> DEFINE v == Vote(p)
<1>3. /\ v \in VotesFor(blocks) /\ v.level = p.level /\ v.round = p.round
      /\ v.payload = p.payload
      /\ \A r : [v EXCEPT !.round = r] = Cert(v.level, r, v.payload)
      /\ v = Cert(v.level, v.round, v.payload)
  BY DEF VotesFor, Vote, Cert
<1>4. v \in [level : Nat, round : Nat, payload : Payloads(blocks)]
  BY <1>3, VoteTypes DEF Inv
<1>5. \A r \in Nat : Prequorum(Cert(v.level, r, v.payload)) =>
                       Cert(v.level, r, v.payload) \in CertifiedBy(preattestations, blocks)
  BY <1>4 DEF Prequorum, CertifiedBy, Cert
<1>6. v.level = 1 => OfLevel1(v)
  <2>1. Chain(blocks, Certified) /\ BlocksAreValid(blocks, FinalBlocks)
    BY DEF Inv, BlockInv, RoundInv
  <2> QED  BY <1>3, <2>1, LevelOne
<1>7. /\ SentBy(m, preattestations) \subseteq VotesFor(blocks)
      /\ SentBy(m, attestations) \subseteq VotesFor(blocks)
  BY DEF Inv, VoteInv, SentVotes, SentBy
<1> HIDE DEF v
<1>8. VotingStep
  <2>1. CASE /\ ~HasVoted(preattestations, m, v)
             /\ \A w \in attestations :
                  /\ w.member = m /\ w.vote.level = p.level
                  /\ w.vote.round < p.round /\ w.vote.payload # p.payload
                  => \E r \in w.vote.round + 1 .. p.round :
                       Prequorum([v EXCEPT !.round = r])
             /\ preattestations' = preattestations \union signed(m, {v})
             /\ attestations' = attestations
    <3>1. \A w \in SentBy(m, preattestations) :
            w.level = v.level /\ w.round = v.round => w = v
      BY <2>1 DEF HasVoted, SentBy
    <3>2. Released(v, SentBy(m, attestations), CertifiedBy(preattestations, blocks))
      <4> SUFFICES ASSUME NEW a \in SentBy(m, attestations), a.level = v.level,
                          a.round < v.round, a.payload # v.payload
                   PROVE  \E r \in Nat : /\ a.round < r /\ r <= v.round
                                         /\ Cert(v.level, r, v.payload)
                                              \in CertifiedBy(preattestations, blocks)
        BY DEF Released
      <4>1. a.round \in Nat
        BY <1>7, VoteTypes DEF Inv
      <4>2. PICK r \in a.round + 1 .. p.round : Prequorum([v EXCEPT !.round = r])
        BY <1>3, <2>1 DEF SentBy
      <4>3. r \in Nat /\ a.round < r /\ r <= v.round
        BY <1>3, <1>4, <4>1
      <4> QED  BY <1>3, <1>5, <4>2, <4>3
    <3> QED  BY <1>6, <2>1, <3>1, <3>2, VotingPreattests
  <2>2. CASE /\ ~HasVoted(attestations, m, v)
             /\ Prequorum(v)
             /\ \A w \in preattestations :
                  w.member = m /\ w.vote.level = p.level => w.vote.round <= p.round
             /\ attestations' = attestations \union signed(m, {v})
             /\ preattestations' = preattestations
    <3>1. \A w \in SentBy(m, attestations) :
            w.level = v.level /\ w.round = v.round => w = v
      BY <2>2 DEF HasVoted, SentBy
    <3>2. \A w \in SentBy(m, preattestations) :
            w.level = 1 /\ v.level = 1 => w.round <= v.round
      BY <1>3, <2>2 DEF SentBy
    <3>3. Cert(v.level, v.round, v.payload) \in CertifiedBy(preattestations, blocks)
      BY <1>3, <1>4, <1>5, <2>2
    <3> QED  BY <1>6, <2>2, <3>1, <3>2, <3>3, VotingAttests
  <2> QED  BY <1>1, <2>1, <2>2 DEF v
<1>9. ASSUME NEW c \in Bakers  PROVE Discipline(c)'
  <2>1. c # m
    BY MembersAssumption
  <2>2. /\ SentBy(c, preattestations') = SentBy(c, preattestations)
        /\ SentBy(c, attestations') = SentBy(c, attestations)
    <3>1. /\ \/ preattestations' = preattestations
             \/ Sends(m, {v}, preattestations, preattestations')
          /\ \/ attestations' = attestations
             \/ Sends(m, {v}, attestations, attestations')
      BY <1>1 DEF Sends, v
    <3> QED  BY <2>1, <3>1, SentBySigner
  <2>3. Grows
    BY <1>1, <1>2 DEF Grows
  <2>4. Discipline(c)
    BY DEF VotingInv
  <2> QED  BY <1>2, <2>2, <2>3, <2>4, OthersDisciplined
<1> QED  BY <1>8, <1>9 DEF VotingInv

(* A step of a worker that sends no vote. *)
LEMMA UnseenVoting ==
  ASSUME VotingInv, blocks \subseteq blocks',
         UNCHANGED <<state, preattestations, attestations>>,
         \A c \in Bakers :
           Elements(forge_requests'[c]) \subseteq Elements(forge_requests[c])
  PROVE  VotingStep /\ VotingInv'
<1>1. VotingStep
  BY DEF VotingStep, Voting!votes, VotesOfLevel1
<1>2. Grows
  BY DEF Grows
<1>3. ASSUME NEW c \in Bakers  PROVE Discipline(c)'
  BY <1>2, OthersDisciplined DEF VotingInv
<1> QED  BY <1>1, <1>3 DEF VotingInv

(* A request leaves the forge worker. *)
LEMMA RequestVoting ==
  ASSUME Inv, VotingInv, NEW b \in Bakers, NewForgedBlock(b) \/ RequestDropped(b)
  PROVE  VotingStep /\ VotingInv'
<1>1. /\ forge_requests[b] # <<>>
      /\ forge_requests' = [forge_requests EXCEPT ![b] = Tail(@)]
      /\ UNCHANGED <<state, preattestations, attestations>>
      /\ blocks \subseteq blocks'
  BY DEF NewForgedBlock, RequestDropped, network
<1>2. forge_requests[b] \in Seq(Requests(b)) /\ DOMAIN forge_requests = Bakers
  BY DEF Inv, BakerInv, WorkerInv, DomainInv
<1>3. Elements(Tail(forge_requests[b])) \subseteq Elements(forge_requests[b])
  BY <1>1, <1>2, ElementsOfSeq
<1> QED  BY <1>1, <1>2, <1>3, UnseenVoting

(* Every step follows the discipline. *)
LEMMA NextVoting ==
  ASSUME ~RecordState, TimelySigning, MaxRestarts = 0, Inv, RoundInv, VotingInv,
         Inv', RoundInv', [Next]_vars
  PROVE  VotingStep /\ VotingInv'
<1>1. ASSUME NEW b \in Bakers, Acts(b), blocks \subseteq blocks'
      PROVE  VotingStep /\ VotingInv'
  BY <1>1, ActsVoting, ActsDisciplined
<1>2. ASSUME NEW b \in Bakers, BakerStep(b)
      PROVE  VotingStep /\ VotingInv'
  <2>1. CASE NewValidProposal(b) \/ NewHeadProposal(b)
    BY <1>1, <2>1, ProposalActs
  <2>2. CASE EndOfRound(b)
    BY <1>1, <2>2, EndActs
  <2>3. CASE TimeToPrepareNextLevelBlock(b)
    BY <1>1, <2>3, PrepareActs
  <2>4. CASE QuorumEvent(b)
    BY <1>1, <2>4, QuorumActs
  <2>5. CASE NewForgedVote(b)
    BY <1>1, <2>5, VoteActs
  <2>6. CASE NewForgedBlock(b) \/ RequestDropped(b)
    BY <2>6, RequestVoting
  <2>7. CASE update_monitoring(b) \/ Record(b)
    BY <2>7, UnseenVoting DEF update_monitoring, Record, workers, network
  <2>8. CASE Restart(b)
    BY <2>8 DEF Restart, RoundInv
  <2> QED
    BY <1>2, <2>1, <2>2, <2>3, <2>4, <2>5, <2>6, <2>7, <2>8 DEF BakerStep
<1>3. ASSUME NEW m \in Peers, PeerPreattests(m) \/ PeerAttests(m)
      PROVE  VotingStep /\ VotingInv'
  BY <1>3, PeerVoting
<1>4. CASE UNCHANGED vars
  BY <1>4, UnseenVoting DEF vars, workers, network
<1> QED  BY <1>2, <1>3, <1>4 DEF Next

(* Nothing is voted at first. *)
LEMMA InitVoting ==
  ASSUME Init
  PROVE  Voting!Init /\ VotingInv
<1>1. Voting!Init
  BY DEF Init, Voting!Init, VotesOfLevel1
<1>2. ASSUME NEW b \in Bakers  PROVE Discipline(b)
  <2>1. /\ SentBy(b, attestations) = {} /\ Preattested(b) = {}
        /\ Elements(forge_requests[b]) = {}
    BY DEF Init, SentBy, Preattested, Elements
  <2> DEFINE l == NewLevelState(Genesis, TRUE, IF is_first_block_in_protocol(Genesis)
                                               THEN Genesis ELSE None)
             s == [me |-> b, level_state |-> l, round_state |-> NewRoundState(0)]
             t == may_load_attestable_data(s, NoStateData)
  <2>2. state[b].round_state = NewRoundState(0)
    <3>1. t = s
      <4>1. s.level_state.current_level = 0
        BY DEF NewLevelState, Genesis
      <4>2. NoStateData.level # 0
        BY DEF NoStateData, NoRound
      <4> HIDE DEF s
      <4> QED  BY <4>1, <4>2 DEF may_load_attestable_data
    <3>2. state[b] = may_initialise_with_latest_proposal_pqc(t)
      BY DEF Init, create_initial_state
    <3> HIDE DEF l
    <3> QED  BY <3>1, <3>2 DEF may_initialise_with_latest_proposal_pqc
  <2>3. KeepsRound(state[b])
    BY <2>2 DEF KeepsRound, NewRoundState
  <2> QED  BY <2>1, <2>3 DEF Discipline, Disciplined
<1> QED  BY <1>1, <1>2 DEF VotingInv

-----------------------------------------------------------------------------
(***************************************************************************)
(* Theorems                                                                *)
(***************************************************************************)
(* The discipline of every baker is an invariant. *)
THEOREM VotingInvariance ==
  ASSUME ~RecordState, TimelySigning, MaxRestarts = 0
  PROVE  Spec => [](Inv /\ RoundInv /\ VotingInv)
<1>1. Init => VotingInv
  BY InitVoting
<1>2. /\ Inv /\ RoundInv /\ VotingInv /\ (Inv /\ RoundInv)' /\ [Next]_vars
      => VotingInv'
  BY NextVoting
<1>3. Spec => [](Inv /\ RoundInv)
  BY RoundInvariance
<1> QED  BY <1>1, <1>2, <1>3, PTL DEF Spec

(* The bakers implement TenderbakeVoting: every vote of level 1 that a     *)
(* baker injects (perform_action), and every other step, is one that the   *)
(* discipline of the committee allows.                                     *)
THEOREM ImplementsVotingHolds ==
  ASSUME ~RecordState, TimelySigning, MaxRestarts = 0
  PROVE  Spec => ImplementsVoting
<1>1. Init => Voting!Init
  BY InitVoting
<1>2. /\ Inv /\ RoundInv /\ VotingInv /\ (Inv /\ RoundInv /\ VotingInv)'
      /\ [Next]_vars
      => [Voting!Next]_(Voting!votes)
  BY NextVoting DEF VotingStep
<1>3. Spec => [](Inv /\ RoundInv /\ VotingInv)
  BY VotingInvariance
<1> QED  BY <1>1, <1>2, <1>3, PTL DEF Spec, ImplementsVoting, Voting!Spec

VP == INSTANCE TenderbakeVotingProofs WITH
        Honest <- Bakers \union Peers, Round <- Rounds(1),
        Payload <- [pred : {Genesis}, round : Rounds(1), ops : Ops],
        preattestations <- VotesOfLevel1(preattestations),
        attestations <- VotesOfLevel1(attestations)

(* Agreement: whatever the committee, the number of rounds and the order   *)
(* of announcements, signatures and quorums, the bakers never make two     *)
(* blocks of level 1 with different payloads final.                        *)
THEOREM BakersAgree ==
  ASSUME ~RecordState, TimelySigning, MaxRestarts = 0
  PROVE  Spec => []FinalBlocksAgree
<1>1. ImplementsVoting => VP!Spec
  BY DEF ImplementsVoting, Voting!Spec, VP!Spec, Voting!Init, VP!Init, Voting!Next,
     VP!Next, Voting!votes, VP!votes, Voting!Preattest, VP!Preattest, Voting!Attest,
     VP!Attest, Voting!vote, VP!vote, Voting!Prequorum, VP!Prequorum
<1>2. \A Q1, Q2 \in Quorums : Q1 \intersect Q2 \intersect (Bakers \union Peers) # {}
  BY QuorumAssumption, MembersAssumption DEF Members
<1>3. Rounds(1) \subseteq Nat
  BY DEF Rounds
<1>4. VP!Spec => []VP!Agreement
  BY <1>2, <1>3, VP!AgreementHolds
<1>5. Inv /\ RoundInv /\ VP!Agreement => FinalBlocksAgree
  <2> SUFFICES ASSUME Inv, RoundInv, VP!Agreement, NEW p \in blocks, NEW q \in blocks,
                      p.level = 1, q.level = 1, Final(p), Final(q)
               PROVE  p.payload = q.payload
    BY DEF FinalBlocksAgree
  <2>1. ASSUME NEW x \in blocks, x.level = 1, Final(x)
        PROVE  /\ x.round \in Rounds(1) /\ x.payload \in Payload1
               /\ VP!Quorum(x.round, x.payload)
    <3>1. x # Genesis
      BY <2>1 DEF Genesis
    <3>2. Vote(x) = Cert(1, x.round, x.payload)
      BY <2>1 DEF Vote, Cert
    <3>3. PICK Q \in Quorums : Sent(attestations, Cert(1, x.round, x.payload), Q)
      BY <2>1, <3>1, <3>2 DEF Final, Quorum
    <3>4. VP!Quorum(x.round, x.payload)
      BY <3>3, LevelOneQuorum DEF VP!Quorum, VP!vote, Voting!vote
    <3>5. Chain(blocks, Certified) /\ BlocksAreValid(blocks, FinalBlocks)
      BY DEF Inv, BlockInv, RoundInv
    <3>6. Vote(x) \in VotesFor(blocks) /\ Vote(x).level = 1
          /\ Vote(x).round = x.round /\ Vote(x).payload = x.payload
      BY <2>1 DEF VotesFor, Vote
    <3>7. OfLevel1(Vote(x))
      BY <3>5, <3>6, LevelOne
    <3> QED  BY <3>4, <3>6, <3>7 DEF OfLevel1
  <2> QED  BY <2>1 DEF VP!Agreement, Payload1
<1>6. Spec => [](Inv /\ RoundInv)
  BY RoundInvariance
<1>7. Spec => ImplementsVoting
  BY ImplementsVotingHolds
<1> QED  BY <1>1, <1>4, <1>5, <1>6, <1>7, PTL

(* With one level, all votes are of a level without branches. *)
LEMMA VotesInTime ==
  ASSUME Inv, VotingInv, MaxLevel <= 1, NEW v \in preattestations \union attestations,
         v.member \in Bakers
  PROVE  /\ v.vote.level <= 1
         /\ v.vote \in [level : Nat, round : Nat, payload : Payloads(blocks)]
         /\ v \in attestations => v.vote \in SentBy(v.member, attestations)
         /\ v \in preattestations => v.vote \in SentBy(v.member, preattestations)
         /\ Discipline(v.member)
<1>1. PICK p \in blocks : v.vote = Vote(p)
  BY DEF Inv, VoteInv, SentVotes, VotesFor
<1>2. p.level \in 0 .. MaxLevel
  BY BlockTypes DEF Inv, BlockInv
<1>3. v.vote.level <= 1
  BY <1>1, <1>2, BoundsAssumption DEF Vote
<1>4. v.vote \in [level : Nat, round : Nat, payload : Payloads(blocks)]
  BY <1>1, VoteTypes DEF VotesFor, Inv
<1> QED  BY <1>3, <1>4 DEF SentBy, VotingInv

(* A baker attests only what reached a prequorum in that very round        *)
(* (handle_forged_attestation, may_inject_attestations).                   *)
THEOREM AttestedHasPrequorumHolds ==
  ASSUME ~RecordState, TimelySigning, MaxRestarts = 0, MaxLevel <= 1
  PROVE  Spec => []AttestedHasPrequorum
<1>1. Inv /\ VotingInv => AttestedHasPrequorum
  <2> SUFFICES ASSUME Inv, VotingInv, NEW v \in attestations, v.member \in Bakers
               PROVE  Prequorum(v.vote)
    BY DEF AttestedHasPrequorum
  <2>1. v.vote \in Certified
    BY VotesInTime DEF Discipline, Disciplined
  <2> QED  BY <2>1 DEF Certified, CertifiedBy, Prequorum
<1> QED  BY <1>1, VotingInvariance, PTL

(* A baker that attested at its level is locked at that round or later:    *)
(* level_state.locked_round, set when the prequorum is reached.            *)
THEOREM AttestedIsLockedHolds ==
  ASSUME ~RecordState, TimelySigning, MaxRestarts = 0, MaxLevel <= 1
  PROVE  Spec => []AttestedIsLocked
<1>1. Inv /\ VotingInv => AttestedIsLocked
  <2> SUFFICES ASSUME Inv, VotingInv, NEW v \in attestations, v.member \in Bakers,
                      v.vote.level = ls(v.member).current_level
               PROVE  ls(v.member).locked_round.round >= v.vote.round
    BY DEF AttestedIsLocked
  <2>1. AttestedInTime(state[v.member], v.vote)
    BY VotesInTime DEF Discipline, Disciplined
  <2>2. Here(v.vote, state[v.member])
    BY VotesInTime DEF Here, ls
  <2>3. v.vote.round \in Int /\ ls(v.member).locked_round.round \in Int
    <3>1. StateInv(v.member)
      BY DEF Inv, BakerInv
    <3>2. ls(v.member).locked_round.round \in Int
      BY <3>1 DEF StateInv, Good, State, LevelState, Lock, OptRound, NoRound, ls
    <3> QED  BY <3>2, VotesInTime
  <2> QED  BY <2>1, <2>2, <2>3 DEF AttestedInTime, ls
<1> QED  BY <1>1, VotingInvariance, PTL

(* The lock at work (handle_proposal): after attesting a payload, a baker  *)
(* preattests another in a later round only if a later prequorum for it    *)
(* released the lock.                                                      *)
THEOREM PreattestsAreReleasedHolds ==
  ASSUME ~RecordState, TimelySigning, MaxRestarts = 0, MaxLevel <= 1
  PROVE  Spec => []PreattestsAreReleased
<1>1. Inv /\ VotingInv => PreattestsAreReleased
  <2> SUFFICES ASSUME Inv, VotingInv, NEW v \in attestations, NEW w \in preattestations,
                      v.member = w.member, v.member \in Bakers,
                      v.vote.level = w.vote.level, v.vote.round < w.vote.round,
                      v.vote.payload # w.vote.payload
               PROVE  \E r \in v.vote.round + 1 .. w.vote.round :
                        Prequorum([w.vote EXCEPT !.round = r])
    BY DEF PreattestsAreReleased
  <2>1. /\ v.vote \in SentBy(w.member, attestations)
        /\ v.vote.round \in Nat /\ w.vote.round \in Nat
        /\ w.vote \in [level : Nat, round : Nat, payload : Payloads(blocks)]
    BY VotesInTime
  <2>2. Released(w.vote, SentBy(w.member, attestations), Certified)
    BY VotesInTime DEF Discipline, Disciplined, Preattested
  <2>3. PICK r \in Nat : v.vote.round < r /\ r <= w.vote.round /\
          Cert(w.vote.level, r, w.vote.payload) \in Certified
    BY <2>1, <2>2 DEF Released
  <2>4. Cert(w.vote.level, r, w.vote.payload) = [w.vote EXCEPT !.round = r]
    BY <2>1 DEF Cert
  <2>5. Prequorum([w.vote EXCEPT !.round = r])
    BY <2>3, <2>4 DEF Certified, CertifiedBy, Prequorum
  <2> QED  BY <2>1, <2>3, <2>5
<1> QED  BY <1>1, VotingInvariance, PTL
================================================================================
