# TLA+ models of Octez: the Tenderbake baker and the Etherlink kernel

Octez is the node, baker and tool suite of Tezos. This project models two of its
programs, those where ordering, crashes and concurrency decide whether a chain
is safe:

- the **baker** (`src/src/proto_alpha/lib_delegate`, OCaml), the daemon that votes
  and proposes under the Tenderbake consensus algorithm;
- the **kernel of Etherlink** (`src/etherlink/kernel_evm/kernel`, Rust), the
  program a smart rollup runs to turn L1 messages and blueprints of a sequencer
  into the blocks of an EVM chain.

File names below are relative to these directories. The two models share
nothing: the baker makes the L1 whose levels the kernel reads.

## 1. Inventory

### The baker and what surrounds it

| Component | State | Operations | Hard behaviour |
|---|---|---|---|
| Automaton, `state_transitions.ml` | level state (latest proposal and its applied flag, lock, attestable payload, elected block), round state (round, phase, delayed quorum, early attestations, awaiting-unlocking flag) | `step`: one handler per event | events arrive in orders nobody scheduled; the lock must survive all of them |
| Actions, `baking_actions.ml` | none | `perform_action`, `update_to_level`, `synchronize_round`, injection | two actions re-enter the automaton; injection precedes recording |
| State and recording, `baking_state.ml` | recorded level, lock, attestable payload | `may_record_new_state`, `may_load_attestable_data` | crash between injection and recording; a refused recording |
| Scheduling loop, `baking_scheduling.ml` | pending promises, timeouts | `wait_next_event`, `compute_next_timeout`, `automaton_loop`, start-up | `Lwt.choose` picks any ready event |
| Forge worker, `forge_worker.ml` | one signing queue per delegate | push, cancel, sign | signs in parallel with the loop: answers late, after the round, or never |
| Operation worker, `operation_worker.ml` | watched candidate, counted votes | watch, count, emit a (pre)quorum event | an event may concern a candidate the automaton has left |
| High watermarks, `baking_highwatermarks.ml` | last (level, round) signed per kind | `may_sign`, `record` | the only protection against double signing after a crash |
| Fitness, `lib_protocol/fitness_repr.ml` | none | `compare` | decides which head the node announces |

The components interact through streams and shared state. The node announces
blocks to the loop on two independent streams (valid, then applied as head). The
loop runs `step` on the event and performs the action returned: this may install
a watch in the operation worker, queue requests at the forge worker, or inject a
vote or a block through the node. The workers answer with events: quorum
reached, vote or block forged. After each turn the state may be recorded on disk.

What makes the baker correct:

- *agreement*: no two payloads reach an attestation quorum at one level;
- *the lock*: having attested a payload, a baker supports another one only when
  a later prequorum releases it; the certificate behind a lock or an attestable
  payload exists;
- *no double signing* at a level and a round, across crashes;
- *valid proposals*: a block it sends extends a final block and carries the
  certificate its payload needs;
- *progress*: in a round long enough, the proposal is elected.

### The kernel of Etherlink

At every L1 level the PVM of the rollup calls the kernel. A run may ask for a
reboot, and is then called again on the same level, up to a number of reboots.
Memory is lost between two runs; the durable storage is all that stays.

| Component | State | Operations | Hard behaviour |
|---|---|---|---|
| Stage zero, `migration.rs`, `fallback_upgrade.rs` | storage version, kernel in place, backup kernel | one migration per run, fallback | one migration of several fails |
| Stage one, `stage_one.rs`, `inbox.rs`, `parsing.rs`, `dal.rs` | position in the inbox, chunks of a delayed transaction in memory | one handler per kind of message; at the end, forced blueprints | a reboot in the middle of the inbox; a timeout while the sequencer sends the same transactions |
| Delayed inbox, `delayed_inbox.rs` on `linked_list.rs` | a doubly linked list in the storage, with copies of its ends | push, remove anywhere, first, pop | the copies must follow the cells |
| Blueprint storage, `blueprint_storage.rs` | chunks by block number | store, read and validate, drop | chunks in any order; forced and sequencer blueprints in one place |
| Stage two, `block.rs`, `block_in_progress.rs` | world state, its temporary copy, block in progress | resume, start, apply, retry, discard, revert, promote | a block cut by reboots, levels, upgrades |
| Upgrades, `upgrade.rs` | planned kernel, planned sequencer | plan, activate, force | blueprints and blocks in progress of the former kernel or sequencer |

What makes the kernel correct:

- *atomic blocks*: the world is the result of whole blocks, whatever was
  reverted or resumed;
- *the chain*: a block of the sequencer is added to the head its blueprint names,
  while it is the sequencer; timestamps do not go back;
- *the delayed inbox*: a transaction sent through L1 (a deposit, or any
  transaction the sequencer would censor) is executed once, and by its deadline;
- *governance*: upgrades take over at their time, and whatever fails the kernel
  reaches the inbox again, from which it can be repaired;
- *progress*: a level ends.

### The rest of the repository

`PROJECT.json` lists every other component with the reason it is not modelled:
seed nonces, accuser, block construction, proof of work and VDF, commands,
agnostic baker; requester, workers, gossipsub, mempool, validators, distributed
database, peer-to-peer layer, store, block validation; economic protocol;
injector, crawler, rollup node, data-availability node, signer, context storage;
the EVM, the node of Etherlink, the kernel SDK, MIR; cryptography and virtual
machines. The modules of the baker see the node only
through its announcements and the votes it relays.

## 2. Modules

| Module | Models |
|---|---|
| `StateTransitions` | the automaton as pure operators: `handler(state, event)` gives the new state and one action, as `State_transitions.step` does. Handlers keep the names of the code. |
| `Highwatermarks` | `may_sign`, `record` |
| `Baker` | any number of bakers, each with its automaton, workers and files, and the network between them; the properties of the system |
| `TenderbakeVoting` | the abstract specification: what honest members promise about their votes at one level |
| `TenderbakeVotingProofs` | proofs about `TenderbakeVoting`: agreement |
| `StateTransitionsProofs` | lemmas about every handler of the automaton, used by the next three |
| `BakerProofs` | proofs about `Baker` for every value of the constants: certificates, the lock, no double signing |
| `BakerRoundProofs` | proofs about bakers that do not record their state: types, proposals, order of locks |
| `BakerVotingProofs` | the refinement from `Baker` to `TenderbakeVoting`, and agreement of the bakers |
| `LinkedList` | the doubly linked list of the delayed inbox, cell by cell |
| `LinkedListProofs` | proofs about `LinkedList`: well linked, and a refinement of `OrderedSet` |
| `OrderedSet` | the abstract specification of that list: a queue of entries, any of which can be taken |
| `BlueprintStorage` | chunks, forced blueprints and their validation, as operators on the stored value |
| `EvmKernel` | the kernel: runs, levels, the three stages, and the environment (L1, PVM, sequencer) |
| `EvmKernelProofs` | proofs about `EvmKernel` for every value of the constants: types, atomic blocks, the chain |
| `EvmDelayedProofs` | proofs about delayed transactions, under the conditions in which the promises about them can hold |
| `MCBaker`, `MCTenderbakeVoting`, `MCLinkedList`, `MCEvmKernel` | committees, proposers, contents and bounds for TLC |

`Baker` extends `StateTransitions` and `Highwatermarks` and instantiates
`TenderbakeVoting` with a refinement mapping (`Voting`). `EvmKernel` extends
`BlueprintStorage`; its delayed inbox is the queue that `LinkedList` is shown to
implement (`ImplementsQueue`), so the two compose through `OrderedSet`.

### State and actions of `Baker`

`state[b]` is `Baking_state.t` restricted to what the handlers read. The
operation worker is `proposal_watched` (its watch) and `qc_event_stream` (events
not yet handled); the forge worker is the queue `forge_requests`; the files are
`highwatermarks` and `recorded`; `unrecorded` marks the window between performing
an action and recording the state. `validated` and `head` are what the node
announced. `blocks`, `preattestations` and `attestations` are everything ever
sent: since they only grow and every reader picks from them when it likes,
messages are delayed, reordered, duplicated and lost by construction.

One action is one turn of `automaton_loop` (an event, its step, and the action
performed to its end) or one step of a worker:

| Action | Code |
|---|---|
| `NewValidProposal`, `NewHeadProposal` | events `New_valid_proposal`, `New_head_proposal` |
| `EndOfRound`, `TimeToPrepareNextLevelBlock` | the two timeouts; `next_round_armed` and `next_baking_armed` say when they are armed |
| `QuorumEvent` | events `Prequorum_reached`, `Quorum_reached` |
| `update_monitoring` | the operation worker counts enough votes and emits one event |
| `NewForgedVote`, `NewForgedBlock`, `RequestDropped` | the forge worker answers, or fails; the watermark is written first |
| `Record`, `Restart` | recording the state; a crash at any point, then start-up from the files and the node's head |
| `PeerPreattests`, `PeerAttests` | the rest of the committee |

The committee has three kinds of members. *Bakers* run the code. *Peers* are
honest members seen from outside: they follow `TenderbakeVoting` and nothing
more. *Byzantine* members count as having sent every vote, and may send any
number of blocks their rounds allow.

### State and actions of `EvmKernel`

`pc` says which stage a run is in (`"wait"` between two levels). `buffer`, `bip`
and `run` are what a run has in memory; they are lost by `Reboot` and `Finished`.
All the rest is in the durable storage, or is L1 (`level`, `inputs`, `sent`,
`sending`, `inbox`). `world` and `tmp` are `/evm/world_state` and its copy: the
chain, the transactions applied, and the block in progress, which the code also
keeps in the copy.

| Action | Code |
|---|---|
| `Level` | the PVM starts the next level; what is unread of the last inbox is gone |
| `Migrate`, `fallback_backup_kernel`, `NoMigration` | `stage_zero` and its outcomes in `main` |
| `Info`, `DelayedInput`, `parse_new_chunk`, `parse_chunk`, `SequencerBlueprint`, `DalSlotImportSignals`, `store_kernel_upgrade`, `store_sequencer_upgrade`, `force_kernel_upgrade` | one message of the inbox each, `read_sequencer_inbox` |
| `EndOfInbox` | timeout of the delayed inbox, forced blueprints, reboot |
| `ResumeBlock`, `possible_sequencer_upgrade` | the start of `produce` |
| `NoBlueprint`, `invalidate_blueprint`, `UpgradeKernel`, `StartBlock` | `next_bip_from_blueprints` and its outcomes |
| `ApplyTransaction`, `RetryTransaction`, `DiscardTransaction` | one turn of the loop of `compute` |
| `promote_block`, `revert_block` | the end of a block |

`LinkedList` has one action per method, and `new` for the start of a run.

### Abstractions of the kernel

- The hash of a block is the chain that ends with it: two blocks have the same
  hash only if they have the same past.
- A chunk is the part its index names of a blueprint cut into so many. Chunks put
  together decode if they are parts of one cut of one blueprint.
- Executing a transaction records that it was executed. A transaction that is
  found invalid is done with in the same way. Ticks are a choice: a run may
  be out of them at any retriable transaction (`RetryTransaction`), at any message
  where `InboxMayReboot`, and a level may run out of reboots where
  `RebootsMayRunOut`.
- The sequencer signs blueprints for the next number, on the head or on another
  parent, and for the one after, on the head it predicts; it may name a delayed
  transaction twice in a blueprint. Blueprints for old numbers are stored by
  the code and never read: they are left out.
- L1 sends each delayed transaction once (its hash is unique); a transaction sent
  in chunks has two. A DAL slot holds the chunks of one blueprint.
- Preimages of kernels can always be revealed; a migration succeeds or fails in one
  run.
- `current_timestamp` adds an average block time to the time of L1. It is always
  null: `store_last_info_per_level_timestamp` (`storage.rs:595`) stores the new
  timestamp before `store_info_per_level_stats` takes its difference with it.

### Abstractions of the baker

- A block stands for its own hash; a payload is what `block_payload_repr.ml`
  hashes, i.e. predecessor, round of first proposal, operations; a certificate is
  its round. A vote is (level, round, payload), which is what consensus
  operations contain; the branch is not part of what is counted.
- Time: a timeout may fire at any moment once armed, and the round computed when
  a level or branch is entered is any round not before that of the block.
- A baker has one delegate. Voting power appears only as the set `Quorums`.
- An injection by the node does not fail. File-system errors are not modelled.
- `TimelySigning` states that the votes of a round are signed before the baker
  leaves it. The runs `restart` and `late_signing` do without it.

## 3. Runs

The runs of the baker and of the kernel disable the deadlock check: levels, rounds
and blocks are bounded, so a behaviour ends when the last one is over.
`linked_list` keeps it.

| Run | Instance | Checks |
|---|---|---|
| `voting` | 3 honest of 4, quorums of 3, 3 rounds, 2 payloads, symmetry | `Agreement` and the inductive invariant `IInv` of the abstract specification |
| `automaton` | one baker, peers that alone are a quorum, one level, 3 rounds | `TypeOK`, `LockIsCertified`, `CertificatesAreReal`, `DelayedQuorumIsForLatest`, `AttestedHasPrequorum`, `AttestedIsLocked`, `PreattestsAreReleased`, `LockMovesForward`, `ElectedBlockStays` |
| `branches` | one baker, the proposer of round 1 of level 1, 2 levels of 2 rounds: two final blocks of level 1 with one payload give two branches of level 2 | `LockIsCertified` across the level change; `CertificatesAreReal` and `LockMovesForward` when `may_switch_branch` runs; `OwnBlocksAreValid` |
| `restart` | a crash anywhere, a signer that fails or is late, recording on | `NoDoubleSigning`, `CertificatesAreReal` |
| `byzantine` | 2 bakers and an equivocating Byzantine proposer | `FinalBlocksAgree`, `ImplementsVoting` |
| `progress` | 2 bakers and a peer, any 2 a quorum, 2 levels of one long round | `EventuallyElected` |
| `linked_list` | 5 identifiers, 2 elements, any operations | `TypeOK`, `CachedEndsAreStored`, `Linked`, the refinement `ImplementsQueue` |
| `kernel` | 2 levels of 2 messages, any chunks, 2 sequencers, an upgrade whose second migration fails, blocks that fail, reboots that run out | `TypeOK`, `BipHasBlueprint`, `WorldIsAtomic`, `ExtendsItsParent`, `SequencerExtends` |
| `delayed` | 3 levels of 2 messages, 2 delayed transactions, whole blueprints with timestamps ahead of L1, blueprints that name a transaction twice, upgrades with a migration, planned and forced, the second of which fails and falls back | `NoDelayedTransactionLost`, `ExecutedInOneBlock`, `TimestampsIncrease`, `Deadline`, `LevelEnds` |

### Bounds

Three rounds are the least in which a lock is taken, contradicted and released
(a lock at round 0, a prequorum for another payload at round 1, a vote for it at
round 2), so `automaton` and `voting` have three. Level changes and branches need
two levels, and two rounds at level 1 for two branches to exist. `restart` allows
one crash: the state that survives (the two files) is a function of the past, so
a second crash meets the same code with the same kinds of files. One operation
set per payload suffices where payloads of different rounds already differ;
`byzantine` and `restart` have two, so that one round can have two blocks.

In the runs with one baker the peers alone are a quorum. They can therefore
produce every certificate that honest members could, with or without the baker:
the baker meets every order of prequorums, quorums, announcements and timeouts.

Five identifiers are the least for which an element of the list is removed between
two others that are neither its front nor its back. `kernel` has two levels, so
that a block in progress crosses one, two chunks per blueprint and two messages
per level: the chunks of a blueprint, or a blueprint and what disturbs it. `delayed`
has three, so that a transaction is sent, times out at the next level, and a
blueprint or an upgrade follows; `Timeout` and `MinLevels` are reached exactly.
`MaxForced = 1` makes two delayed transactions two forced blueprints. `Offsets`
reaches beyond `Lookahead`, so that a blueprint from the future is refused.

`delayed` has the reboots it needs, whole blueprints and no failing block: these
are the conditions under which the promises about delayed transactions can hold
(see Findings and Limits for what happens without them).

### Fairness

`delayed` and `fallback` use the `FairSpec` of `EvmKernel`: weak fairness of `Run`,
every step of a run but the start of a level. The PVM executes the kernel to the
end of the level, so a run that can go on does. Nothing is assumed of L1 or of the
sequencer.

`progress` uses `FairSpec`: weak fairness of every action of the loop and of the
workers, for each baker, and none for peers, timeouts of rounds or crashes. The
code justifies it so: Lwt resolves each ready promise eventually and the loop has
no other work; the operation and forge workers run their own loops; the node
relays the votes and blocks it received. `End_of_round` never fires there (each
level has one round): this is the "round long enough" of the Tenderbake
documentation, which progress needs and the code does not guarantee by itself
(rounds grow until it is so).

### Findings

Eight configurations end with a violation of what a comment, a test or the
documentation says. Each is a disagreement of the code with its text, shown by the
trace TLC prints. The first three are runs of `PROJECT.json`; the other five are
reproduced by hand, `tlc -config duplicate.cfg MCEvmKernel` and so on, `lost_lock` with
the module `MCBaker`.

| Configuration | What the trace shows |
|---|---|
| `late_signing` | Votes signed after their round. `handle_forged_attestation` compares the payload of a late attestation with the attestable payload, not its round: a reproposal is attested though it had no prequorum in its own round. The comment at `state_transitions.ml:1158` says such attestations are not injected. |
| `forced_lost` | The sequencer sends the second chunk of a two-chunk blueprint and no first one. A delayed transaction times out: it is taken out of the delayed inbox and stored as a one-chunk blueprint under the same number. `read_next_blueprint` finds two chunks where one is announced and deletes both: the transaction, possibly a deposit, is gone. The comment there counts on the sequencer to send the blueprint again, which it cannot for a forced one; `CHANGES_KERNEL.md:97` says that transactions leave the delayed inbox only if they are applied in a block. |
| `fallback` | A kernel adds two storage versions. The first migration succeeds and its version is stored; the second fails. The former kernel takes its place back, meets a version it does not know, which is again a reason to fall back, and its backup is itself. Every later run and level does the same: the inbox, and with it any upgrade that could repair the rollup, is never read again, although `lib.rs:249-252` says it always must be. The trace ends in a loop that changes nothing. |
| `duplicate` | The sequencer signs a blueprint that names one delayed transaction twice. `fetch_delayed_txs` (`blueprint_storage.rs:223-238`) looks up each hash without removing it or comparing it with the others, so the blueprint is valid and the block executes the transaction twice. A nonce makes the second execution of an Ethereum transaction void; `execute_deposit` (`bridge.rs:180-198`) has nothing of the kind. The test at `block.rs:1133` ("the same transaction can not be replayed twice") has such a blueprint, with an Ethereum transaction, and does not reach deposits. |
| `executed_again` | A block of the sequencer with a delayed transaction is in progress when its level runs out of reboots. At the next level two transactions time out, this one in the second batch. The forced blueprints are numbered from the stored head; the block in progress is promoted under the number of the first, and the second executes the transaction again. `evm_sequencer.ml:4023` counts on a deposit not being processed twice. |
| `late_forced` | The same crossing, with a block whose timestamp is ahead of L1. `fetch_delayed_transactions` dates the forced blueprints after the stored head, and the block in progress comes in between: the forced block after it goes back in time, although `CHANGES_KERNEL.md:147` says that it never does. |
| `late_upgrade` | A block crosses a level, and the inbox of that level plans an upgrade for an earlier time than the block's. `produce` resumes and promotes the block without the comparison of `block.rs:224`, so the former kernel adds a block after the activation time (`evm_node.mli:393-396`: the upgrade is "at the first block after" it). |
| `lost_lock` | `automaton_loop` injects the attestation and then records the lock (`baking_scheduling.ml:868`): a baker killed in between restarts with an attestation on the network and no lock, which `baking_state.mli:253` calls "the last block attested by the baker". The same happens to a lock that was recorded when the head of the node is of an older level (`baking_state.ml:943`). `NoDoubleSigning` still holds, in `restart` and by its theorem: the high watermarks do not depend on the lock. |

`late_signing` also says why `AttestedHasPrequorum`, and with it
`ImplementsVoting`, are checked under `TimelySigning`; `lost_lock` why
`AttestedIsLocked` is checked without restarts; `executed_again` and `late_forced` why
`delayed` gives every level the reboots it needs. `UpgradeTakesOver` is a property of
`late_upgrade` only: where no block crosses a level it says no more than the guard
of `StartBlock`. `StageOneIsReached` is a property of `fallback` only: in `delayed`,
where a migration fails too, `LevelEnds` implies it.

## 4. Proofs

Every safety property the passing runs check is also a theorem, checked by TLAPS for every
value of the constants that meets the named assumptions. TLC evaluates these
assumptions in the runs. Some theorems need more: a condition on the constants
that appears as an `ASSUME` of the theorem itself and is the condition of the run
that checks the property. Where the condition is dropped the property is
usually false, and a run, a hazard or an observation says how.

| Property | Theorem | Condition |
|---|---|---|
| `Agreement`, `IInv` | `TenderbakeVotingProofs!AgreementHolds`, `Invariance` | none |
| `NoDoubleSigning`, `CertificatesAreReal`, `LockIsCertified` | `BakerProofs!NoDoubleSigningHolds`, `CertificatesHold`, `LockHolds` | none |
| `TypeOK`, `DelayedQuorumIsForLatest`, `OwnBlocksAreValid` | `BakerRoundProofs!TypeCorrect`, `DelayedQuorumHolds`, `OwnBlocksHold` | no recorder |
| `LockMovesForward`, `ElectedBlockStays` | `BakerRoundProofs!LocksMoveForward`, `ElectedBlockStaysHolds` | no recorder, no restart |
| `ImplementsVoting`, `FinalBlocksAgree` | `BakerVotingProofs!ImplementsVotingHolds`, `BakersAgree` | no recorder, no restart, votes signed in time |
| `AttestedHasPrequorum`, `AttestedIsLocked`, `PreattestsAreReleased` | `BakerVotingProofs!AttestedHasPrequorumHolds`, ... | the same, and one level |
| `Linked`, `CachedEndsAreStored`, `TypeOK`, `ImplementsQueue` | `LinkedListProofs!WellLinked`, `EndsAreStored`, `TypeCorrect`, `ImplementsQueueHolds` | none |
| `TypeOK`, `BipHasBlueprint`, `WorldIsAtomic`, `ExtendsItsParent`, `SequencerExtends` | `EvmKernelProofs!TypeCorrect`, ... | none |
| `ExecutedInOneBlock` | `EvmDelayedProofs!ExecutedInOneBlockHolds` | levels have the reboots they need |
| `TimestampsIncrease`, `Deadline` | `EvmDelayedProofs!TimestampsIncreaseHolds`, `DeadlineHolds` | `Whole` |
| `NoDelayedTransactionLost` | `EvmDelayedProofs!NoDelayedTransactionLostHolds` | `Whole`, `Careful` |

### Agreement of the votes: `TenderbakeVotingProofs`

Assumptions: `QuorumAssumption`, two quorums share an honest member (this is what
`consensus_threshold`, more than two thirds of the slots, gives when less than a
third of them is Byzantine), and `RoundAssumption`, rounds are naturals.

`Agreement` is not inductive: a quorum for `p` at round `r` says
nothing of what may be preattested later. `IInv` adds `OnePreattestation`,
`AttestedHasPrequorum`, `LockHolds` and the key part, `PrequorumMeansMovedOn`: if
`q` has a prequorum at a round after `r` and `q # p`, then some whole quorum has
*moved on*: each honest member of it preattested past `r` without having attested
`p` at `r`, and `Attest` forbids it to do so later. A quorum for `p` at `r` would
share an honest member with that quorum: contradiction. The invariant is
preserved by `Preattest` because a member that attested `p` needs a prequorum for
`q` in between, for which the invariant already gave such a quorum, or that
prequorum is the one being completed, when its own members are past `r`. Two
quorums of one round fall to `OnePreattestation`.

### The bakers: `BakerProofs`, `BakerRoundProofs`, `BakerVotingProofs`

Assumptions: `MembersAssumption` (the kinds of members are disjoint),
`QuorumAssumption` (two quorums share an honest member), `BoundsAssumption`. Blocks
are nested records of unbounded depth; the proofs never unfold them: they
compare payloads and certificates as opaque values and take the set of blocks
sent as a parameter.

Each module adds a layer to the invariant.

- `Inv` (`BakerProofs`), for all constants, with restarts, recording and late
  signatures. Every value a baker has in memory, in its workers and on disk is
  built from blocks that were sent. Behind each lock, attestable payload, quorum
  event and certificate of a block there is a prequorum on the network, and the
  attestable payload is at least as recent as the lock. All that was signed is at or below the
  high watermark of its kind, and differs in level or round (`WatermarkInv`);
  attestations kept back count as signed. The network only grows, so what it
  justifies stays justified (`Grows`); a baker that takes no step keeps its part.
  The rest is one lemma per handler (`StateTransitionsProofs` says what each
  returns) and one per way in which an action is performed.
- `RoundInv` (`BakerRoundProofs`), without the recorder: the clock of a baker is not
  behind its latest proposal, the lock is not beyond it, a delayed quorum is for it,
  and blocks that wait for a signature are valid when they are sent, though the
  proposal, the level or the branch may change in between. A refused recording
  breaks this (see Limits), hence the condition.
- `VotingInv` (`BakerVotingProofs`), the discipline of a baker at level 1. Attestations
  kept back are for the proposal of this round. Votes that wait for a signature are
  for the latest proposal, of this round, which is locked once preattestations are
  no longer awaited: this is what `cancel_all_pending_tasks` and `TimelySigning`
  give, and what `late_signing` breaks. What was attested has a prequorum in that
  round, and the lock is at that round or later. What was or will be preattested
  after another payload was attested is *released* by a certificate of a round
  in between: for a vote in the forge worker this is the guard of
  `handle_proposal`, remembered until the signature arrives.

The refinement follows: the injection of a vote is `Preattest` or `Attest` of
`TenderbakeVoting`, whose guards are the last two facts and `OnePerRound`; every
other step leaves the votes alone; peers follow the abstract specification and
Byzantine members count as having voted for everything. `BakersAgree` puts the
refinement and `AgreementHolds` together: two final blocks of level 1 have the
same payload, for any committee, number of rounds and later levels.

### The list: `LinkedListProofs`

Assumptions: identifiers are finitely many, and `None` is no identifier, element,
pointer or pair of ends (`IdsAssumption`, `EltsAssumption`, `NoneAssumption`).

`CachedEndsAreStored` is not inductive: `remove` copies a neighbour
into the ends, so what is stored in the neighbours matters. `IInv` adds `Linked`,
which says of each cell only what its neighbours and the ends say of it, and
`Ranked`, some numbering of the cells grows along `next`. Without `Ranked` the
neighbours of a cell could be one and the same cell, of a ring of two, and
`remove` would save it twice. The four shapes of `remove` are shown to be one step,
`Unlinked` (`RemoveUnlinks`), whose effect on the invariant is proved once
(`UnlinkKeepsIInv`); `push` gives the new back a rank above the former one.

For the refinement, `Ordered` says that some sequence of identifiers lists the
cells from front to back. A walk from the front meets their elements in that order
(`WalkMeetsAll`, by induction on the number of cells left; it ends because a list is not
longer than there are identifiers). `push` appends to the sequence, `Unlinked`
removes one place of it, so the content of the queue follows, and `new`, which reads
the ends again at the start of a run, changes nothing.

### The kernel: `EvmKernelProofs`, `EvmDelayedProofs`

Assumptions, named in `EvmKernel`: chunkings, contents and sequencers are of their
types, at least one transaction fits a forced blueprint, the time of L1 does not go
back, the first kernel knows its storage version, `None` is none of the values.

Induction over data. The provers cannot instantiate the induction theorems of
the library. The proofs go through the least element of a set of naturals instead
(`LeastNatural`, `Induction`, from well-foundedness). In this way the recursive functions
behind `Without`, `FlattenSeq` and `Walk` are shown to exist and to select, join
and meet what they should.

`Inv` (`EvmKernelProofs`), for all constants:
- `TransferInv`: a transaction in chunks is put together from the chunks of one
  transfer; the delayed inbox holds each transaction once, and only what was sent;
- `NumberInv`: a counting argument. Beyond the numbers of the sequencer, every
  number used is that of a forced blueprint, which took a transaction out of the
  delayed inbox; so the chain never outgrows `MaxBlocks` and one number for each
  transaction that left the inbox. Without it the set of block numbers could be
  left and `TypeOK` would fail;
- `ChunkInv`: stored chunks are the kernel's or of the sequencer in place, which a
  hand-over must ensure by clearing the others;
- `BlockInv`: a block in progress, in memory or stored, is that of the next number,
  keeps its blueprint, and names the head if it is the sequencer's.

`DelayedInv` (`EvmDelayedProofs`), when levels have the reboots they need: no block in
progress is left to the next inbox (`TurnInv`); a delayed transaction is in a
block, or in the delayed inbox, or in one forced blueprint yet to be executed, and
in one of these places only (`OnceInv`), though the block in progress has a copy of
its own. Nothing is assumed of what a blueprint of the sequencer names: a
transaction named twice is in one block, and twice in it (`duplicate`), so
`ExecutedInOneBlock` counts blocks, and executions only in the kernel's own blocks.

`WholeInv`, under `Whole`: one sequencer, blueprints in one chunk, blocks
that do not fail. Forced blueprints follow the head without a gap, with one timestamp not before
the head's, and are gone when the level ends: the one at the next number is always
read, and an inbox that was read to its end is followed by stage two until none is left. The delayed inbox is
in the order of L1, so if its first transaction is not due none is (`Deadline`).

`KeptInv`, for `NoDelayedTransactionLost`, adds that no chunk of a transfer is lost,
that the batches of forced blueprints contain every place of the delayed inbox
(`Batches`, by the least place that is in none) and have numbers (by counting), and
that the block of a forced blueprint executes the whole of it. Each part of
`Whole` and `Careful` is needed: a chunk of the sequencer deletes a forced blueprint
(`forced_lost`), a hand-over clears it, a failing block drops it, a level out of
reboots leaves a block in progress that is promoted in its place, a reboot in
the inbox forgets the first chunk of a transfer, and a transaction too
large for a run is discarded.

### What stays with TLC

Liveness (`EventuallyElected`, `LevelEnds`): fairness and
`ENABLED` are outside what the prover handles. Properties outside the conditions above
that are not known to be false: the types and the votes of a baker that records its
state, or restarts, or switches branches.

## 5. Mutants

Each property has a mutated definition, placed before the definition it changes
and marked `Mutant:`, such as a candidate that is not compared with the latest
proposal, an attestation not kept back until the prequorum, a copy of the end of a
list that is not refreshed, or a timeout off by one. They record which mistake each property detects.

## 6. Limits

- `ImplementsVoting`, and the agreement that follows, are about level 1, where there is one
  predecessor. At level 2 two branches may coexist (two final blocks with one
  payload). The high watermarks of preattestations and attestations are
  independent, and `may_switch_branch` follows any branch while there is no
  attestable payload: a baker may preattest at round 1 of one branch and then
  attest at round 0 of the other. It may also reach the phase `Idle` with an
  attestation in the forge worker, which `handle_forged_attestation` then injects
  though the round of the new branch had no prequorum; so `AttestedHasPrequorum`
  and the other invariants about votes are claimed of level 1. Whether this
  composes into two quorums is the next question on the list below.
- Batches, slots and double counting of votes in the operation worker; several
  delegates per baker; DAL, nonces, liquidity and other contents of payloads.
- Observations on the baker that have no run of their own: the invariant at
  `state_transitions.ml:757` (a level goes on after its election, so the lock can
  pass the elected round); "or a better fitness, we switch" at
  `state_transitions.ml:486` (no fitness is compared); a
  baker started in the round of the head does not vote for it, since
  `handle_proposal` takes the bootstrap event for a proposal it has handled
  (`baking_scheduling.ml:803`); two reproposals with one certificate, received in
  reverse order, move the attestable payload back a round, which
  `may_record_new_state` refuses; when it refuses the state that
  `synchronize_round` has just moved on, the baker keeps the new proposal with the
  round state of the old one.
- Kernel, delayed transactions: a reboot of stage one between the chunks of one
  loses it (`parsing.rs:416`); a block in progress that crosses a level drops, when
  it is promoted, a forced blueprint of its number (`executed_again` and `late_forced`
  show what becomes of the next one); a failing block drops its forced
  blueprint; a hand-over of the sequencer clears forced blueprints with the others
  (`upgrade.rs:239`). `NoDelayedTransactionLost` is therefore checked without these
  events, and they are hazards with a note or observations here.
- The end of a round in `progress`: a level has one round there. That bakers go on
  after a round without a quorum, or when `End_of_round` is off because the next
  level is prepared, needs rounds long enough for peers and announcements, which
  a clock that may tick at any time does not express.
- Kernel, not modelled: the proxy and simulation modes, the removal of the
  sequencer, execution of transactions, fees, receipts, withdrawals.
- Size. The Rust of the repository is mostly the vendored Wasmer compiler, the EVM
  and its precompiles, and the Michelson interpreter and type checker of MIR: code
  that computes on data in one thread and keeps no state between calls. A model
  of it would be a transliteration. The modules cover the Rust that keeps durable
  state and can be interrupted, and the OCaml of the baker; in lines both are a small
  share of the repository.

## 7. Plan

1. *Operation worker*: slots and voting power, batches, the filter at
   `operation_worker.ml:348` against its comment at 214-217, replacement of a
   watch during counting; shown to implement the atomic counting of `Baker`.
2. *Forge worker* with several delegates: queues, cancellation, order between
   delegates.
3. *Agreement across branches*: `Baker` started from a prefix with two final
   blocks of level 1, and `TenderbakeVoting` generalised to several predecessors.
4. *Node of Etherlink*: publication of blueprints and its reaction to forced ones,
   composed with `EvmKernel`, whose environment it would replace.
5. *Requester* and *worker* of the shell; then nonces, accuser, agnostic baker,
   gossipsub.
6. *Theorems*: `RoundInv` with the state recorder, where a refused recording leaves
   the round state behind the proposal; the invariants about votes at levels
   with branches, once item 3 has settled what holds there; `TimestampsIncrease`
   and `Deadline` when the sequencer is replaced, and with blueprints in chunks
   as far as `forced_lost` allows.
