----------------------------- MODULE EvmKernel -----------------------------
(***************************************************************************)
(* The kernel of the Etherlink rollup in sequencer mode                    *)
(* (etherlink/kernel_evm/kernel/src).  At every L1 level the PVM calls the *)
(* kernel; a run that asks for a reboot is followed by another one on the  *)
(* same level, as long as the level has reboots left.  A run goes through  *)
(* stage zero (migration of the storage), stage one (the L1 inbox is read  *)
(* into the delayed inbox and the blueprint storage) and stage two (blocks *)
(* are produced from the blueprints).  All that survives a reboot is in    *)
(* the durable storage; a block that runs out of ticks is kept there as a  *)
(* block in progress, together with a temporary copy of the world state.   *)
(*                                                                         *)
(* The hash of a block is modelled by the chain that ends with it.         *)
(***************************************************************************)
EXTENDS BlueprintStorage, SequencesExt

CONSTANTS
  Contents,     \* the transactions the sequencer may put in a blueprint
  TooLarge,     \* transactions that do not fit the ticks of a whole run
  Sequencers,   \* the keys, in the order in which they take over
  Time,         \* the timestamp each L1 level brings
  Offsets,      \* what the timestamp of a blueprint adds to that of the level
  Delays,       \* what the activation of an upgrade adds to it
  Chunking,     \* the pairs <<nb_chunks, index>> of the chunks that are sent
  Inputs,       \* the kinds of messages L1 sends
  Known,        \* the storage version each kernel, 0, 1..., was built for
  Failing,      \* the storage versions whose migration fails
  MaxForced,    \* MAX_DELAYED_INBOX_BLUEPRINT_LENGTH
  Timeout,      \* delayed_inbox_timeout
  MinLevels,    \* delayed_inbox_min_levels
  Lookahead,    \* max_blueprint_lookahead_in_seconds
  Grace,        \* the day after which a kernel upgrade can be forced
  MaxLevel, MaxBlocks, MaxInputs,      \* bounds of the model
  RebootsMayRunOut,   \* a level may end before the kernel is done
  InboxMayReboot,     \* stage one may run out of ticks
  BlockMayFail        \* the execution of a block may return an error

ASSUME ChunkingAssumption ==
  MaxChunks \in Nat \ {0} /\ Chunking \subseteq (1 .. MaxChunks) \X Indices
ASSUME ForcedAssumption == MaxForced \in Nat \ {0}
ASSUME TransactionsAssumption ==
  /\ IsFiniteSet(Delayed) /\ Plain \notin Delayed /\ Garbage \notin Delayed
  /\ Contents \subseteq Seq(Transaction)
ASSUME SequencersAssumption == Sequencers \in Seq(Keys) /\ Sequencers # << >>
ASSUME KnownAssumption == 0 \in DOMAIN Known /\ \A k \in DOMAIN Known : Known[k] \in Nat
ASSUME BoundsAssumption == MaxLevel \in Nat /\ MaxBlocks \in Nat /\ MaxInputs \in Nat
\* The timestamps of L1 do not go back.
ASSUME TimeAssumption ==
  /\ Time \in [0 .. MaxLevel -> Nat]
  /\ \A m, n \in 0 .. MaxLevel : m <= n => Time[m] <= Time[n]
  /\ Offsets \subseteq Nat /\ Delays \subseteq Nat
  /\ Timeout \in Nat /\ MinLevels \in Nat

VARIABLES
  pc,                \* where the run is; "wait" between two levels
  level, inputs,     \* L1: the level, how many messages were read of it
  sent, sending,     \* L1: delayed transactions sent, one sent in chunks
  inbox,             \* its inbox: "new", "open" or "consumed"
  buffer,            \* run: buffer_transaction_chunks
  bip, run,          \* run: the block being computed, how the run started
  l1_level,          \* the level of the last Info message
  delayed_inbox,     \* the delayed inbox, oldest transaction first
  blueprints,        \* blueprint storage, by block number
  world, tmp,        \* /evm/world_state and its temporary copy
  boot, backup,      \* the kernel in place and the one to fall back on
  storage_version, kernel_upgrade, sequencer, sequencer_upgrade

l1 == <<level, inputs, sent, sending, inbox>>
memory == <<buffer, bip, run>>
versions == <<boot, backup, storage_version>>
governance == <<kernel_upgrade, sequencer, sequencer_upgrade>>
blocks == <<blueprints, world, tmp>>
vars == <<pc, l1, memory, l1_level, delayed_inbox, blocks, versions, governance>>

chain == world.chain
Next_number == Len(chain) + 1
Numbers == 1 .. MaxBlocks + Cardinality(Delayed) + 1

\* current_timestamp: the average block time that is added to the timestamp
\* of the last Info message is always null.
current_timestamp == Time[l1_level]

Hashes == {delayed_inbox[i].hash : i \in DOMAIN delayed_inbox}

Item == [hash : Delayed, timestamp : Nat, level : 0 .. MaxLevel]

BlockInProgress ==
  [number : Nat, parent_hash : Seq(Block) \union {None},
   queue : Seq(Transaction), done : Seq(Transaction),
   timestamp : Nat, by : Keys \union {None}]

World ==
  [chain : Seq(Block), applied : Seq(Transaction),
   bip : BlockInProgress \union {None}]

Transfer == [tx : Delayed, left : 1 .. 2]

KernelUpgrade == [kernel : DOMAIN Known, activation_timestamp : Nat]

SequencerUpgrade == [sequencer : Keys, activation_timestamp : Nat]

\* Option::None is not a value.
ASSUME NoneAssumption ==
  /\ None \notin Keys /\ None \notin Chunk /\ None \notin Stored
  /\ None \notin BlockInProgress /\ None \notin World /\ None \notin Transfer
  /\ None \notin KernelUpgrade /\ None \notin SequencerUpgrade

NoRun == [first_block |-> TRUE, first_transaction |-> TRUE, resumed |-> FALSE]

Init ==
  /\ pc = "wait" /\ inbox = "consumed"
  /\ level = 0 /\ inputs = 0 /\ sent = {} /\ sending = None
  /\ buffer = None /\ bip = None /\ run = NoRun
  /\ l1_level = 0
  /\ delayed_inbox = << >>
  /\ blueprints = [n \in Numbers |-> None]
  /\ world = [chain |-> << >>, applied |-> << >>, bip |-> None]
  /\ tmp = None
  /\ boot = 0 /\ backup = 0 /\ storage_version = Known[0]
  /\ kernel_upgrade = None /\ sequencer = Sequencers[1] /\ sequencer_upgrade = None

(***************************************************************************)
(* The runs of the kernel on a level                                       *)
(***************************************************************************)
Level ==
  /\ pc = "wait" /\ level < MaxLevel
  /\ level' = level + 1 /\ inputs' = 0 /\ sending' = None /\ inbox' = "new"
  /\ pc' = "start"
  /\ UNCHANGED <<sent, memory, l1_level, delayed_inbox, blocks, versions, governance>>

\* The end of a run, and of what it had in memory.
Finished ==
  /\ pc' = "wait"
  /\ buffer' = None /\ bip' = None /\ run' = NoRun

\* The end of a run that called mark_for_reboot.
Reboot ==
  /\ pc' \in {"start"} \union (IF RebootsMayRunOut THEN {"wait"} ELSE {})
  /\ buffer' = None /\ bip' = None /\ run' = NoRun

(***************************************************************************)
(* Stage zero                                                              *)
(***************************************************************************)

\* storage_migration: the next version, if the kernel in place knows it.
Migrate ==
  /\ pc = "start" /\ storage_version < Known[boot]
  /\ storage_version + 1 \notin Failing
  /\ storage_version' = storage_version + 1
  /\ Reboot
  /\ UNCHANGED <<l1, l1_level, delayed_inbox, blocks, boot, backup, governance>>

\* A migration that fails, and a version the kernel cannot read, are errors:
\* the backup takes the place of the kernel.
fallback_backup_kernel ==
  /\ pc = "start"
  /\ \/ storage_version < Known[boot] /\ storage_version + 1 \in Failing
     \/ storage_version > Known[boot]
  /\ boot' = backup
  /\ Reboot
  /\ UNCHANGED <<l1, l1_level, delayed_inbox, blocks, backup, storage_version,
                 governance>>

NoMigration ==
  /\ pc = "start" /\ storage_version = Known[boot]
  /\ pc' = IF inbox = "consumed" THEN "produce" ELSE "inbox"
  /\ UNCHANGED <<l1, memory, l1_level, delayed_inbox, blocks, versions, governance>>

\* upgrade::upgrade
upgrade(kernel) ==
  /\ backup' = boot
  /\ boot' = kernel
  /\ kernel_upgrade' = None

(***************************************************************************)
(* Stage one: the messages of the level, one by one                        *)
(***************************************************************************)
Info ==
  /\ pc = "inbox" /\ inbox = "new"
  /\ inbox' = "open" /\ l1_level' = level
  /\ UNCHANGED <<pc, level, inputs, sent, sending, memory, delayed_inbox, blocks,
                 versions, governance>>

\* The next message of the inbox is of this kind.
Message(kind) ==
  /\ pc = "inbox" /\ inbox = "open" /\ sending = None
  /\ kind \in Inputs /\ inputs < MaxInputs
  /\ inputs' = inputs + 1
  /\ UNCHANGED <<level, inbox, l1_level, world, tmp>>

\* The message took ticks: the rest of the inbox may be left to another run.
Continue(buffered) ==
  \/ /\ pc' = "inbox" /\ buffer' = buffered
     /\ UNCHANGED <<bip, run>>
  \/ InboxMayReboot /\ Reboot

\* save_transaction: one that is already in the list is not pushed again.
save_transaction(tx) ==
  delayed_inbox' =
    IF tx \in Hashes THEN delayed_inbox
    ELSE Append(delayed_inbox, [hash |-> tx, timestamp |-> current_timestamp,
                                level |-> l1_level])

\* A deposit, or a transaction that fits in a message.
DelayedInput(tx) ==
  /\ Message("delayed") /\ tx \notin sent
  /\ sent' = sent \union {tx}
  /\ save_transaction(tx)
  /\ Continue(buffer)
  /\ UNCHANGED <<sending, blueprints, versions, governance>>

\* A transaction sent in two chunks, which follow the message that announces
\* them: they are put together in the memory of the run.
parse_new_chunk(tx) ==
  /\ Message("chunked") /\ tx \notin sent
  /\ sending' = [tx |-> tx, left |-> 2]
  /\ Continue(sending')
  /\ UNCHANGED <<sent, delayed_inbox, blueprints, versions, governance>>

OneLess(transfer) ==
  IF transfer = None \/ transfer.left = 1 THEN None
  ELSE [transfer EXCEPT !.left = @ - 1]

parse_chunk ==
  /\ pc = "inbox" /\ inbox = "open" /\ sending # None
  /\ sending' = OneLess(sending)
  /\ sent' = IF sending' = None THEN sent \union {sending.tx} ELSE sent
  /\ IF buffer # None /\ buffer.left = 1
     THEN save_transaction(buffer.tx) ELSE UNCHANGED delayed_inbox
  /\ Continue(OneLess(buffer))
  /\ UNCHANGED <<level, inputs, inbox, l1_level, blocks, versions, governance>>

\* The chain the sequencer builds the block of this number on: the kernel's,
\* or the kernel's after the blueprint that is already there.
Predicted(number) ==
  LET b == blueprints[Next_number]
      block(blueprint) == [transactions |-> blueprint.transactions,
                           timestamp |-> blueprint.timestamp,
                           by |-> blueprint.by]
  IN IF number = Next_number THEN {chain}
     ELSE IF number = Next_number + 1 /\ b # None
          THEN {Append(chain, block(b.chunks[i].blueprint)) :
                  i \in {j \in Indices : b.chunks[j] # None /\ ~ b.chunks[j].forced}}
     ELSE {}

\* A blueprint signed by the sequencer: on its view of the chain, or on a
\* head that is not the kernel's.
Proposal(number) ==
  [parent_hash : Predicted(number), transactions : Contents,
   timestamp : {current_timestamp + d : d \in Offsets}, by : {sequencer}]
  \union
  [parent_hash : {None}, transactions : {<< >>},
   timestamp : {current_timestamp}, by : {sequencer}]

\* Old numbers are stored too, but never read again: they are left out.
Upcoming == {n \in 1 .. MaxBlocks : n >= Next_number}

SequencerBlueprint(number, c, blueprint) ==
  /\ Message("blueprint")
  /\ blueprints' = store_sequencer_blueprint(blueprints, number, c[2], c[1], blueprint)
  /\ Continue(buffer)
  /\ UNCHANGED <<sent, sending, delayed_inbox, versions, governance>>

\* A DAL slot holds the chunks of a blueprint, stored in one go.
DalSlotImportSignals(number, nb, blueprint) ==
  /\ Message("dal")
  /\ blueprints' = store_slot(blueprints, number, nb, blueprint)
  /\ Continue(buffer)
  /\ UNCHANGED <<sent, sending, delayed_inbox, versions, governance>>

store_kernel_upgrade(d) ==
  /\ Message("upgrade")
  /\ boot + 1 \in DOMAIN Known
  /\ kernel_upgrade' = [kernel |-> boot + 1,
                        activation_timestamp |-> current_timestamp + d]
  /\ UNCHANGED <<pc, sent, sending, memory, delayed_inbox, blueprints, versions,
                 sequencer, sequencer_upgrade>>

store_sequencer_upgrade(s, d) ==
  /\ Message("sequencer")
  /\ sequencer_upgrade' = [sequencer |-> s,
                           activation_timestamp |-> current_timestamp + d]
  /\ UNCHANGED <<pc, sent, sending, memory, delayed_inbox, blueprints, versions,
                 kernel_upgrade, sequencer>>

\* The reboot that upgrade asks for comes with the end of the inbox.
force_kernel_upgrade ==
  /\ Message("force")
  /\ kernel_upgrade # None
  /\ current_timestamp >= kernel_upgrade.activation_timestamp + Grace
  /\ upgrade(kernel_upgrade.kernel)
  /\ UNCHANGED <<pc, sent, sending, memory, delayed_inbox, blueprints,
                 storage_version, sequencer, sequencer_upgrade>>

\* Mutant: a transaction that reaches its timeout is given one more level.
first_is_overdue ==
  /\ delayed_inbox # << >>
  /\ current_timestamp - Head(delayed_inbox).timestamp > Timeout
  /\ l1_level - Head(delayed_inbox).level >= MinLevels

first_has_timed_out ==
  /\ delayed_inbox # << >>
  /\ current_timestamp - Head(delayed_inbox).timestamp >= Timeout
  /\ l1_level - Head(delayed_inbox).level >= MinLevels

\* Mutant: the timestamp of the level, even if the head is ahead of it.
TimestampOfLevel == current_timestamp

\* At least the timestamp of the head.
ForcedTimestamp ==
  IF HeadTimestamp(chain) > current_timestamp
  THEN HeadTimestamp(chain) ELSE current_timestamp

\* The n-th blueprint of the whole delayed inbox, MaxForced transactions each.
ForcedBlueprint(n) ==
  LET last == n * MaxForced
      txs == [i \in DOMAIN delayed_inbox |-> delayed_inbox[i].hash]
  IN [parent_hash |-> None, by |-> None,
      transactions |-> SubSeq(txs, last - MaxForced + 1,
                              IF last < Len(txs) THEN last ELSE Len(txs)),
      timestamp |-> ForcedTimestamp]

Batches == {n \in 1 .. Len(delayed_inbox) : (n - 1) * MaxForced < Len(delayed_inbox)}

\* Mutant: every batch goes to the next number, over the one before it.
fetch_in_one_place ==
  /\ \E n \in Batches :
       /\ n + 1 \notin Batches
       /\ blueprints' = store_immediate_blueprint(blueprints, Next_number,
                                                 ForcedBlueprint(n))
  /\ delayed_inbox' = << >>

fetch_delayed_transactions ==
  /\ blueprints' =
       [n \in Numbers |->
          IF n - Len(chain) \in Batches
          THEN store_immediate_blueprint(blueprints, n, ForcedBlueprint(n - Len(chain)))[n]
          ELSE blueprints[n]]
  /\ delayed_inbox' = << >>

\* The end of the inbox: a new run starts block production with all its ticks.
EndOfInbox ==
  /\ pc = "inbox" /\ inbox = "open" /\ sending = None
  /\ inbox' = "consumed"
  /\ IF first_has_timed_out THEN fetch_delayed_transactions
     ELSE UNCHANGED <<blueprints, delayed_inbox>>
  /\ Reboot
  /\ UNCHANGED <<level, inputs, sent, sending, l1_level, world, tmp, versions,
                 governance>>

(***************************************************************************)
(* Stage two: produce                                                      *)
(***************************************************************************)
StoredBip == IF tmp = None THEN None ELSE tmp.bip

ResumeBlock ==
  /\ pc = "produce" /\ StoredBip # None
  /\ bip' = StoredBip
  /\ run' = [run EXCEPT !.resumed = TRUE]
  /\ pc' = "compute"
  /\ UNCHANGED <<l1, buffer, l1_level, delayed_inbox, blocks, versions, governance>>

\* Mutant: the blueprints of the former sequencer stay.
keep_blueprints == UNCHANGED blueprints

clear_all_blueprint == blueprints' = [n \in Numbers |-> None]

\* The blueprints of the former sequencer go, and all the others with them.
possible_sequencer_upgrade ==
  /\ pc = "produce" /\ StoredBip = None
  /\ pc' = "next"
  /\ IF /\ sequencer_upgrade # None
        /\ current_timestamp >= sequencer_upgrade.activation_timestamp
     THEN /\ sequencer' = sequencer_upgrade.sequencer
          /\ sequencer_upgrade' = None
          /\ clear_all_blueprint
     ELSE UNCHANGED <<sequencer, sequencer_upgrade, blueprints>>
  /\ UNCHANGED <<l1, memory, l1_level, delayed_inbox, world, tmp, versions,
                 kernel_upgrade>>

NextBlueprint ==
  read_next_blueprint(blueprints[Next_number], chain,
                      current_timestamp + Lookahead, Hashes)

UpgradeIsDue(blueprint) ==
  kernel_upgrade # None /\ blueprint.timestamp >= kernel_upgrade.activation_timestamp

NoBlueprint ==
  /\ pc = "next" /\ NextBlueprint.status \in {"none", "error"}
  /\ Finished
  /\ UNCHANGED <<l1, l1_level, delayed_inbox, blocks, versions, governance>>

invalidate_blueprint ==
  /\ pc = "next" /\ NextBlueprint.status = "deleted"
  /\ blueprints' = drop_blueprint(blueprints, Next_number)
  /\ Finished
  /\ UNCHANGED <<l1, l1_level, delayed_inbox, world, tmp, versions, governance>>

UpgradeKernel ==
  /\ pc = "next" /\ NextBlueprint.status = "next"
  /\ UpgradeIsDue(NextBlueprint.blueprint)
  /\ upgrade(kernel_upgrade.kernel)
  /\ Reboot
  /\ UNCHANGED <<l1, l1_level, delayed_inbox, blocks, storage_version, sequencer,
                 sequencer_upgrade>>

\* A block in progress on a copy of the world state.  Its parent is the head,
\* bip.parent_hash the parent its blueprint names, if it is the sequencer's.
StartBlock ==
  /\ pc = "next" /\ NextBlueprint.status = "next"
  /\ LET blueprint == NextBlueprint.blueprint
     IN /\ ~ UpgradeIsDue(blueprint)
        /\ bip' = [number |-> Next_number, parent_hash |-> blueprint.parent_hash,
                   queue |-> blueprint.transactions, done |-> << >>,
                   timestamp |-> blueprint.timestamp, by |-> blueprint.by]
  /\ tmp' = world
  /\ run' = [run EXCEPT !.first_transaction = TRUE, !.resumed = FALSE]
  /\ pc' = "compute"
  /\ UNCHANGED <<l1, buffer, l1_level, delayed_inbox, blueprints, world, versions,
                 governance>>

\* Mutant: a transaction that had all the ticks of a run is tried again.
always_retriable == TRUE

retriable == ~ run.first_transaction \/ ~ run.first_block

\* The transaction is executed, or found invalid: it is done with.
ApplyTransaction ==
  /\ pc = "compute" /\ bip.queue # << >> /\ Head(bip.queue) \notin TooLarge
  /\ bip' = [bip EXCEPT !.queue = Tail(@), !.done = Append(@, Head(bip.queue))]
  /\ tmp' = [tmp EXCEPT !.applied = Append(@, Head(bip.queue))]
  /\ run' = [run EXCEPT !.first_transaction = FALSE]
  /\ UNCHANGED <<pc, l1, buffer, l1_level, delayed_inbox, blueprints, world, versions,
                 governance>>

\* Too few ticks are left to try it, or it ran out of them: after a reboot.
RetryTransaction ==
  /\ pc = "compute" /\ bip.queue # << >> /\ retriable
  /\ tmp' = [tmp EXCEPT !.bip = bip]
  /\ Reboot
  /\ UNCHANGED <<l1, l1_level, delayed_inbox, blueprints, world, versions, governance>>

\* Too large for the ticks of a run that does nothing else.
DiscardTransaction ==
  /\ pc = "compute" /\ bip.queue # << >> /\ ~ retriable
  /\ Head(bip.queue) \in TooLarge
  /\ tmp' = [tmp EXCEPT !.bip = [bip EXCEPT !.queue = Tail(@)]]
  /\ Reboot
  /\ UNCHANGED <<l1, l1_level, delayed_inbox, blueprints, world, versions, governance>>

\* Mutant: the temporary copy of the world stays.
drop_block ==
  /\ pc = "compute" /\ BlockMayFail
  /\ blueprints' = drop_blueprint(blueprints, bip.number)
  /\ Reboot
  /\ UNCHANGED <<l1, l1_level, delayed_inbox, world, tmp, versions, governance>>

revert_block ==
  /\ pc = "compute" /\ BlockMayFail
  /\ tmp' = None
  /\ blueprints' = drop_blueprint(blueprints, bip.number)
  /\ Reboot
  /\ UNCHANGED <<l1, l1_level, delayed_inbox, world, versions, governance>>

\* Mutant: the block in progress goes into the world with the rest.
KeptBip == tmp.bip

\* A block that was resumed is deleted from the copy first.
BipAtPromotion == IF run.resumed THEN None ELSE tmp.bip

\* The delayed inbox after these transactions are taken out of it.
Without(items, hashes) ==
  LET kept[i \in 0 .. Len(items)] ==
        IF i = 0 THEN << >>
        ELSE IF items[i].hash \in hashes THEN kept[i - 1]
        ELSE Append(kept[i - 1], items[i])
  IN kept[Len(items)]

\* Mutant: the delayed transactions of a block that was resumed are forgotten.
clean_unless_resumed ==
  delayed_inbox' =
    IF run.resumed THEN delayed_inbox ELSE Without(delayed_inbox, ToSet(bip.done))

clean_delayed_transactions ==
  delayed_inbox' = Without(delayed_inbox, ToSet(bip.done))

\* The block is added to the chain of the copy, which replaces the world.
promote_block ==
  /\ pc = "compute" /\ bip.queue = << >>
  /\ world' = [chain |-> Append(tmp.chain, [transactions |-> bip.done,
                                            timestamp |-> bip.timestamp,
                                            by |-> bip.by]),
               applied |-> tmp.applied,
               bip |-> BipAtPromotion]
  /\ tmp' = None
  /\ blueprints' = drop_blueprint(blueprints, bip.number)
  /\ clean_delayed_transactions
  /\ bip' = None
  /\ run' = [run EXCEPT !.first_block = FALSE]
  /\ pc' = IF run.resumed THEN "produce" ELSE "next"
  /\ UNCHANGED <<l1, buffer, l1_level, versions, governance>>

Run ==
  \/ Migrate \/ fallback_backup_kernel \/ NoMigration
  \/ Info \/ parse_chunk \/ force_kernel_upgrade \/ EndOfInbox
  \/ \E tx \in Delayed : DelayedInput(tx) \/ parse_new_chunk(tx)
  \/ \E number \in Upcoming : \E blueprint \in Proposal(number) :
       \/ \E c \in Chunking : SequencerBlueprint(number, c, blueprint)
       \/ \E nb \in {c[1] : c \in Chunking} :
            DalSlotImportSignals(number, nb, blueprint)
  \/ \E d \in Delays :
       \/ store_kernel_upgrade(d)
       \/ \E i \in 2 .. Len(Sequencers) :
            store_sequencer_upgrade(Sequencers[i], d)
  \/ ResumeBlock \/ possible_sequencer_upgrade
  \/ NoBlueprint \/ invalidate_blueprint \/ UpgradeKernel \/ StartBlock
  \/ ApplyTransaction \/ RetryTransaction \/ DiscardTransaction
  \/ revert_block \/ promote_block

Next == Level \/ Run

Spec == Init /\ [][Next]_vars

\* The PVM runs the kernel to the end of the level.
FairSpec == Spec /\ WF_vars(Run)

(***************************************************************************)
(* Properties                                                              *)
(***************************************************************************)
TypeOK ==
  /\ pc \in {"wait", "start", "inbox", "produce", "next", "compute"}
  /\ inbox \in {"new", "open", "consumed"}
  /\ level \in 0 .. MaxLevel /\ l1_level \in 0 .. level /\ inputs \in 0 .. MaxInputs
  /\ sent \subseteq Delayed
  /\ sending \in Transfer \union {None} /\ buffer \in Transfer \union {None}
  /\ run \in [first_block : BOOLEAN, first_transaction : BOOLEAN, resumed : BOOLEAN]
  /\ bip \in BlockInProgress \union {None} /\ (bip # None <=> pc = "compute")
  /\ delayed_inbox \in Seq(Item)
  /\ blueprints \in [Numbers -> Stored \union {None}]
  /\ \A n \in Numbers : blueprints[n] # None => AvailableChunks(blueprints[n]) > 0
  /\ world \in World /\ Next_number \in Numbers
  /\ tmp \in World \union {None}
  /\ boot \in DOMAIN Known /\ backup \in DOMAIN Known /\ storage_version \in Nat
  /\ kernel_upgrade \in KernelUpgrade \union {None}
  /\ sequencer \in Keys
  /\ sequencer_upgrade \in SequencerUpgrade \union {None}

\* A block in progress that waits for a reboot is the block of the next
\* number and its blueprint is still stored, whatever the inbox of another
\* level, a handover of the sequencer or a fallback did in the meantime:
\* promote_block and revert_block (block.rs:322-387) drop that blueprint with
\* an error if it is gone.  Nothing of a block in progress is in the world.
BipHasBlueprint ==
  /\ world.bip = None
  /\ \A b \in {bip, StoredBip} \ {None} :
       b.number = Next_number /\ blueprints[b.number] # None

\* The world holds the effects of the transactions of its blocks, each block
\* whole and in order; its copy has those of the block in progress on top.  A
\* block that failed, or that was resumed over several runs, leaves no other
\* trace (SafeStorage, safe_storage.rs:233-262).
WorldIsAtomic ==
  LET effects == FlattenSeq([i \in DOMAIN chain |-> chain[i].transactions])
  IN /\ world.applied = effects
     /\ bip # None => tmp.applied = effects \o bip.done
     /\ bip = None /\ StoredBip # None => tmp.applied = effects \o StoredBip.done

\* A block of the sequencer is added to the very chain its blueprint was
\* validated on, although reboots and levels may lie between the check of the
\* parent hash (blueprint_storage.rs:288-294) and the promotion.
ExtendsItsParent ==
  [][chain' # chain => bip.by = None \/ bip.parent_hash = chain]_vars

\* No block of a former sequencer is added after the handover, even if its
\* blueprint was stored or begun before (upgrade.rs:233-243).
SequencerExtends ==
  [][chain' # chain => bip.by \in {None, sequencer}]_vars

InChain(tx) == \E i \in DOMAIN chain : tx \in ToSet(chain[i].transactions)

\* Transactions in blueprints of the kernel that are yet to be executed.
Forced ==
  UNION {ToSet(blueprints[n].chunks[0].blueprint.transactions) :
           n \in {m \in Numbers : m >= Next_number /\ blueprints[m] # None
                                  /\ IsForced(blueprints[m])}}

\* A delayed transaction the kernel has read is in the delayed inbox, in a
\* forced blueprint or in a block: "Removes transactions from the delayed
\* inbox only if they are applied in a block" (CHANGES_KERNEL.md:97).
NoDelayedTransactionLost ==
  \A tx \in sent : tx \in Hashes \/ tx \in Forced \/ InChain(tx)

DelayedIn(txs) == ToSet(txs) \intersect Delayed

\* No delayed transaction occurs twice.
OnceIn(txs) ==
  \A i, j \in DOMAIN txs : txs[i] = txs[j] /\ txs[i] \in Delayed => i = j

\* A delayed transaction, a deposit for instance, is executed by one block
\* only, whether the sequencer includes it, or the kernel forces it, or both
\* try, and once only by a block of the kernel.  A sequencer that puts it in a
\* later block again does not get it applied ("i.e., it does not process the
\* deposit twice", tezt/tests/evm_sequencer.ml:4023-4024); one that names it
\* twice in a block does.
ExecutedInOneBlock ==
  /\ \A i, j \in DOMAIN chain : i # j =>
       DelayedIn(chain[i].transactions) \intersect DelayedIn(chain[j].transactions) = {}
  /\ \A i \in DOMAIN chain : chain[i].by = None => OnceIn(chain[i].transactions)

\* A delayed transaction is executed at most once: "Test that the same
\* transaction can not be replayed twice" (block.rs:1133), on a blueprint that
\* holds it twice.  The nonce of an Ethereum transaction sees to it; a deposit
\* has none, and fetch_delayed_txs (blueprint_storage.rs:215-262) finds a hash
\* as often as the blueprint names it: duplicate.cfg shows it violated.
AtMostOnce == OnceIn(world.applied)

\* Timestamps never go back along the chain: "Forced blueprints (in case of
\* delayed inbox timeout) always use a timestamp equal or greater than the
\* predecessor" (CHANGES_KERNEL.md:147-148).  The predecessor the kernel looks
\* at is the head when it forces them: this holds where no block in progress
\* is left to the next level, to become the head in between (late_forced.cfg).
TimestampsIncrease ==
  \A i \in 1 .. Len(chain) - 1 : chain[i].timestamp <= chain[i + 1].timestamp

\* When a level ends, the delayed transactions that have timed out are
\* executed, whatever the sequencer sent and however many runs it took:
\* nothing is left of a forced blueprint or of a block in progress.
Deadline ==
  pc = "wait" =>
    /\ Forced = {} /\ StoredBip = None
    /\ \A i \in DOMAIN delayed_inbox :
         \/ current_timestamp - delayed_inbox[i].timestamp < Timeout
         \/ l1_level - delayed_inbox[i].level < MinLevels

\* The successor makes the first block for the activation time or a later one:
\* an upgrade message "will upgrade to [root_hash] at the first block after
\* [activation_timestamp]" (tezt/lib/evm_node.mli:393-396).  A block that is
\* resumed at a later level is not checked again (block.rs:431-454):
\* late_upgrade.cfg shows it violated.
UpgradeTakesOver ==
  [][chain' # chain => \/ kernel_upgrade = None
                       \/ bip.timestamp < kernel_upgrade.activation_timestamp]_vars

\* A migration that fails does not keep the kernel in stage zero: "we need be
\* able to to always reach the inbox and the kernel upgrade message"
\* (lib.rs:249-252), without which no upgrade could repair it; under FairSpec.
StageOneIsReached == (pc = "start") ~> (pc \in {"inbox", "produce"})

\* A level ends, whatever it takes of it to migrate the storage, to fall back
\* from a migration that fails and to retry the transactions that run out of
\* ticks (lib.rs:214-247, block.rs:114-128); under FairSpec.
LevelEnds == (pc = "start") ~> (pc = "wait")

=============================================================================
