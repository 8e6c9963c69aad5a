-------------------------- MODULE EvmDelayedProofs --------------------------
(***************************************************************************)
(* Proofs about EvmKernel when every level has the reboots it needs: the   *)
(* block in progress is then over before the next inbox is read.  First,   *)
(* that a delayed transaction is executed by one block; then, for whole    *)
(* blueprints of one sequencer, that forced blueprints are executed in the *)
(* level that forced them, and that no delayed transaction is lost.        *)
(***************************************************************************)
EXTENDS EvmKernelProofs

(***************************************************************************)
(* The invariants                                                          *)
(***************************************************************************)

\* Where the inbox is in a run.  No block in progress waits for it.
TurnInv ==
  /\ pc \in {"wait", "produce", "next", "compute"} => inbox = "consumed"
  /\ pc = "inbox" => inbox # "consumed"
  /\ StoredBip # None => inbox = "consumed" /\ pc # "wait"

\* The block in progress, in memory or stored.
InProgress == {bip, StoredBip} \ {None}

Applied == ToSet(world.applied) \intersect Delayed

\* A forced blueprint that is yet to be executed, and its transactions.
ForcedAt(n) == n >= Next_number /\ blueprints[n] # None /\ IsForced(blueprints[n])

ForcedTxs(n) == ToSet(blueprints[n].chunks[0].blueprint.transactions)

\* A forced blueprint has delayed transactions only, and each one once.
ChunkOnce(i, c) ==
  c.forced => /\ i = 0
              /\ c.blueprint.transactions \in Seq(Delayed)
              /\ OnceIn(c.blueprint.transactions)

\* All the transactions of a block in progress.
Work(b) == b.done \o b.queue

\* What a block in progress executes was taken from the delayed inbox, where
\* it still is, or from the forced blueprint of its number.
BlockOnce(b) ==
  /\ b.by = None =>
       /\ OnceIn(Work(b)) /\ ForcedAt(b.number)
       /\ ToSet(Work(b)) \intersect Delayed \subseteq ForcedTxs(b.number)
  /\ b.by # None => ToSet(Work(b)) \intersect Delayed \subseteq Hashes

\* A delayed transaction is executed, or in the delayed inbox, or in one forced
\* blueprint, and in one of these places only.
OnceInv ==
  /\ ExecutedInOneBlock
  /\ \A i \in DOMAIN chain : DelayedIn(chain[i].transactions) \subseteq Applied
  /\ Applied \subseteq sent /\ Applied \intersect Hashes = {}
  /\ \A n \in Numbers : blueprints[n] # None =>
       \A i \in Indices : blueprints[n].chunks[i] # None =>
         ChunkOnce(i, blueprints[n].chunks[i])
  /\ \A n \in Numbers : ForcedAt(n) =>
       /\ ForcedTxs(n) \subseteq sent
       /\ ForcedTxs(n) \intersect Applied = {}
       /\ ForcedTxs(n) \intersect Hashes = {}
  /\ \A m, n \in Numbers : ForcedAt(m) /\ ForcedAt(n) /\ m # n =>
       ForcedTxs(m) \intersect ForcedTxs(n) = {}
  /\ \A b \in InProgress : BlockOnce(b)

\* Whole blueprints of one sequencer, and blocks that do not fail: otherwise
\* chunks left by the sequencer, a handover or an error delete a forced
\* blueprint before it is executed.
Whole ==
  /\ ~ RebootsMayRunOut /\ ~ BlockMayFail
  /\ MaxChunks = 1 /\ Len(Sequencers) = 1

ForcedStamp(n) == blueprints[n].chunks[0].blueprint.timestamp

\* Forced blueprints follow the head without a gap, all with one timestamp,
\* and are gone when the next inbox is read.
ForcedInv ==
  /\ sequencer_upgrade = None
  /\ \A m, n \in Numbers : ForcedAt(m) /\ Next_number <= n /\ n <= m => ForcedAt(n)
  /\ inbox # "consumed" \/ pc = "wait" => \A n \in Numbers : ~ ForcedAt(n)
  /\ \A m, n \in Numbers : ForcedAt(m) /\ ForcedAt(n) => ForcedStamp(m) = ForcedStamp(n)
  /\ \A n \in Numbers : ForcedAt(n) => ForcedStamp(n) >= HeadTimestamp(chain)
  /\ \A b \in InProgress :
       /\ b.timestamp >= HeadTimestamp(chain)
       /\ b.by = None => ForcedAt(b.number) /\ b.timestamp = ForcedStamp(b.number)
       /\ b.by # None => ~ ForcedAt(b.number)

\* The item has not timed out.
Waits(item) ==
  \/ current_timestamp - item.timestamp < Timeout
  \/ l1_level - item.level < MinLevels

\* The delayed inbox is in the order of L1, and once the inbox was read no
\* transaction in it has timed out.
OrderInv ==
  /\ \A i, j \in DOMAIN delayed_inbox : i < j =>
       /\ delayed_inbox[i].timestamp <= delayed_inbox[j].timestamp
       /\ delayed_inbox[i].level <= delayed_inbox[j].level
  /\ \A i \in DOMAIN delayed_inbox :
       /\ delayed_inbox[i].timestamp <= current_timestamp
       /\ delayed_inbox[i].level <= l1_level
       /\ inbox = "consumed" => Waits(delayed_inbox[i])

USE DEF l1, memory, versions, governance, blocks

(***************************************************************************)
(* Where the inbox is                                                      *)
(***************************************************************************)

(* A run that asks for a reboot gets it.                                   *)
LEMMA TurnStep ==
  ASSUME ~ RebootsMayRunOut, Inv, TurnInv, Next
  PROVE  TurnInv'
<1>1. Reboot => pc' = "start"
  BY DEF Reboot
<1>2. pc = "next" => StoredBip = None
  BY DEF Inv, BlockInv
<1>3. pc = "compute" => inbox = "consumed"
  BY DEF TurnInv
<1>4. CASE Level \/ NoMigration \/ Info
  <2>1. StoredBip' = StoredBip
    BY <1>4 DEF Level, NoMigration, Info, StoredBip
  <2>2. CASE Level
    BY <2>1, <2>2 DEF Level, TurnInv
  <2>3. CASE NoMigration
    <3>1. inbox \in {"new", "open", "consumed"}
      BY DEF Inv, TypeOK
    <3> QED  BY <2>1, <2>3, <3>1 DEF NoMigration, TurnInv
  <2>4. CASE Info
    BY <2>1, <2>4 DEF Info, TurnInv
  <2> QED  BY <1>4, <2>2, <2>3, <2>4
<1>5. CASE Migrate \/ fallback_backup_kernel \/ UpgradeKernel
  <2>1. StoredBip' = StoredBip /\ inbox' = inbox /\ pc' = "start"
    BY <1>1, <1>5 DEF Migrate, fallback_backup_kernel, UpgradeKernel, StoredBip
  <2>2. StoredBip # None => inbox = "consumed"
    BY DEF TurnInv
  <2> QED  BY <2>1, <2>2 DEF TurnInv
<1>6. ASSUME pc = "inbox", inbox = "open", inbox' = "open", UNCHANGED tmp,
             pc' \in {"inbox", "start"}
      PROVE  TurnInv'
  BY <1>6 DEF TurnInv, StoredBip
<1>7. CASE force_kernel_upgrade \/ \E d \in Delays :
             \/ store_kernel_upgrade(d)
             \/ \E i \in 2 .. Len(Sequencers) : store_sequencer_upgrade(Sequencers[i], d)
  BY <1>6, <1>7
  DEF force_kernel_upgrade, store_kernel_upgrade, store_sequencer_upgrade, Message
<1>8. CASE parse_chunk \/ \E tx \in Delayed : DelayedInput(tx) \/ parse_new_chunk(tx)
  BY <1>1, <1>6, <1>8 DEF parse_chunk, DelayedInput, parse_new_chunk, Message, Continue
<1>9. CASE SequencerStep
  BY <1>1, <1>6, <1>9
  DEF SequencerStep, SequencerBlueprint, DalSlotImportSignals, Message, Continue
<1>10. CASE EndOfInbox
  BY <1>1, <1>10 DEF EndOfInbox, TurnInv
<1>11. CASE ResumeBlock \/ possible_sequencer_upgrade
  BY <1>11 DEF ResumeBlock, possible_sequencer_upgrade, TurnInv
<1>12. CASE NoBlueprint \/ invalidate_blueprint
  BY <1>2, <1>12 DEF NoBlueprint, invalidate_blueprint, Finished, TurnInv, StoredBip
<1>13. CASE StartBlock \/ ApplyTransaction
  BY <1>13 DEF StartBlock, ApplyTransaction, TurnInv
<1>14. CASE RetryTransaction \/ DiscardTransaction \/ revert_block
  BY <1>1, <1>3, <1>14 DEF RetryTransaction, DiscardTransaction, revert_block, TurnInv
<1>15. CASE promote_block
  <2>1. pc' \in {"produce", "next"} /\ inbox' = inbox /\ inbox = "consumed" /\ tmp' = None
    BY <1>3, <1>15 DEF promote_block
  <2> QED  BY <2>1 DEF TurnInv
<1> QED
  BY <1>4, <1>5, <1>7, <1>8, <1>9, <1>10, <1>11, <1>12, <1>13, <1>14, <1>15
  DEF Next, Run, SequencerStep

(* While a message is read there is no block in progress.                  *)
LEMMA Idle ==
  ASSUME Inv, TurnInv, pc = "inbox"
  PROVE  InProgress = {}
BY DEF Inv, TypeOK, TurnInv, InProgress

(***************************************************************************)
(* The block in progress from one step to the next                         *)
(***************************************************************************)

(* A transaction that goes from the queue to those that are done.          *)
LEMMA Shift ==
  ASSUME NEW s \in Seq(Transaction), NEW t \in Seq(Transaction), t # << >>
  PROVE  Append(s, Head(t)) \o Tail(t) = s \o t
<1> DEFINE e == Head(t)
           r == Tail(t)
           a == Append(s, e) \o r
           b == s \o t
<1>1. /\ Len(s) \in Nat /\ Len(t) \in Nat /\ Len(t) > 0
      /\ e \in Transaction /\ r \in Seq(Transaction) /\ Len(r) = Len(t) - 1
      /\ e = t[1] /\ \A i \in 1 .. Len(r) : r[i] = t[i + 1]
  OBVIOUS
<1> HIDE DEF e, r
<1>2. /\ Append(s, e) \in Seq(Transaction) /\ Len(Append(s, e)) = Len(s) + 1
      /\ \A i \in 1 .. Len(s) : Append(s, e)[i] = s[i]
      /\ Append(s, e)[Len(s) + 1] = e
  BY <1>1
<1>3. a \in Seq(Transaction) /\ b \in Seq(Transaction) /\ Len(a) = Len(b)
  <2> DEFINE p == Append(s, e)
  <2>1. p \in Seq(Transaction) /\ Len(p) = Len(s) + 1
    BY <1>2
  <2> HIDE DEF p
  <2>2. p \o r \in Seq(Transaction) /\ Len(p \o r) = Len(p) + Len(r)
    BY <1>1, <2>1, ConcatProperties
  <2>3. b \in Seq(Transaction) /\ Len(b) = Len(s) + Len(t)
    BY <1>1
  <2> QED  BY <1>1, <2>1, <2>2, <2>3 DEF p
<1>4. ASSUME NEW i \in 1 .. Len(a)  PROVE  a[i] = b[i]
  <2>1. i \in 1 .. Len(s) + Len(t)
    BY <1>1, <1>2, <1>3
  <2>2. CASE i <= Len(s)
    <3>1. a[i] = Append(s, e)[i]
      BY <1>1, <1>2, <2>1, <2>2
    <3> QED  BY <1>1, <1>2, <2>1, <2>2, <3>1
  <2>3. CASE i = Len(s) + 1
    <3>1. a[i] = e
      BY <1>1, <1>2, <2>3
    <3>2. b[i] = t[1]
      BY <1>1, <2>3
    <3> QED  BY <1>1, <3>1, <3>2
  <2>4. CASE i > Len(s) + 1
    <3>1. a[i] = r[i - (Len(s) + 1)]
      BY <1>1, <1>2, <2>1, <2>4
    <3>2. b[i] = t[i - Len(s)]
      BY <1>1, <2>1, <2>4
    <3>3. i - (Len(s) + 1) \in 1 .. Len(r) /\ (i - (Len(s) + 1)) + 1 = i - Len(s)
      BY <1>1, <2>1, <2>4
    <3> QED  BY <1>1, <3>1, <3>2, <3>3
  <2> QED  BY <1>1, <2>1, <2>2, <2>3, <2>4
<1> HIDE DEF a, b
<1>5. a = b
  BY <1>3, <1>4, SeqEqual
<1> QED  BY <1>5 DEF a, b, e, r

(* A transaction that leaves the queue and is not done.                    *)
LEMMA Discarding ==
  ASSUME NEW s \in Seq(Transaction), NEW t \in Seq(Transaction), t # << >>,
         NEW v, v = s \o Tail(t), NEW w, w = s \o t
  PROVE  /\ ToSet(v) \subseteq ToSet(w)
         /\ OnceIn(w) => OnceIn(v)
<1>1. /\ Len(s) \in Nat /\ Len(t) \in Nat /\ Len(t) > 0
      /\ Tail(t) \in Seq(Transaction) /\ Len(Tail(t)) = Len(t) - 1
      /\ \A i \in 1 .. Len(t) - 1 : Tail(t)[i] = t[i + 1]
  OBVIOUS
<1>2. /\ DOMAIN v = 1 .. Len(s) + Len(t) - 1 /\ DOMAIN w = 1 .. Len(s) + Len(t)
  BY <1>1
<1> DEFINE f(i) == IF i <= Len(s) THEN i ELSE i + 1
<1>3. ASSUME NEW i \in DOMAIN v  PROVE  f(i) \in DOMAIN w /\ v[i] = w[f(i)]
  <2>1. i \in 1 .. Len(s) + Len(t) - 1
    BY <1>2
  <2>2. CASE i <= Len(s)
    BY <1>1, <1>2, <2>1, <2>2
  <2>3. CASE i > Len(s)
    <3>1. v[i] = Tail(t)[i - Len(s)]
      BY <1>1, <2>1, <2>3
    <3>2. w[i + 1] = t[(i + 1) - Len(s)]
      BY <1>1, <2>1, <2>3
    <3>3. i - Len(s) \in 1 .. Len(t) - 1 /\ (i - Len(s)) + 1 = (i + 1) - Len(s)
      BY <1>1, <2>1, <2>3
    <3>4. v[i] = w[i + 1] /\ i + 1 \in DOMAIN w
      BY <1>1, <1>2, <2>1, <3>1, <3>2, <3>3
    <3> QED  BY <1>1, <2>1, <2>3, <3>4
  <2> QED  BY <1>1, <2>1, <2>2, <2>3
<1>4. \A i, j \in DOMAIN v : f(i) = f(j) => i = j
  BY <1>1, <1>2
<1> HIDE DEF f
<1>5. ToSet(v) \subseteq ToSet(w)
  <2>1. ASSUME NEW x \in ToSet(v)  PROVE  x \in ToSet(w)
    <3>1. PICK i \in DOMAIN v : x = v[i]
      BY <2>1 DEF ToSet
    <3>2. f(i) \in DOMAIN w /\ x = w[f(i)]
      BY <1>3, <3>1
    <3> QED  BY <3>2 DEF ToSet
  <2> QED  BY <2>1
<1>6. ASSUME OnceIn(w)  PROVE  OnceIn(v)
  <2>1. ASSUME NEW i \in DOMAIN v, NEW j \in DOMAIN v, v[i] = v[j], v[i] \in Delayed
        PROVE  i = j
    <3>1. f(i) \in DOMAIN w /\ f(j) \in DOMAIN w /\ w[f(i)] = w[f(j)]
          /\ w[f(i)] \in Delayed
      BY <1>3, <2>1
    <3>2. f(i) = f(j)
      BY <1>6, <3>1 DEF OnceIn
    <3> QED  BY <1>4, <3>2
  <2> QED  BY <2>1 DEF OnceIn
<1> QED  BY <1>5, <1>6

\* b is what a step makes of the block in progress a.
Follows(b, a) ==
  /\ b.number = a.number /\ b.by = a.by /\ b.timestamp = a.timestamp
  /\ \/ Work(b) = Work(a)
     \/ /\ DiscardTransaction /\ a = bip
        /\ b.done = a.done /\ b.queue = Tail(a.queue)

(* A block in progress was in progress before, except one that starts.     *)
LEMMA ProgressStep ==
  ASSUME Inv, Next
  PROVE  \/ StartBlock /\ InProgress' = {bip'}
         \/ \A b \in InProgress' : \E a \in InProgress : Follows(b, a)
<1> USE DEF Inv
<1>1. \A b : Follows(b, b)
  BY DEF Follows
<1>2. CASE NoBlockStep
  <2>1. InProgress' \subseteq InProgress
    BY <1>2 DEF NoBlockStep, InProgress, StoredBip
  <2> QED  BY <1>1, <2>1
<1>3. CASE ResumeBlock
  <2>1. InProgress' \subseteq InProgress
    BY <1>3 DEF ResumeBlock, InProgress, StoredBip
  <2> QED  BY <1>1, <2>1
<1>4. CASE possible_sequencer_upgrade \/ invalidate_blueprint
  <2>1. InProgress' \subseteq InProgress
    BY <1>4
    DEF possible_sequencer_upgrade, invalidate_blueprint, Finished, InProgress, StoredBip
  <2> QED  BY <1>1, <2>1
<1>5. CASE StartBlock
  <2>1. StoredBip' = None /\ bip' # None
    <3>1. tmp' = world /\ world.bip = None
      BY <1>5 DEF StartBlock, BlockInv
    <3>2. bip' # None
      BY <1>5, TypeStepProduce DEF StartBlock, TypeOK
    <3> QED  BY <3>1, <3>2 DEF StoredBip
  <2>2. InProgress' = {bip'}
    BY <2>1 DEF InProgress
  <2> QED  BY <1>5, <2>2
<1>6. CASE ApplyTransaction
  <2>1. bip \in BlockInProgress /\ bip # None /\ tmp \in World /\ bip.queue # << >>
    BY <1>6, Computing DEF ApplyTransaction
  <2>2. /\ bip'.number = bip.number /\ bip'.by = bip.by /\ bip'.timestamp = bip.timestamp
        /\ bip'.done = Append(bip.done, Head(bip.queue)) /\ bip'.queue = Tail(bip.queue)
        /\ tmp'.bip = tmp.bip
    BY <1>6, <2>1 DEF ApplyTransaction, BlockInProgress, World
  <2>3. Work(bip') = Work(bip)
    <3> DEFINE s == bip.done
               t == bip.queue
    <3>1. s \in Seq(Transaction) /\ t \in Seq(Transaction) /\ t # << >>
      BY <2>1 DEF BlockInProgress
    <3> HIDE DEF s, t
    <3>2. Append(s, Head(t)) \o Tail(t) = s \o t
      BY <3>1, Shift
    <3> QED  BY <2>2, <3>2 DEF Work, s, t
  <2>4. Follows(bip', bip)
    BY <2>2, <2>3 DEF Follows
  <2>5. StoredBip' = None \/ StoredBip' = StoredBip
    <3>1. tmp # None
      BY <2>1, NoneAssumption
    <3> QED  BY <2>2, <3>1 DEF StoredBip
  <2>6. \A b \in InProgress' : b = bip' \/ (b = StoredBip /\ b # None)
    BY <2>5 DEF InProgress
  <2>7. bip \in InProgress /\ (StoredBip # None => StoredBip \in InProgress)
    BY <2>1 DEF InProgress
  <2> QED  BY <1>1, <2>4, <2>6, <2>7
<1>7. CASE RetryTransaction \/ DiscardTransaction
  <2>1. bip \in BlockInProgress /\ bip # None /\ tmp \in World
    BY <1>7, Computing DEF RetryTransaction, DiscardTransaction
  <2>2. bip' = None
    BY <1>7 DEF RetryTransaction, DiscardTransaction, Reboot
  <2>3. PICK b : /\ tmp' = [tmp EXCEPT !.bip = b]
                 /\ \/ b = bip
                    \/ DiscardTransaction /\ b = [bip EXCEPT !.queue = Tail(@)]
    BY <1>7 DEF RetryTransaction, DiscardTransaction
  <2>4. StoredBip' = None \/ StoredBip' = b
    BY <2>1, <2>3 DEF StoredBip, World
  <2>5. Follows(b, bip)
    <3>1. CASE b = bip
      BY <1>1, <3>1
    <3>2. CASE DiscardTransaction /\ b = [bip EXCEPT !.queue = Tail(@)]
      <4>1. /\ b.number = bip.number /\ b.by = bip.by /\ b.timestamp = bip.timestamp
            /\ b.done = bip.done /\ b.queue = Tail(bip.queue)
        BY <2>1, <3>2 DEF BlockInProgress
      <4> QED  BY <3>2, <4>1 DEF Follows
    <3> QED  BY <2>3, <3>1, <3>2
  <2>6. bip \in InProgress
    BY <2>1 DEF InProgress
  <2> QED  BY <2>2, <2>4, <2>5, <2>6 DEF InProgress
<1>8. CASE revert_block \/ promote_block
  <2>1. InProgress' = {}
    BY <1>8 DEF revert_block, promote_block, Reboot, InProgress, StoredBip
  <2> QED  BY <2>1
<1> QED
  BY <1>2, <1>3, <1>4, <1>5, <1>6, <1>7, <1>8, Kinds DEF StageTwo

(***************************************************************************)
(* In one block                                                            *)
(***************************************************************************)

(* What is sent and what the delayed inbox holds only grow, except when    *)
(* blueprints are forced or a block is promoted.                           *)
LEMMA InboxGrows ==
  ASSUME Inv, Next, ~ ForcedStep, ~ promote_block
  PROVE  /\ sent \subseteq sent' /\ Hashes \subseteq Hashes'
         /\ Hashes' \ Hashes \subseteq sent' \ sent
<1> USE DEF Inv
<1>1. CASE UNCHANGED <<sent, delayed_inbox>>
  BY <1>1 DEF Hashes
<1>2. CASE \E tx \in Delayed : DelayedInput(tx)
  <2>1. PICK tx \in Delayed : DelayedInput(tx)
    BY <1>2
  <2>2. tx \notin sent /\ sent' = sent \union {tx} /\ Hashes' = Hashes \union {tx}
    BY <2>1, Saving DEF DelayedInput
  <2> QED  BY <2>2
<1>3. CASE parse_chunk
  <2>1. sending \in Transfer /\ sending # None /\ sending.tx \notin sent
    BY <1>3 DEF parse_chunk, TypeOK, TransferInv
  <2>2. sending.tx \in Delayed /\ sent \subseteq sent'
    BY <1>3, <2>1 DEF parse_chunk, Transfer
  <2>3. CASE buffer # None /\ buffer.left = 1
    <3>1. buffer = sending
      BY <2>3 DEF TransferInv
    <3>2. sent' = sent \union {sending.tx}
      BY <1>3, <2>3, <3>1 DEF parse_chunk, OneLess
    <3>3. Hashes' = Hashes \union {sending.tx}
      BY <1>3, <2>2, <2>3, <3>1, Saving DEF parse_chunk
    <3> QED  BY <2>1, <3>2, <3>3
  <2>4. CASE ~ (buffer # None /\ buffer.left = 1)
    BY <1>3, <2>2, <2>4 DEF parse_chunk, Hashes
  <2> QED  BY <2>3, <2>4
<1>4. CASE EndOfInbox
  BY <1>1, <1>4 DEF EndOfInbox, ForcedStep
<1>5. CASE Level \/ Migrate \/ fallback_backup_kernel \/ NoMigration \/ Info
            \/ NoBlueprint \/ UpgradeKernel
  BY <1>1, <1>5
  DEF Level, Migrate, fallback_backup_kernel, NoMigration, Info, NoBlueprint,
      UpgradeKernel
<1>6. CASE force_kernel_upgrade \/ \E d \in Delays :
             \/ store_kernel_upgrade(d)
             \/ \E i \in 2 .. Len(Sequencers) : store_sequencer_upgrade(Sequencers[i], d)
  BY <1>1, <1>6
  DEF force_kernel_upgrade, store_kernel_upgrade, store_sequencer_upgrade
<1>7. CASE SequencerStep \/ \E tx \in Delayed : parse_new_chunk(tx)
  BY <1>1, <1>7
  DEF SequencerStep, SequencerBlueprint, DalSlotImportSignals, parse_new_chunk
<1>8. CASE StageTwo
  BY <1>1, <1>8
  DEF StageTwo, ResumeBlock, possible_sequencer_upgrade, invalidate_blueprint,
      StartBlock, ApplyTransaction, RetryTransaction, DiscardTransaction, revert_block
<1> QED
  BY <1>2, <1>3, <1>4, <1>5, <1>6, <1>7, <1>8 DEF Next, Run, StageTwo, SequencerStep

\* The parts of OnceInv.
ChunksOnce ==
  \A n \in Numbers : blueprints[n] # None =>
    \A i \in Indices : blueprints[n].chunks[i] # None =>
      ChunkOnce(i, blueprints[n].chunks[i])

ForcedOnce ==
  /\ \A n \in Numbers : ForcedAt(n) =>
       /\ ForcedTxs(n) \subseteq sent
       /\ ForcedTxs(n) \intersect Applied = {}
       /\ ForcedTxs(n) \intersect Hashes = {}
  /\ \A m, n \in Numbers : ForcedAt(m) /\ ForcedAt(n) /\ m # n =>
       ForcedTxs(m) \intersect ForcedTxs(n) = {}

AppliedOnce ==
  /\ ExecutedInOneBlock
  /\ \A i \in DOMAIN chain : DelayedIn(chain[i].transactions) \subseteq Applied
  /\ Applied \subseteq sent /\ Applied \intersect Hashes = {}

BlocksOnce == \A b \in InProgress : BlockOnce(b)

(* OnceInv and its parts.                                                  *)
LEMMA OnceParts == OnceInv <=> AppliedOnce /\ ChunksOnce /\ ForcedOnce /\ BlocksOnce
BY DEF OnceInv, AppliedOnce, ChunksOnce, ForcedOnce, BlocksOnce

\* A step that forces no blueprint and changes none that is forced.
NoNewForced ==
  \A n \in Numbers : ForcedAt(n)' => ForcedAt(n) /\ ForcedTxs(n)' = ForcedTxs(n)

(* Such a step keeps transactions where they are.                          *)
LEMMA OnceKept ==
  ASSUME AppliedOnce, ForcedOnce, NoNewForced, UNCHANGED world,
         sent \subseteq sent', Hashes' \ Hashes \subseteq sent' \ sent
  PROVE  AppliedOnce' /\ ForcedOnce'
<1>1. Applied' = Applied
  BY DEF Applied
<1>2. AppliedOnce'
  BY <1>1 DEF AppliedOnce, ExecutedInOneBlock, OnceIn, DelayedIn, chain
<1>3. ASSUME NEW n \in Numbers, ForcedAt(n)'
      PROVE  /\ ForcedTxs(n)' \subseteq sent'
             /\ ForcedTxs(n)' \intersect Applied' = {}
             /\ ForcedTxs(n)' \intersect Hashes' = {}
  <2>1. ForcedAt(n) /\ ForcedTxs(n)' = ForcedTxs(n)
    BY <1>3 DEF NoNewForced
  <2>2. /\ ForcedTxs(n) \subseteq sent
        /\ ForcedTxs(n) \intersect Applied = {}
        /\ ForcedTxs(n) \intersect Hashes = {}
    BY <2>1 DEF ForcedOnce
  <2> QED  BY <1>1, <2>1, <2>2
<1>4. ASSUME NEW m \in Numbers, NEW n \in Numbers, ForcedAt(m)', ForcedAt(n)', m # n
      PROVE  ForcedTxs(m)' \intersect ForcedTxs(n)' = {}
  <2>1. /\ ForcedAt(m) /\ ForcedTxs(m)' = ForcedTxs(m)
        /\ ForcedAt(n) /\ ForcedTxs(n)' = ForcedTxs(n)
    BY <1>4 DEF NoNewForced
  <2> QED  BY <1>4, <2>1 DEF ForcedOnce
<1> QED  BY <1>2, <1>3, <1>4 DEF ForcedOnce

(* What a message of the sequencer stores: one blueprint of its own.       *)
LEMMA Proposed ==
  ASSUME Inv, SequencerStep, UNCHANGED sequencer
  PROVE  \E c \in Chunk :
           /\ ~ c.forced
           /\ \A n \in Numbers : \/ blueprints'[n] = blueprints[n]
                                 \/ Overwrites(blueprints'[n], blueprints[n], c)
<1> USE DEF Inv
<1>1. PICK number \in Upcoming : \E blueprint \in Proposal(number) :
        \/ \E c \in Chunking : SequencerBlueprint(number, c, blueprint)
        \/ \E nb \in {c[1] : c \in Chunking} :
             DalSlotImportSignals(number, nb, blueprint)
  BY DEF SequencerStep
<1>2. PICK blueprint \in Proposal(number) :
        \/ \E c \in Chunking : SequencerBlueprint(number, c, blueprint)
        \/ \E nb \in {c[1] : c \in Chunking} :
             DalSlotImportSignals(number, nb, blueprint)
  BY <1>1
<1>3. PICK i \in Indices, nb \in 1 .. MaxChunks :
        \/ blueprints' = store_sequencer_blueprint(blueprints, number, i, nb, blueprint)
        \/ blueprints' = store_slot(blueprints, number, nb, blueprint)
  <2>1. CASE \E c \in Chunking : SequencerBlueprint(number, c, blueprint)
    <3>1. PICK c \in Chunking : SequencerBlueprint(number, c, blueprint)
      BY <2>1
    <3>2. c[1] \in 1 .. MaxChunks /\ c[2] \in Indices
      BY ChunkingAssumption
    <3> QED  BY <3>1, <3>2 DEF SequencerBlueprint
  <2>2. CASE \E nb \in {c[1] : c \in Chunking} : DalSlotImportSignals(number, nb, blueprint)
    <3>1. PICK c \in Chunking : DalSlotImportSignals(number, c[1], blueprint)
      BY <2>2
    <3>2. c[1] \in 1 .. MaxChunks /\ c[2] \in Indices
      BY ChunkingAssumption
    <3> QED  BY <3>1, <3>2 DEF DalSlotImportSignals
  <2> QED  BY <1>2, <2>1, <2>2
<1>4. blueprint \in Blueprint /\ number \in Numbers
  BY ProposalIsBlueprint
<1> DEFINE c == [blueprint |-> blueprint, of |-> nb, forced |-> FALSE]
           d == [blueprint |-> blueprint, of |-> 1, forced |-> TRUE]
           f == store_sequencer_blueprint(blueprints, number, i, nb, blueprint)
           g == store_slot(blueprints, number, nb, blueprint)
           h == store_immediate_blueprint(blueprints, number, blueprint)
<1>6. /\ c = [blueprint |-> blueprint, of |-> nb, forced |-> FALSE]
      /\ d = [blueprint |-> blueprint, of |-> 1, forced |-> TRUE]
      /\ f = store_sequencer_blueprint(blueprints, number, i, nb, blueprint)
      /\ g = store_slot(blueprints, number, nb, blueprint)
      /\ h = store_immediate_blueprint(blueprints, number, blueprint)
  OBVIOUS
<1>7. ~ c.forced /\ c.blueprint = blueprint
  OBVIOUS
<1>8. /\ blueprints \in [Numbers -> Stored \union {None}]
      /\ blueprints' = f \/ blueprints' = g
  BY <1>3 DEF TypeOK
<1> HIDE DEF c, d, f, g, h
<1>9. /\ c \in Chunk
      /\ Overwrites(f[number], blueprints[number], c)
      /\ f = [blueprints EXCEPT ![number] = f[number]]
      /\ Overwrites(g[number], blueprints[number], c)
      /\ g = [blueprints EXCEPT ![number] = g[number]]
  BY <1>4, <1>6, <1>8, Storing
<1>10. ASSUME NEW n \in Numbers
       PROVE  \/ blueprints'[n] = blueprints[n]
              \/ Overwrites(blueprints'[n], blueprints[n], c)
  <2>1. CASE n = number
    BY <1>8, <1>9, <2>1
  <2>2. CASE n # number
    BY <1>8, <1>9, <2>2
  <2> QED  BY <2>1, <2>2
<1> QED  BY <1>7, <1>9, <1>10

(* A message of the sequencer forces nothing.                              *)
LEMMA ProposedOnce ==
  ASSUME Inv, ChunksOnce, SequencerStep, NoBlockStep
  PROVE  ChunksOnce' /\ NoNewForced
<1>1. PICK c \in Chunk :
        /\ ~ c.forced
        /\ \A n \in Numbers : \/ blueprints'[n] = blueprints[n]
                              \/ Overwrites(blueprints'[n], blueprints[n], c)
  BY Proposed DEF NoBlockStep
<1>2. Next_number' = Next_number
  BY DEF NoBlockStep, Next_number, chain
<1>3. ASSUME NEW n \in Numbers, blueprints'[n] # None, NEW i \in Indices,
             blueprints'[n].chunks[i] # None, blueprints'[n].chunks[i] # c
      PROVE  blueprints[n] # None /\ blueprints[n].chunks[i] = blueprints'[n].chunks[i]
  <2>1. CASE blueprints'[n] = blueprints[n]
    BY <1>3, <2>1
  <2>2. CASE Overwrites(blueprints'[n], blueprints[n], c)
    <3>1. blueprints'[n].chunks[i] = ChunksOf(blueprints[n])[i]
      BY <1>3, <2>2 DEF Overwrites
    <3>2. blueprints[n] # None
      BY <1>3, <3>1 DEF ChunksOf, NoChunks
    <3> QED  BY <3>1, <3>2 DEF ChunksOf
  <2> QED  BY <1>1, <2>1, <2>2
<1>4. ChunksOnce'
  <2>1. ASSUME NEW n \in Numbers, blueprints'[n] # None, NEW i \in Indices,
               blueprints'[n].chunks[i] # None
        PROVE  ChunkOnce(i, blueprints'[n].chunks[i])
    <3>1. CASE blueprints'[n].chunks[i] = c
      BY <1>1, <3>1 DEF ChunkOnce
    <3>2. CASE blueprints'[n].chunks[i] # c
      BY <1>3, <2>1, <3>2 DEF ChunksOnce
    <3> QED  BY <3>1, <3>2
  <2> QED  BY <2>1 DEF ChunksOnce
<1>5. ASSUME NEW n \in Numbers, ForcedAt(n)'
      PROVE  ForcedAt(n) /\ ForcedTxs(n)' = ForcedTxs(n)
  <2>1. /\ n >= Next_number /\ blueprints'[n] # None
        /\ blueprints'[n].chunks[0] # None /\ blueprints'[n].chunks[0].forced
    BY <1>2, <1>5 DEF ForcedAt, IsForced
  <2>2. 0 \in Indices
    BY ChunkingAssumption DEF Indices
  <2>3. blueprints[n] # None /\ blueprints[n].chunks[0] = blueprints'[n].chunks[0]
    BY <1>1, <1>3, <2>1, <2>2
  <2> QED  BY <2>1, <2>3 DEF ForcedAt, IsForced, ForcedTxs
<1> QED  BY <1>4, <1>5 DEF NoNewForced

(* Multiplication is monotone.                                             *)
LEMMA Monotone ==
  ASSUME NEW a \in Nat, NEW b \in Nat, NEW m \in Nat, a <= b
  PROVE  a * m <= b * m /\ a * m \in Nat /\ b * m \in Nat
<1> DEFINE c == b - a
<1>1. c \in Nat /\ b = a + c
  OBVIOUS
<1> HIDE DEF c
<1>2. b * m = a * m + c * m
  BY <1>1
<1>3. c * m \in Nat /\ a * m \in Nat /\ b * m \in Nat
  BY <1>1
<1> QED  BY <1>2, <1>3

\* The place in the delayed inbox of the i-th transaction of the k-th batch.
Place(k, i) == (k - 1) * MaxForced + i

(* The transactions of the k-th forced blueprint.                          *)
LEMMA Batch ==
  ASSUME TypeOK, NEW k \in Batches, NEW t, t = ForcedBlueprint(k).transactions
  PROVE  /\ k \in Nat /\ k >= 1
         /\ t \in Seq(Delayed)
         /\ \A i \in DOMAIN t :
              /\ i \in 1 .. MaxForced /\ Place(k, i) \in DOMAIN delayed_inbox
              /\ t[i] = delayed_inbox[Place(k, i)].hash
         /\ \A i \in 1 .. MaxForced : Place(k, i) \in DOMAIN delayed_inbox => i \in DOMAIN t
<1> DEFINE txs == [i \in DOMAIN delayed_inbox |-> delayed_inbox[i].hash]
           N == Len(delayed_inbox)
           q == (k - 1) * MaxForced
           last == k * MaxForced
           end == IF last < N THEN last ELSE N
<1>1. /\ delayed_inbox \in Seq(Item) /\ k \in 1 .. N /\ N \in Nat
      /\ DOMAIN delayed_inbox = 1 .. N /\ q < N
  BY DEF TypeOK, Batches
<1>2. MaxForced \in Nat /\ MaxForced >= 1 /\ k \in Nat /\ k >= 1
  BY <1>1, ForcedAssumption
<1>3. q \in Nat /\ last = q + MaxForced /\ last \in Nat
  <2>1. k - 1 \in Nat
    BY <1>2
  <2>2. (k - 1) * MaxForced \in Nat
    BY <1>2, <2>1
  <2>3. k * MaxForced = (k - 1) * MaxForced + MaxForced
    BY <1>2
  <2> QED  BY <1>2, <2>2, <2>3
<1>4. /\ txs \in Seq(Delayed) /\ Len(txs) = N
      /\ \A i \in 1 .. N : txs[i] = delayed_inbox[i].hash
  <2>1. \A i \in 1 .. N : delayed_inbox[i].hash \in Delayed
    <3>1. \A i \in 1 .. N : delayed_inbox[i] \in Item
      BY <1>1
    <3> QED  BY <3>1 DEF Item
  <2> QED  BY <1>1, <2>1, IsASeq
<1>5. t = SubSeq(txs, last - MaxForced + 1, IF last < Len(txs) THEN last ELSE Len(txs))
  BY DEF ForcedBlueprint
<1>6. t = SubSeq(txs, q + 1, end)
  <2>1. last - MaxForced + 1 = q + 1
    BY <1>2, <1>3
  <2> HIDE DEF txs, last, q
  <2> QED  BY <1>4, <1>5, <2>1
<1>7. end \in 0 .. N /\ end >= q + 1 /\ end <= q + MaxForced
  <2> HIDE DEF q, last, N
  <2> QED  BY <1>1, <1>2, <1>3
<1> HIDE DEF txs, q, last, end, N
<1>8. /\ t \in Seq(Delayed) /\ Len(t) = end - q
      /\ \A i \in 1 .. end - q : t[i] = txs[q + i]
  <2>1. t \in Seq(Delayed)
    BY <1>3, <1>4, <1>6, <1>7
  <2>2. Len(t) = end - q
    BY <1>1, <1>3, <1>4, <1>6, <1>7
  <2>3. ASSUME NEW i \in 1 .. end - q  PROVE  t[i] = txs[q + i]
    BY <1>1, <1>3, <1>4, <1>6, <1>7
  <2> QED  BY <2>1, <2>2, <2>3
<1>9. DOMAIN t = 1 .. end - q
  BY <1>8
<1>10. ASSUME NEW i \in DOMAIN t
       PROVE  /\ i \in 1 .. MaxForced /\ Place(k, i) \in DOMAIN delayed_inbox
              /\ t[i] = delayed_inbox[Place(k, i)].hash
  <2>1. i \in 1 .. MaxForced /\ q + i \in 1 .. N
    BY <1>1, <1>2, <1>3, <1>7, <1>9
  <2>2. Place(k, i) = q + i
    BY DEF Place, q
  <2> QED  BY <1>1, <1>4, <1>8, <1>9, <2>1, <2>2
<1>11. ASSUME NEW i \in 1 .. MaxForced, Place(k, i) \in DOMAIN delayed_inbox
       PROVE  i \in DOMAIN t
  <2>1. q + i \in 1 .. N
    BY <1>1, <1>11 DEF Place, q
  <2>2. end = IF q + MaxForced < N THEN q + MaxForced ELSE N
    BY <1>3 DEF end
  <2> QED  BY <1>1, <1>2, <1>3, <1>9, <2>1, <2>2
<1> QED  BY <1>2, <1>8, <1>10, <1>11

(* Different batches are different places.                                 *)
LEMMA Places ==
  ASSUME NEW k \in Nat, NEW l \in Nat, k >= 1, l >= 1,
         NEW i \in 1 .. MaxForced, NEW j \in 1 .. MaxForced, Place(k, i) = Place(l, j)
  PROVE  k = l /\ i = j
<1> DEFINE M == MaxForced
<1>1. M \in Nat /\ M >= 1
  BY ForcedAssumption
<1>2. /\ (k - 1) * M \in Nat /\ (l - 1) * M \in Nat
      /\ k * M = (k - 1) * M + M /\ l * M = (l - 1) * M + M
  <2>1. k - 1 \in Nat /\ l - 1 \in Nat
    OBVIOUS
  <2> QED  BY <1>1, <2>1
<1>3. (k - 1) * M + i = (l - 1) * M + j
  BY DEF Place
<1>4. CASE k = l
  <2>1. (k - 1) * M = (l - 1) * M
    BY <1>4
  <2> DEFINE x == (k - 1) * M
             y == (l - 1) * M
  <2> HIDE DEF x, y
  <2>2. x \in Nat /\ y \in Nat /\ x = y /\ x + i = y + j
    BY <1>2, <1>3, <2>1 DEF x, y
  <2>3. i = j
    BY <1>1, <2>2
  <2> QED  BY <1>4, <2>3
<1>5. CASE k < l
  <2>1. k * M <= (l - 1) * M
    BY <1>1, <1>5, Monotone
  <2> DEFINE x == (k - 1) * M
             y == (l - 1) * M
             z == k * M
  <2> HIDE DEF x, y, z
  <2>2. x \in Nat /\ y \in Nat /\ z = x + M /\ z <= y /\ x + i = y + j
    BY <1>2, <1>3, <2>1 DEF x, y, z
  <2> QED  BY <1>1, <2>2
<1>6. CASE l < k
  <2>1. l * M <= (k - 1) * M
    BY <1>1, <1>6, Monotone
  <2> DEFINE x == (k - 1) * M
             y == (l - 1) * M
             z == l * M
  <2> HIDE DEF x, y, z
  <2>2. x \in Nat /\ y \in Nat /\ z = y + M /\ z <= x /\ x + i = y + j
    BY <1>2, <1>3, <2>1 DEF x, y, z
  <2> QED  BY <1>1, <2>2
<1> QED  BY <1>4, <1>5, <1>6

(* A batch takes transactions out of the delayed inbox, each one once.     *)
LEMMA BatchOnce ==
  ASSUME TypeOK, TransferInv, NEW k \in Batches, NEW t,
         t = ForcedBlueprint(k).transactions
  PROVE  /\ t \in Seq(Delayed) /\ OnceIn(t) /\ ToSet(t) \subseteq Hashes
         /\ \A l \in Batches : l # k =>
              ToSet(t) \intersect ToSet(ForcedBlueprint(l).transactions) = {}
<1>1. /\ k \in Nat /\ k >= 1 /\ t \in Seq(Delayed)
      /\ \A i \in DOMAIN t :
           /\ i \in 1 .. MaxForced /\ Place(k, i) \in DOMAIN delayed_inbox
           /\ t[i] = delayed_inbox[Place(k, i)].hash
  BY Batch
<1>2. ASSUME NEW i \in DOMAIN t, NEW j \in DOMAIN t, t[i] = t[j]  PROVE  i = j
  <2>1. Place(k, i) = Place(k, j)
    BY <1>1, <1>2 DEF TransferInv
  <2> QED  BY <1>1, <2>1, Places
<1>3. ToSet(t) \subseteq Hashes
  BY <1>1 DEF ToSet, Hashes
<1>4. ASSUME NEW l \in Batches, l # k, NEW u, u = ForcedBlueprint(l).transactions
      PROVE  ToSet(t) \intersect ToSet(u) = {}
  <2>1. /\ l \in Nat /\ l >= 1
        /\ \A i \in DOMAIN u :
             /\ i \in 1 .. MaxForced /\ Place(l, i) \in DOMAIN delayed_inbox
             /\ u[i] = delayed_inbox[Place(l, i)].hash
    BY <1>4, Batch
  <2>2. ASSUME NEW i \in DOMAIN t, NEW j \in DOMAIN u, t[i] = u[j]  PROVE  FALSE
    <3>1. Place(k, i) = Place(l, j)
      BY <1>1, <2>1, <2>2 DEF TransferInv
    <3> QED  BY <1>1, <1>4, <2>1, <3>1, Places
  <2> QED  BY <2>2 DEF ToSet
<1> QED  BY <1>1, <1>2, <1>3, <1>4 DEF OnceIn

(* Forced blueprints take the first chunk of their number.                 *)
LEMMA Forcing ==
  ASSUME TypeOK, fetch_delayed_transactions, NEW n \in Numbers
  PROVE  /\ n - Len(chain) \in Batches =>
              /\ blueprints'[n] # None
              /\ blueprints'[n].chunks[0] =
                   [blueprint |-> ForcedBlueprint(n - Len(chain)), of |-> 1,
                    forced |-> TRUE]
              /\ \A i \in Indices : i # 0 =>
                   blueprints'[n].chunks[i] = ChunksOf(blueprints[n])[i]
         /\ n - Len(chain) \notin Batches => blueprints'[n] = blueprints[n]
         /\ n - Len(chain) \in Batches => n >= Next_number
<1> DEFINE k == n - Len(chain)
<1>1. blueprints \in [Numbers -> Stored \union {None}]
  BY DEF TypeOK
<1>2. k \notin Batches => blueprints'[n] = blueprints[n]
  BY DEF fetch_delayed_transactions
<1>3. ASSUME k \in Batches
      PROVE  /\ blueprints'[n] # None
             /\ blueprints'[n].chunks[0] =
                  [blueprint |-> ForcedBlueprint(k), of |-> 1, forced |-> TRUE]
             /\ \A i \in Indices : i # 0 =>
                  blueprints'[n].chunks[i] = ChunksOf(blueprints[n])[i]
             /\ n >= Next_number
  <2> DEFINE fb == ForcedBlueprint(k)
             d == [blueprint |-> fb, of |-> 1, forced |-> TRUE]
             cs == ChunksOf(blueprints[n])
             z == [cs EXCEPT ![0] = d]
  <2>1. blueprints'[n] = store_immediate_blueprint(blueprints, n, fb)[n]
    BY <1>3 DEF fetch_delayed_transactions
  <2>2. fb \in Blueprint /\ k \in 1 .. Len(delayed_inbox)
    BY <1>3, ForcedIsBlueprint
  <2>3. 0 \in Indices /\ 1 \in 1 .. MaxChunks
    BY ChunkingAssumption DEF Indices
  <2> HIDE DEF fb
  <2>4. d \in Chunk
    BY <2>2, <2>3 DEF Chunk
  <2>5. cs \in [Indices -> Chunk \union {None}]
    BY <1>1 DEF ChunksOf, NoChunks, Stored
  <2>6. blueprints'[n] = [nb_chunks |-> 1, chunks |-> z]
    BY <1>1, <2>1 DEF store_immediate_blueprint
  <2> HIDE DEF d, cs
  <2>7. /\ z \in [Indices -> Chunk \union {None}] /\ z[0] = d
        /\ \A i \in Indices : i # 0 => z[i] = cs[i]
    BY <2>3, <2>4, <2>5
  <2> HIDE DEF z
  <2>8. blueprints'[n] \in Stored /\ blueprints'[n].chunks = z
    BY <2>3, <2>6, <2>7 DEF Stored
  <2>9. n >= Next_number
    <3>1. Len(chain) \in Nat /\ Len(delayed_inbox) \in Nat /\ n \in Nat
      BY NumbersAre DEF TypeOK, World, chain
    <3> QED  BY <2>2, <3>1 DEF Next_number
  <2> QED  BY <2>7, <2>8, <2>9, NoneAssumption DEF d, fb, cs
<1> QED  BY <1>2, <1>3

(* Forced transactions leave the delayed inbox for one place.              *)
LEMMA ForcingOnce ==
  ASSUME Inv, AppliedOnce, ChunksOnce, ForcedOnce, ForcedStep, NoBlockStep
  PROVE  AppliedOnce' /\ ChunksOnce' /\ ForcedOnce'
<1> USE DEF Inv
<1>1. /\ fetch_delayed_transactions /\ sent' = sent /\ world' = world
      /\ Next_number' = Next_number
  BY DEF ForcedStep, EndOfInbox, NoBlockStep, Next_number, chain
<1>2. Hashes' = {} /\ Applied' = Applied
  BY <1>1 DEF fetch_delayed_transactions, Hashes, Applied
<1>3. AppliedOnce'
  BY <1>1, <1>2 DEF AppliedOnce, ExecutedInOneBlock, OnceIn, DelayedIn, chain
<1> DEFINE B(n) == n - Len(chain) \in Batches
           F(n) == ForcedBlueprint(n - Len(chain))
<1>4. ASSUME NEW n \in Numbers
      PROVE  /\ B(n) =>
                  /\ blueprints'[n] # None
                  /\ blueprints'[n].chunks[0] =
                       [blueprint |-> F(n), of |-> 1, forced |-> TRUE]
                  /\ \A i \in Indices : i # 0 =>
                       blueprints'[n].chunks[i] = ChunksOf(blueprints[n])[i]
             /\ ~ B(n) => blueprints'[n] = blueprints[n]
  BY <1>1, Forcing
<1>5. ASSUME NEW n \in Numbers, B(n)
      PROVE  /\ F(n).transactions \in Seq(Delayed) /\ OnceIn(F(n).transactions)
             /\ ToSet(F(n).transactions) \subseteq Hashes
             /\ \A m \in Numbers : B(m) /\ m # n =>
                  ToSet(F(n).transactions) \intersect ToSet(F(m).transactions) = {}
  <2> DEFINE k == n - Len(chain)
  <2>1. /\ F(n).transactions \in Seq(Delayed) /\ OnceIn(F(n).transactions)
        /\ ToSet(F(n).transactions) \subseteq Hashes
        /\ \A l \in Batches : l # k =>
             ToSet(F(n).transactions) \intersect ToSet(ForcedBlueprint(l).transactions) = {}
    BY <1>5, BatchOnce
  <2>2. \A m \in Numbers : m # n => m - Len(chain) # k
    <3>1. Len(chain) \in Nat /\ Numbers \subseteq Nat
      BY NumbersAre DEF TypeOK, World, chain
    <3> QED  BY <3>1
  <2> QED  BY <2>1, <2>2
<1> HIDE DEF B, F
<1>6. ChunksOnce'
  <2>1. ASSUME NEW n \in Numbers, blueprints'[n] # None, NEW i \in Indices,
               blueprints'[n].chunks[i] # None
        PROVE  ChunkOnce(i, blueprints'[n].chunks[i])
    <3>1. CASE B(n) /\ i = 0
      <4>1. blueprints'[n].chunks[i] = [blueprint |-> F(n), of |-> 1, forced |-> TRUE]
        BY <1>4, <3>1
      <4>2. blueprints'[n].chunks[i].blueprint = F(n)
        BY <4>1
      <4> QED  BY <1>5, <3>1, <4>2 DEF ChunkOnce
    <3>2. CASE B(n) /\ i # 0
      <4>1. blueprints'[n].chunks[i] = ChunksOf(blueprints[n])[i]
        BY <1>4, <3>2
      <4>2. blueprints[n] # None
        BY <2>1, <4>1 DEF ChunksOf, NoChunks
      <4>3. blueprints'[n].chunks[i] = blueprints[n].chunks[i]
        BY <4>1, <4>2 DEF ChunksOf
      <4> QED  BY <2>1, <4>2, <4>3 DEF ChunksOnce
    <3>3. CASE ~ B(n)
      BY <1>4, <2>1, <3>3 DEF ChunksOnce
    <3> QED  BY <3>1, <3>2, <3>3
  <2> QED  BY <2>1 DEF ChunksOnce
<1>7. ASSUME NEW n \in Numbers, ForcedAt(n)'
      PROVE  \/ B(n) /\ ForcedTxs(n)' = ToSet(F(n).transactions)
             \/ ~ B(n) /\ ForcedAt(n) /\ ForcedTxs(n)' = ForcedTxs(n)
  <2>1. CASE B(n)
    <3>1. blueprints'[n].chunks[0] = [blueprint |-> F(n), of |-> 1, forced |-> TRUE]
      BY <1>4, <2>1
    <3>2. blueprints'[n].chunks[0].blueprint = F(n)
      BY <3>1
    <3> QED  BY <2>1, <3>2 DEF ForcedTxs
  <2>2. CASE ~ B(n)
    <3>1. blueprints'[n] = blueprints[n]
      BY <1>4, <2>2
    <3> QED  BY <1>1, <1>7, <2>2, <3>1 DEF ForcedAt, ForcedTxs
  <2> QED  BY <2>1, <2>2
<1>8. ASSUME NEW n \in Numbers, ForcedAt(n)'
      PROVE  /\ ForcedTxs(n)' \subseteq sent'
             /\ ForcedTxs(n)' \intersect Applied' = {}
             /\ ForcedTxs(n)' \intersect Hashes' = {}
  <2>1. CASE B(n) /\ ForcedTxs(n)' = ToSet(F(n).transactions)
    <3>1. ForcedTxs(n)' \subseteq Hashes
      BY <1>5, <2>1
    <3>2. Hashes \subseteq sent /\ Applied \intersect Hashes = {}
      BY DEF TransferInv, AppliedOnce
    <3> QED  BY <1>1, <1>2, <3>1, <3>2
  <2>2. CASE ForcedAt(n) /\ ForcedTxs(n)' = ForcedTxs(n)
    BY <1>1, <1>2, <2>2 DEF ForcedOnce
  <2> QED  BY <1>7, <1>8, <2>1, <2>2
<1>9. ASSUME NEW m \in Numbers, NEW n \in Numbers, ForcedAt(m)', ForcedAt(n)', m # n
      PROVE  ForcedTxs(m)' \intersect ForcedTxs(n)' = {}
  <2>1. \A x \in Numbers : ForcedAt(x) => ForcedTxs(x) \intersect Hashes = {}
    BY DEF ForcedOnce
  <2>2. /\ \/ B(m) /\ ForcedTxs(m)' = ToSet(F(m).transactions)
           \/ ForcedAt(m) /\ ForcedTxs(m)' = ForcedTxs(m)
        /\ \/ B(n) /\ ForcedTxs(n)' = ToSet(F(n).transactions)
           \/ ForcedAt(n) /\ ForcedTxs(n)' = ForcedTxs(n)
    BY <1>7, <1>9
  <2>3. CASE B(m) /\ B(n) /\ ForcedTxs(m)' = ToSet(F(m).transactions)
             /\ ForcedTxs(n)' = ToSet(F(n).transactions)
    BY <1>5, <1>9, <2>3
  <2>4. CASE B(m) /\ ForcedTxs(m)' = ToSet(F(m).transactions)
             /\ ForcedAt(n) /\ ForcedTxs(n)' = ForcedTxs(n)
    <3>1. ForcedTxs(m)' \subseteq Hashes
      BY <1>5, <2>4
    <3> QED  BY <2>1, <2>4, <3>1
  <2>5. CASE B(n) /\ ForcedTxs(n)' = ToSet(F(n).transactions)
             /\ ForcedAt(m) /\ ForcedTxs(m)' = ForcedTxs(m)
    <3>1. ForcedTxs(n)' \subseteq Hashes
      BY <1>5, <2>5
    <3> QED  BY <2>1, <2>5, <3>1
  <2>6. CASE ForcedAt(m) /\ ForcedTxs(m)' = ForcedTxs(m)
             /\ ForcedAt(n) /\ ForcedTxs(n)' = ForcedTxs(n)
    BY <1>9, <2>6 DEF ForcedOnce
  <2> QED  BY <2>2, <2>3, <2>4, <2>5, <2>6
<1> QED  BY <1>3, <1>6, <1>8, <1>9 DEF ForcedOnce

(* A block in progress goes on.                                            *)
LEMMA BlocksKept ==
  ASSUME Inv, BlocksOnce, UNCHANGED <<blueprints, world>>, Hashes \subseteq Hashes',
         \A b \in InProgress' : \E a \in InProgress : Follows(b, a)
  PROVE  BlocksOnce'
<1> SUFFICES ASSUME NEW b \in InProgress', NEW a \in InProgress, Follows(b, a)
             PROVE  BlockOnce(b)'
  BY DEF BlocksOnce
<1>1. BlockOnce(a)
  BY DEF BlocksOnce
<1>2. /\ ToSet(Work(b)) \subseteq ToSet(Work(a))
      /\ OnceIn(Work(a)) => OnceIn(Work(b))
  <2>1. CASE Work(b) = Work(a)
    BY <2>1
  <2>2. CASE /\ DiscardTransaction /\ a = bip
             /\ b.done = a.done /\ b.queue = Tail(a.queue)
    <3> DEFINE s == a.done
               t == a.queue
               v == Work(b)
               w == Work(a)
    <3>1. bip \in BlockInProgress /\ bip.queue # << >>
      BY <2>2, Computing DEF DiscardTransaction
    <3>2. s \in Seq(Transaction) /\ t \in Seq(Transaction) /\ t # << >>
      BY <2>2, <3>1 DEF BlockInProgress
    <3>3. v = s \o Tail(t) /\ w = s \o t
      BY <2>2 DEF Work
    <3> HIDE DEF s, t, v, w
    <3>4. ToSet(v) \subseteq ToSet(w) /\ (OnceIn(w) => OnceIn(v))
      BY <3>2, <3>3, Discarding
    <3> QED  BY <3>4 DEF v, w
  <2> QED  BY <2>1, <2>2 DEF Follows
<1>3. b.number = a.number /\ b.by = a.by
  BY DEF Follows
<1>4. Next_number' = Next_number
  BY DEF Next_number, chain
<1>5. /\ ForcedAt(a.number) => ForcedAt(b.number)'
      /\ ForcedTxs(b.number)' = ForcedTxs(a.number)
  BY <1>3, <1>4 DEF ForcedAt, ForcedTxs
<1>6. b.by = None =>
        /\ OnceIn(Work(b)) /\ ForcedAt(b.number)'
        /\ ToSet(Work(b)) \intersect Delayed \subseteq ForcedTxs(b.number)'
  BY <1>1, <1>2, <1>3, <1>5 DEF BlockOnce
<1>7. b.by # None => ToSet(Work(b)) \intersect Delayed \subseteq Hashes'
  BY <1>1, <1>2, <1>3 DEF BlockOnce
<1> QED  BY <1>2, <1>6, <1>7 DEF BlockOnce, OnceIn, Work

(* A block starts from the delayed inbox or from a forced blueprint.       *)
LEMMA StartOnce ==
  ASSUME Inv, ChunksOnce, StartBlock, InProgress' = {bip'}
  PROVE  BlocksOnce'
<1> USE DEF Inv
<1> DEFINE p == NextBlueprint.blueprint
           b == blueprints[Next_number]
<1>1. /\ b \in Stored /\ b.chunks[0] \in Chunk
      /\ p = b.chunks[0].blueprint /\ p \in Blueprint
      /\ \/ IsForced(b) /\ p.by = None
         \/ /\ ~ IsForced(b) /\ p.by = sequencer
            /\ DelayedAreFetched(p, b.nb_chunks, Hashes)
  BY ReadNext DEF StartBlock
<1>2. /\ bip' = [number |-> Next_number, parent_hash |-> p.parent_hash,
                 queue |-> p.transactions, done |-> << >>,
                 timestamp |-> p.timestamp, by |-> p.by]
      /\ UNCHANGED <<world, blueprints, delayed_inbox>>
  BY DEF StartBlock
<1>3. b # None /\ b.chunks[0] # None /\ 0 \in Indices /\ Next_number \in Numbers
  BY <1>1, NoneAssumption, ChunkingAssumption DEF Indices, TypeOK
<1>4. /\ p.transactions \in Seq(Transaction)
      /\ IsForced(b) => OnceIn(p.transactions)
  BY <1>1, <1>3 DEF ChunksOnce, ChunkOnce, Blueprint, IsForced
<1> HIDE DEF p
<1>5. bip'.number = Next_number /\ bip'.by = p.by /\ Work(bip') = p.transactions
  <2>1. bip'.number = Next_number /\ bip'.by = p.by /\ bip'.queue = p.transactions
        /\ bip'.done = << >>
    BY <1>2
  <2>2. << >> \o p.transactions = p.transactions
    BY <1>4, ConcatEmptySeq
  <2> QED  BY <2>1, <2>2 DEF Work
<1>6. Next_number' = Next_number /\ Hashes' = Hashes
  BY <1>2 DEF Next_number, chain, Hashes
<1>7. CASE IsForced(b) /\ p.by = None
  <2>1. Next_number \in Nat
    BY <1>3, NumbersAre
  <2>2. ForcedAt(bip.number)' /\ ForcedTxs(bip.number)' = ToSet(p.transactions)
    BY <1>1, <1>2, <1>3, <1>5, <1>6, <1>7, <2>1 DEF ForcedAt, ForcedTxs
  <2>3. BlockOnce(bip)'
    BY <1>4, <1>5, <1>7, <2>2 DEF BlockOnce, OnceIn
  <2> QED  BY <2>3 DEF BlocksOnce
<1>8. CASE /\ ~ IsForced(b) /\ p.by = sequencer
           /\ DelayedAreFetched(p, b.nb_chunks, Hashes)
  <2>1. p.by # None
    BY <1>8, NoneAssumption DEF TypeOK
  <2>2. ToSet(p.transactions) \intersect Delayed \subseteq Hashes
    BY <1>8 DEF DelayedAreFetched, DelayedOf, ToSet
  <2>3. BlockOnce(bip)'
    BY <1>4, <1>5, <1>6, <2>1, <2>2 DEF BlockOnce, OnceIn
  <2> QED  BY <2>3 DEF BlocksOnce
<1> QED  BY <1>1, <1>7, <1>8

(* The elements of two sequences, one after the other.                     *)
LEMMA Concat ==
  ASSUME NEW s \in Seq(Transaction), NEW t \in Seq(Transaction), NEW u, u = s \o t
  PROVE  ToSet(u) = ToSet(s) \union ToSet(t)
<1>1. /\ Len(s) \in Nat /\ Len(t) \in Nat /\ DOMAIN s = 1 .. Len(s)
      /\ DOMAIN t = 1 .. Len(t) /\ DOMAIN u = 1 .. Len(s) + Len(t)
      /\ \A i \in 1 .. Len(s) : u[i] = s[i]
      /\ \A i \in 1 .. Len(t) : u[Len(s) + i] = t[i]
  OBVIOUS
<1>2. \A i \in DOMAIN u :
        i \in DOMAIN s \/ (i - Len(s) \in DOMAIN t /\ u[i] = t[i - Len(s)])
  <2>1. ASSUME NEW i \in DOMAIN u, i \notin DOMAIN s
        PROVE  i - Len(s) \in DOMAIN t /\ u[i] = t[i - Len(s)]
    <3>1. i - Len(s) \in 1 .. Len(t) /\ Len(s) + (i - Len(s)) = i
      BY <1>1, <2>1
    <3> QED  BY <1>1, <3>1
  <2> QED  BY <2>1
<1>3. ToSet(u) \subseteq ToSet(s) \union ToSet(t)
  BY <1>1, <1>2 DEF ToSet
<1>4. ToSet(s) \subseteq ToSet(u)
  <2>1. \A i \in DOMAIN s : i \in DOMAIN u
    BY <1>1
  <2> QED  BY <1>1, <2>1 DEF ToSet
<1>5. ToSet(t) \subseteq ToSet(u)
  <2>1. \A i \in DOMAIN t : Len(s) + i \in DOMAIN u
    BY <1>1
  <2> QED  BY <1>1, <2>1 DEF ToSet
<1> QED  BY <1>3, <1>4, <1>5

(* A promotion: the block is done, and the world has its effects.          *)
LEMMA Promoting ==
  ASSUME Inv, promote_block
  PROVE  /\ bip \in BlockInProgress /\ bip \in InProgress /\ bip.number = Next_number
         /\ Next_number \in Numbers /\ Work(bip) = bip.done
         /\ bip.done \in Seq(Transaction) /\ world.applied \in Seq(Transaction)
         /\ world'.applied = world.applied \o bip.done
         /\ chain \in Seq(Block) /\ Next_number' = Next_number + 1
         /\ chain' = Append(chain, [transactions |-> bip.done,
                                    timestamp |-> bip.timestamp, by |-> bip.by])
         /\ Hashes' = Hashes \ ToSet(bip.done) /\ InProgress' = {}
         /\ \A n \in Numbers : /\ n # Next_number => blueprints'[n] = blueprints[n]
                               /\ blueprints'[n] # None => blueprints'[n] = blueprints[n]
<1> USE DEF Inv
<1>1. /\ bip \in BlockInProgress /\ bip # None /\ NextBlock(bip)
      /\ bip.number = Next_number /\ bip.number \in Nat
      /\ tmp \in World /\ tmp.chain = chain /\ chain \in Seq(Block)
  BY Computing DEF promote_block
<1>2. bip \in InProgress /\ Next_number \in Numbers
  BY <1>1 DEF InProgress, TypeOK
<1>3. /\ bip.done \in Seq(Transaction) /\ bip.queue = << >>
      /\ world.applied \in Seq(Transaction)
  BY <1>1 DEF promote_block, BlockInProgress, TypeOK, World
<1>4. Work(bip) = bip.done
  BY <1>3, ConcatEmptySeq DEF Work
<1>5. world'.applied = world.applied \o bip.done
  <2>1. tmp.applied = world.applied \o bip.done
    BY <1>1 DEF WorldIsAtomic
  <2> QED  BY <2>1 DEF promote_block
<1>6. /\ chain' = Append(chain, [transactions |-> bip.done,
                                 timestamp |-> bip.timestamp, by |-> bip.by])
      /\ Next_number' = Next_number + 1
  <2>1. chain' = Append(chain, [transactions |-> bip.done,
                                timestamp |-> bip.timestamp, by |-> bip.by])
    BY <1>1 DEF promote_block, chain
  <2>2. Len(chain') = Len(chain) + 1
    BY <1>1, <2>1
  <2> QED  BY <2>1, <2>2 DEF Next_number
<1>7. Hashes' = Hashes \ ToSet(bip.done)
  BY Cleaning DEF promote_block, clean_delayed_transactions
<1>8. InProgress' = {}
  BY DEF promote_block, InProgress, StoredBip
<1>9. BlueprintsOK
  BY DEF BlueprintsOK, TypeOK
<1>10. \A n \in Numbers : /\ n # Next_number => blueprints'[n] = blueprints[n]
                          /\ blueprints'[n] # None => blueprints'[n] = blueprints[n]
  BY <1>1, <1>9, Dropping DEF promote_block
<1> QED  BY <1>1, <1>2, <1>3, <1>4, <1>5, <1>6, <1>7, <1>8, <1>10

(* The transactions of a block are executed for the first time.            *)
LEMMA PromotingOnce ==
  ASSUME Inv, OnceInv, promote_block
  PROVE  AppliedOnce' /\ ForcedOnce'
<1> DEFINE D == ToSet(bip.done) \intersect Delayed
           N == Next_number
<1>0. AppliedOnce /\ ForcedOnce /\ BlocksOnce /\ Hashes \subseteq sent
  BY OnceParts DEF Inv, TransferInv
<1>1. /\ bip \in InProgress /\ bip.number = N /\ N \in Numbers
      /\ bip.done \in Seq(Transaction) /\ world.applied \in Seq(Transaction)
      /\ world'.applied = world.applied \o bip.done
      /\ chain' = Append(chain, [transactions |-> bip.done,
                                 timestamp |-> bip.timestamp, by |-> bip.by])
      /\ Hashes' = Hashes \ ToSet(bip.done) /\ Next_number' = N + 1
      /\ \A n \in Numbers : blueprints'[n] # None => blueprints'[n] = blueprints[n]
  BY Promoting
<1>2. /\ bip.by = None => OnceIn(bip.done) /\ ForcedAt(N) /\ D \subseteq ForcedTxs(N)
      /\ bip.by # None => D \subseteq Hashes
  BY <1>0, <1>1, Promoting DEF BlocksOnce, BlockOnce
<1>3. sent' = sent
  BY DEF promote_block
<1>4. D \intersect Applied = {} /\ D \subseteq sent
  <2>1. CASE bip.by = None
    BY <1>0, <1>1, <1>2, <2>1 DEF ForcedOnce
  <2>2. CASE bip.by # None
    BY <1>0, <1>2, <2>2 DEF AppliedOnce
  <2> QED  BY <2>1, <2>2
<1>5. Applied' = Applied \union D
  <2> DEFINE s == world.applied
             t == bip.done
             u == world'.applied
  <2>1. s \in Seq(Transaction) /\ t \in Seq(Transaction) /\ u = s \o t
    BY <1>1
  <2> HIDE DEF s, t, u
  <2>2. ToSet(u) = ToSet(s) \union ToSet(t)
    BY <2>1, Concat
  <2> QED  BY <2>2 DEF s, t, u, Applied
<1>6. AppliedOnce'
  <2> DEFINE k == Len(chain)
             e(i) == chain[i].transactions
             f(i) == chain'[i].transactions
  <2>1. /\ k \in Nat /\ DOMAIN chain = 1 .. k /\ DOMAIN chain' = 1 .. k + 1
        /\ \A i \in 1 .. k : chain'[i] = chain[i]
        /\ chain'[k + 1] = [transactions |-> bip.done, timestamp |-> bip.timestamp,
                            by |-> bip.by]
    <3>1. chain \in Seq(Block)
      BY DEF Inv, TypeOK, World, chain
    <3> QED  BY <1>1, <3>1
  <2>2. f(k + 1) = bip.done /\ chain'[k + 1].by = bip.by
    BY <2>1
  <2>3. \A i \in 1 .. k : f(i) = e(i) /\ chain'[i].by = chain[i].by
    BY <2>1
  <2>4. /\ \A i \in 1 .. k : DelayedIn(f(i)) \subseteq Applied
        /\ DelayedIn(f(k + 1)) = D
    BY <1>0, <2>1, <2>2, <2>3 DEF AppliedOnce, DelayedIn
  <2>5. \A i, j \in 1 .. k : i # j => DelayedIn(f(i)) \intersect DelayedIn(f(j)) = {}
    BY <1>0, <2>1, <2>3 DEF AppliedOnce, ExecutedInOneBlock
  <2>6. \A i \in 1 .. k : chain'[i].by = None => OnceIn(f(i))
    BY <1>0, <2>1, <2>3 DEF AppliedOnce, ExecutedInOneBlock
  <2>7. chain'[k + 1].by = None => OnceIn(f(k + 1))
    BY <1>2, <2>2
  <2>8. \A i \in 1 .. k + 1 : i \in 1 .. k \/ i = k + 1
    BY <2>1
  <2> HIDE DEF e, f, k
  <2>9. ASSUME NEW i \in 1 .. k + 1, NEW j \in 1 .. k + 1, i # j
        PROVE  DelayedIn(f(i)) \intersect DelayedIn(f(j)) = {}
    BY <1>4, <2>4, <2>5, <2>8, <2>9
  <2>10. \A i \in 1 .. k + 1 : chain'[i].by = None => OnceIn(f(i))
    BY <2>6, <2>7, <2>8
  <2>11. \A i \in 1 .. k + 1 : DelayedIn(f(i)) \subseteq Applied'
    BY <1>5, <2>4, <2>8
  <2>12. ExecutedInOneBlock'
    BY <2>1, <2>9, <2>10 DEF ExecutedInOneBlock, f, DelayedIn, OnceIn
  <2>13. \A i \in DOMAIN chain' : DelayedIn(chain'[i].transactions) \subseteq Applied'
    BY <2>1, <2>11 DEF f
  <2>14. Applied' \subseteq sent' /\ Applied' \intersect Hashes' = {}
    BY <1>0, <1>1, <1>3, <1>4, <1>5 DEF AppliedOnce
  <2> QED  BY <2>12, <2>13, <2>14 DEF AppliedOnce, DelayedIn
<1>7. ASSUME NEW n \in Numbers, ForcedAt(n)'
      PROVE  ForcedAt(n) /\ ForcedTxs(n)' = ForcedTxs(n) /\ n # N
  <2>1. /\ n >= Next_number' /\ blueprints'[n] # None /\ IsForced(blueprints'[n])
    BY <1>7 DEF ForcedAt, IsForced
  <2>2. n >= N /\ n # N
    <3>1. n \in Nat /\ N \in Nat
      BY <1>1, NumbersAre
    <3> QED  BY <1>1, <2>1, <3>1
  <2>3. blueprints'[n] = blueprints[n]
    BY <1>1, <2>1
  <2> QED  BY <2>1, <2>2, <2>3 DEF ForcedAt, ForcedTxs
<1>8. ASSUME NEW n \in Numbers, ForcedAt(n)'
      PROVE  /\ ForcedTxs(n)' \subseteq sent'
             /\ ForcedTxs(n)' \intersect Applied' = {}
             /\ ForcedTxs(n)' \intersect Hashes' = {}
  <2>1. ForcedAt(n) /\ ForcedTxs(n)' = ForcedTxs(n) /\ n # N
    BY <1>7, <1>8
  <2>2. /\ ForcedTxs(n) \subseteq sent
        /\ ForcedTxs(n) \intersect Applied = {}
        /\ ForcedTxs(n) \intersect Hashes = {}
    BY <1>0, <2>1 DEF ForcedOnce
  <2>3. ForcedTxs(n) \intersect D = {}
    <3>1. CASE bip.by = None
      <4>1. ForcedTxs(n) \intersect ForcedTxs(N) = {}
        BY <1>0, <1>1, <1>2, <2>1, <3>1 DEF ForcedOnce
      <4> QED  BY <1>2, <3>1, <4>1
    <3>2. CASE bip.by # None
      BY <1>2, <2>2, <3>2
    <3> QED  BY <3>1, <3>2
  <2> QED  BY <1>1, <1>3, <1>5, <2>1, <2>2, <2>3
<1>9. ASSUME NEW m \in Numbers, NEW n \in Numbers, ForcedAt(m)', ForcedAt(n)', m # n
      PROVE  ForcedTxs(m)' \intersect ForcedTxs(n)' = {}
  <2>1. /\ ForcedAt(m) /\ ForcedTxs(m)' = ForcedTxs(m)
        /\ ForcedAt(n) /\ ForcedTxs(n)' = ForcedTxs(n)
    BY <1>7, <1>9
  <2> QED  BY <1>0, <1>9, <2>1 DEF ForcedOnce
<1> QED  BY <1>6, <1>8, <1>9 DEF ForcedOnce

(* Dropping blueprints forces nothing.                                     *)
LEMMA DroppingOnce ==
  ASSUME ChunksOnce, NoNewBlueprint
  PROVE  /\ ChunksOnce'
         /\ UNCHANGED chain => NoNewForced
<1>1. ChunksOnce'
  BY DEF NoNewBlueprint, ChunksOnce
<1>2. ASSUME UNCHANGED chain, NEW n \in Numbers, ForcedAt(n)'
      PROVE  ForcedAt(n) /\ ForcedTxs(n)' = ForcedTxs(n)
  <2>1. n >= Next_number /\ blueprints'[n] # None /\ IsForced(blueprints'[n])
    BY <1>2 DEF ForcedAt, IsForced, Next_number
  <2>2. blueprints'[n] = blueprints[n]
    BY <2>1 DEF NoNewBlueprint
  <2> QED  BY <2>1, <2>2 DEF ForcedAt, ForcedTxs
<1> QED  BY <1>1, <1>2 DEF NoNewForced

(* Every step keeps a delayed transaction in one place.                    *)
LEMMA OnceStep ==
  ASSUME Inv, TurnInv, OnceInv, Next
  PROVE  OnceInv'
<1>0. AppliedOnce /\ ChunksOnce /\ ForcedOnce /\ BlocksOnce
  BY OnceParts
<1>1. AppliedOnce' /\ ChunksOnce' /\ ForcedOnce'
  <2>1. CASE ForcedStep
    <3>1. NoBlockStep
      BY <2>1 DEF ForcedStep, EndOfInbox, Reboot, NoBlockStep, Inv, TypeOK
    <3> QED  BY <1>0, <2>1, <3>1, ForcingOnce
  <2>2. CASE promote_block
    <3>1. ChunksOnce'
      BY <1>0, <2>2, StageTwoDrops, DroppingOnce DEF StageTwo
    <3> QED  BY <2>2, <3>1, PromotingOnce
  <2>3. CASE ~ ForcedStep /\ ~ promote_block
    <3>1. sent \subseteq sent' /\ Hashes' \ Hashes \subseteq sent' \ sent
      BY <2>3, InboxGrows
    <3>2. UNCHANGED world
      <4>1. CASE NoBlockStep
        BY <4>1 DEF NoBlockStep
      <4>2. CASE StageTwo
        BY <2>3, <4>2
        DEF StageTwo, ResumeBlock, possible_sequencer_upgrade, invalidate_blueprint,
            StartBlock, ApplyTransaction, RetryTransaction, DiscardTransaction, revert_block
      <4> QED  BY <4>1, <4>2, Kinds
    <3>3. ChunksOnce' /\ NoNewForced
      <4>1. CASE SequencerStep /\ NoBlockStep
        BY <1>0, <4>1, ProposedOnce
      <4>2. CASE StageTwo \/ (NoBlockStep /\ UNCHANGED blueprints)
        <5>1. NoNewBlueprint
          BY <4>2, StageTwoDrops DEF NoNewBlueprint
        <5> QED  BY <1>0, <3>2, <5>1, DroppingOnce DEF chain
      <4> QED  BY <2>3, <4>1, <4>2, Kinds
    <3> QED  BY <1>0, <3>1, <3>2, <3>3, OnceKept
  <2> QED  BY <2>1, <2>2, <2>3
<1>2. BlocksOnce'
  <2>1. ASSUME InProgress' = {}  PROVE  BlocksOnce'
    BY <2>1 DEF BlocksOnce
  <2>2. ASSUME InProgress = {}, ~ StartBlock  PROVE  BlocksOnce'
    <3>1. InProgress' = {}
      BY <2>2, ProgressStep
    <3> QED  BY <2>1, <3>1
  <2>3. CASE pc = "inbox"
    <3>1. ~ StartBlock
      BY <2>3 DEF StartBlock
    <3> QED  BY <2>2, <2>3, <3>1, Idle
  <2>4. CASE StartBlock /\ InProgress' = {bip'}
    BY <1>0, <2>4, StartOnce
  <2>5. CASE possible_sequencer_upgrade \/ invalidate_blueprint
    <3>1. InProgress = {} /\ ~ StartBlock
      <4>1. bip = None /\ StoredBip = None
        BY <2>5 DEF possible_sequencer_upgrade, invalidate_blueprint, Inv, TypeOK, BlockInv
      <4>2. bip' = None
        BY <2>5, <4>1 DEF possible_sequencer_upgrade, invalidate_blueprint, Finished
      <4>3. StartBlock => bip' # None
        BY TypeStepProduce DEF StartBlock, Inv, TypeOK
      <4> QED  BY <4>1, <4>2, <4>3 DEF InProgress
    <3> QED  BY <2>2, <3>1
  <2>6. CASE revert_block \/ promote_block
    <3>1. InProgress' = {}
      BY <2>6 DEF revert_block, promote_block, Reboot, InProgress, StoredBip
    <3> QED  BY <2>1, <3>1
  <2>7. CASE /\ pc # "inbox" /\ \A b \in InProgress' : \E a \in InProgress : Follows(b, a)
             /\ ~ (possible_sequencer_upgrade \/ invalidate_blueprint \/ revert_block
                   \/ promote_block)
    <3>1. UNCHANGED <<blueprints, world>> /\ ~ ForcedStep
      <4>1. CASE StageTwo
        BY <2>7, <4>1
        DEF StageTwo, ResumeBlock, StartBlock, ApplyTransaction, RetryTransaction,
            DiscardTransaction, ForcedStep, EndOfInbox
      <4>2. CASE NoBlockStep
        <5>1. ~ SequencerStep /\ ~ ForcedStep
          BY <2>7
          DEF SequencerStep, SequencerBlueprint, DalSlotImportSignals, Message,
              ForcedStep, EndOfInbox
        <5>2. UNCHANGED blueprints
          BY <2>7, <5>1, Kinds
          DEF StageTwo, ResumeBlock, StartBlock, ApplyTransaction, RetryTransaction,
              DiscardTransaction
        <5> QED  BY <4>2, <5>1, <5>2 DEF NoBlockStep
      <4> QED  BY <4>1, <4>2, Kinds
    <3>2. Hashes \subseteq Hashes'
      BY <2>7, <3>1, InboxGrows
    <3> QED  BY <1>0, <2>7, <3>1, <3>2, BlocksKept
  <2> QED  BY <2>3, <2>4, <2>5, <2>6, <2>7, ProgressStep
<1>3. (AppliedOnce /\ ChunksOnce /\ ForcedOnce /\ BlocksOnce)' => OnceInv'
  BY DEF OnceInv, AppliedOnce, ChunksOnce, ForcedOnce, BlocksOnce
<1> QED  BY <1>1, <1>2, <1>3

(***************************************************************************)
(* Theorems for levels that have the reboots they need                     *)
(***************************************************************************)
DelayedInv == TurnInv /\ OnceInv

(* Stuttering changes none of the state the invariants speak of.           *)
LEMMA DelayedStutter ==
  ASSUME DelayedInv, UNCHANGED vars
  PROVE  DelayedInv'
<1>1. UNCHANGED <<Next_number, StoredBip, Hashes, Applied, InProgress>>
  BY DEF vars, chain, Next_number, StoredBip, Hashes, Applied, InProgress
<1>2. TurnInv'
  BY <1>1 DEF vars, DelayedInv, TurnInv
<1>3. \A n : /\ ForcedAt(n)' <=> ForcedAt(n)
             /\ ForcedTxs(n)' = ForcedTxs(n)
  BY <1>1 DEF vars, ForcedAt, ForcedTxs
<1>4. \A b : BlockOnce(b)' <=> BlockOnce(b)
  BY <1>1, <1>3 DEF vars, BlockOnce, OnceIn
<1>5. OnceInv'
  BY <1>1, <1>3, <1>4
  DEF vars, DelayedInv, OnceInv, ExecutedInOneBlock, OnceIn, DelayedIn, ChunkOnce, chain
<1> QED  BY <1>2, <1>5 DEF DelayedInv

(* The invariants hold in the initial state and of every step.             *)
LEMMA DelayedInit ==
  ASSUME Init
  PROVE  DelayedInv
<1>1. InProgress = {} /\ Hashes = {} /\ Applied = {} /\ StoredBip = None
  BY DEF Init, InProgress, Hashes, Applied, StoredBip, ToSet
<1>2. \A n \in Numbers : blueprints[n] = None
  BY DEF Init
<1>3. DOMAIN chain = {} /\ ExecutedInOneBlock
  BY DEF Init, chain, ExecutedInOneBlock
<1>4. TurnInv
  BY <1>1 DEF Init, TurnInv
<1>5. OnceInv
  BY <1>1, <1>2, <1>3 DEF OnceInv, ForcedAt
<1> QED  BY <1>4, <1>5 DEF DelayedInv

(* With the reboots they need, delayed transactions are in one place and   *)
(* no block in progress is left to the next level.                         *)
THEOREM DelayedInvariance ==
  ASSUME ~ RebootsMayRunOut
  PROVE  Spec => []DelayedInv
<1>1. Init => DelayedInv
  BY DelayedInit
<1>2. ASSUME Inv, DelayedInv, [Next]_vars  PROVE  DelayedInv'
  BY <1>2, TurnStep, OnceStep, DelayedStutter DEF DelayedInv
<1> QED  BY <1>1, <1>2, Invariance, PTL DEF Spec

(* A delayed transaction is executed by one block only, whether the        *)
(* sequencer includes it, or the kernel forces it, or both try, and once   *)
(* only by a block of the kernel.                                          *)
THEOREM ExecutedInOneBlockHolds ==
  ASSUME ~ RebootsMayRunOut
  PROVE  Spec => []ExecutedInOneBlock
<1>1. DelayedInv => ExecutedInOneBlock
  BY DEF DelayedInv, OnceInv
<1> QED  BY <1>1, DelayedInvariance, PTL

(***************************************************************************)
(* Forced blueprints                                                       *)
(***************************************************************************)
NoForced == \A n \in Numbers : ~ ForcedAt(n)

(* A forced blueprint at the next number is always executed.               *)
LEMMA ForcedIsRead ==
  ASSUME Whole, Inv, ForcedAt(Next_number)
  PROVE  NextBlueprint.status = "next"
<1> DEFINE b == blueprints[Next_number]
<1>1. /\ b \in Stored /\ b # None /\ IsForced(b)
  BY DEF ForcedAt, Inv, TypeOK
<1>2. Indices = {0} /\ b.nb_chunks = 1
  <2>1. b.nb_chunks \in 1 .. 1
    BY <1>1 DEF Stored, Whole
  <2> QED  BY <2>1 DEF Indices, Whole
<1>3. AvailableChunks(b) = 1
  <2>1. {i \in Indices : b.chunks[i] # None} = {0}
    BY <1>1, <1>2 DEF IsForced
  <2> QED  BY <2>1, FS_Singleton DEF AvailableChunks
<1> HIDE DEF b
<1>4. NextBlueprint =
        read_next_blueprint(b, chain, current_timestamp + Lookahead, Hashes)
  BY DEF NextBlueprint, b
<1>5. NextBlueprint = [status |-> "next", blueprint |-> b.chunks[0].blueprint]
  BY <1>1, <1>2, <1>3, <1>4 DEF read_next_blueprint
<1> QED  BY <1>5

(* When there is nothing to execute, no blueprint is forced.               *)
LEMMA NothingForced ==
  ASSUME Whole, Inv, ForcedInv, NoBlueprint \/ invalidate_blueprint
  PROVE  NoForced
<1>1. NextBlueprint.status # "next"
  BY DEF NoBlueprint, invalidate_blueprint
<1>2. ~ ForcedAt(Next_number)
  BY <1>1, ForcedIsRead
<1>3. ASSUME NEW n \in Numbers, ForcedAt(n)  PROVE  FALSE
  <2>1. Next_number \in Numbers /\ Next_number \in Nat /\ n >= Next_number
    BY <1>3, NumbersAre DEF Inv, TypeOK, ForcedAt
  <2>2. Next_number <= Next_number /\ Next_number <= n
    BY <2>1, NumbersAre
  <2> QED  BY <1>2, <1>3, <2>1, <2>2 DEF ForcedInv
<1> QED  BY <1>3 DEF NoForced

(* Without a change of the blueprints and of the chain nothing changes.    *)
LEMMA SameForced ==
  ASSUME UNCHANGED <<blueprints, world>>
  PROVE  /\ Next_number' = Next_number /\ HeadTimestamp(chain)' = HeadTimestamp(chain)
         /\ \A n : ForcedAt(n)' <=> ForcedAt(n)
         /\ \A n : ForcedStamp(n)' = ForcedStamp(n)
<1>1. chain' = chain
  BY DEF chain
<1> QED  BY <1>1 DEF Next_number, ForcedAt, ForcedStamp, HeadTimestamp

(* A level goes on, or the next one starts, with what there was before.    *)
LEMMA TurnsKeep ==
  ASSUME ~ RebootsMayRunOut, Inv, TurnInv, Next, ~ NoBlueprint, ~ invalidate_blueprint,
         inbox' # "consumed" \/ pc' = "wait"
  PROVE  inbox # "consumed" \/ pc = "wait"
<1>1. Reboot => pc' = "start"
  BY DEF Reboot
<1>2. pc = "inbox" => inbox # "consumed"
  BY DEF TurnInv
<1>3. CASE Level \/ NoMigration \/ Info \/ Migrate \/ fallback_backup_kernel
           \/ UpgradeKernel
  BY <1>1, <1>2, <1>3
  DEF Level, NoMigration, Info, Migrate, fallback_backup_kernel, UpgradeKernel
<1>4. CASE pc = "inbox"
  BY <1>2, <1>4
<1>5. CASE StageTwo
  BY <1>1, <1>5
  DEF StageTwo, ResumeBlock, possible_sequencer_upgrade, invalidate_blueprint,
      StartBlock, ApplyTransaction, RetryTransaction, DiscardTransaction, revert_block,
      promote_block
<1> QED
  BY <1>3, <1>4, <1>5
  DEF Next, Run, StageTwo, force_kernel_upgrade, EndOfInbox, parse_chunk, DelayedInput,
      parse_new_chunk, SequencerBlueprint, DalSlotImportSignals, store_kernel_upgrade,
      store_sequencer_upgrade, Message

(* There is no other sequencer.                                            *)
LEMMA OneKey ==
  ASSUME Whole, Next, sequencer_upgrade = None
  PROVE  sequencer_upgrade' = None
<1>1. 2 .. Len(Sequencers) = {}
  BY DEF Whole
<1> QED
  BY <1>1
  DEF Next, Run, Level, Migrate, fallback_backup_kernel, NoMigration, Info, parse_chunk,
      force_kernel_upgrade, EndOfInbox, DelayedInput, parse_new_chunk,
      SequencerBlueprint, DalSlotImportSignals, store_kernel_upgrade, ResumeBlock,
      possible_sequencer_upgrade, NoBlueprint, invalidate_blueprint, UpgradeKernel,
      StartBlock, ApplyTransaction, RetryTransaction, DiscardTransaction, revert_block,
      promote_block

(* Forcing the delayed inbox: one blueprint per batch, after the head.     *)
LEMMA ForcingStamps ==
  ASSUME Inv, NoForced, ForcedStep, NoBlockStep, NEW n \in Numbers
  PROVE  /\ ForcedAt(n)' <=> n - Len(chain) \in Batches
         /\ ForcedAt(n)' => /\ ForcedStamp(n)' = ForcedTimestamp
                            /\ ForcedTxs(n)' =
                                 ToSet(ForcedBlueprint(n - Len(chain)).transactions)
<1> DEFINE k == n - Len(chain)
<1>1. fetch_delayed_transactions /\ Next_number' = Next_number /\ TypeOK
  BY DEF ForcedStep, EndOfInbox, NoBlockStep, Next_number, chain, Inv
<1>2. CASE k \in Batches
  <2> DEFINE fb == ForcedBlueprint(k)
  <2>1. /\ blueprints'[n] # None /\ n >= Next_number
        /\ blueprints'[n].chunks[0] = [blueprint |-> fb, of |-> 1, forced |-> TRUE]
    BY <1>1, <1>2, Forcing
  <2>2. fb.timestamp = ForcedTimestamp
    BY DEF ForcedBlueprint
  <2>3. fb \in Blueprint
    BY <1>1, <1>2, ForcedIsBlueprint
  <2> HIDE DEF fb
  <2> DEFINE c == [blueprint |-> fb, of |-> 1, forced |-> TRUE]
  <2>4. c \in Chunk /\ c.forced /\ c.blueprint = fb
    BY <2>3, ChunkingAssumption DEF Chunk
  <2> HIDE DEF c
  <2>5. blueprints'[n].chunks[0] = c /\ c # None
    BY <2>1, <2>4, NoneAssumption DEF c
  <2>6. ForcedAt(n)' /\ ForcedStamp(n)' = fb.timestamp
        /\ ForcedTxs(n)' = ToSet(fb.transactions)
    BY <1>1, <2>1, <2>4, <2>5 DEF ForcedAt, IsForced, ForcedStamp, ForcedTxs
  <2> QED  BY <1>2, <2>2, <2>6 DEF fb
<1>3. CASE k \notin Batches
  <2>1. blueprints'[n] = blueprints[n]
    BY <1>1, <1>3, Forcing
  <2>2. ~ ForcedAt(n)
    BY DEF NoForced
  <2>3. ~ ForcedAt(n)'
    BY <1>1, <2>1, <2>2 DEF ForcedAt, IsForced
  <2> QED  BY <1>3, <2>3
<1> QED  BY <1>2, <1>3

(* An earlier batch is a batch.                                            *)
LEMMA BatchesAreFirst ==
  ASSUME TypeOK, NEW k \in Batches, NEW j \in Nat, 1 <= j, j <= k
  PROVE  j \in Batches
<1>1. /\ k \in 1 .. Len(delayed_inbox) /\ Len(delayed_inbox) \in Nat
      /\ (k - 1) * MaxForced < Len(delayed_inbox)
  BY DEF TypeOK, Batches
<1>2. (j - 1) * MaxForced <= (k - 1) * MaxForced /\ (j - 1) * MaxForced \in Nat
      /\ (k - 1) * MaxForced \in Nat
  <2>1. j - 1 \in Nat /\ k - 1 \in Nat /\ j - 1 <= k - 1 /\ MaxForced \in Nat
    BY <1>1, ForcedAssumption
  <2> QED  BY <2>1, Monotone
<1> DEFINE x == (j - 1) * MaxForced
           y == (k - 1) * MaxForced
<1>3. x < Len(delayed_inbox)
  <2>1. x \in Nat /\ y \in Nat /\ x <= y /\ y < Len(delayed_inbox)
    BY <1>1, <1>2
  <2> HIDE DEF x, y
  <2> QED  BY <1>1, <2>1
<1> QED  BY <1>1, <1>3 DEF Batches

\* The parts of ForcedInv.
Contiguous ==
  \A m, n \in Numbers : ForcedAt(m) /\ Next_number <= n /\ n <= m => ForcedAt(n)

Stamps ==
  /\ \A m, n \in Numbers : ForcedAt(m) /\ ForcedAt(n) => ForcedStamp(m) = ForcedStamp(n)
  /\ \A n \in Numbers : ForcedAt(n) => ForcedStamp(n) >= HeadTimestamp(chain)

BlocksForced ==
  \A b \in InProgress :
    /\ b.timestamp >= HeadTimestamp(chain)
    /\ b.by = None => ForcedAt(b.number) /\ b.timestamp = ForcedStamp(b.number)
    /\ b.by # None => ~ ForcedAt(b.number)

(* ForcedInv and its parts.                                                *)
LEMMA ForcedParts ==
  ForcedInv <=> /\ sequencer_upgrade = None
                /\ Contiguous /\ Stamps /\ BlocksForced
                /\ inbox # "consumed" \/ pc = "wait" => NoForced
BY DEF ForcedInv, Contiguous, Stamps, BlocksForced, NoForced

(* The timestamps of blocks.                                               *)
LEMMA Stamp ==
  ASSUME Inv
  PROVE  /\ chain \in Seq(Block) /\ HeadTimestamp(chain) \in Nat
         /\ ForcedTimestamp \in Nat /\ ForcedTimestamp >= HeadTimestamp(chain)
<1>1. chain \in Seq(Block)
  BY DEF Inv, TypeOK, World, chain
<1>2. HeadTimestamp(chain) \in Nat
  <2>1. CASE chain = << >>
    BY <2>1 DEF HeadTimestamp
  <2>2. CASE chain # << >>
    <3>1. chain[Len(chain)] \in Block
      BY <1>1, <2>2
    <3> QED  BY <2>2, <3>1 DEF HeadTimestamp, Block
  <2> QED  BY <2>1, <2>2
<1>3. current_timestamp \in Nat
  BY Now DEF Inv
<1> QED  BY <1>1, <1>2, <1>3 DEF ForcedTimestamp

(* Forced blueprints take the numbers after the head, with its timestamp   *)
(* or a later one.                                                         *)
LEMMA ForcingInv ==
  ASSUME Inv, NoForced, ForcedStep, NoBlockStep
  PROVE  Contiguous' /\ Stamps'
<1>1. \A n \in Numbers : /\ ForcedAt(n)' <=> n - Len(chain) \in Batches
                         /\ ForcedAt(n)' => ForcedStamp(n)' = ForcedTimestamp
  BY ForcingStamps
<1>2. Next_number' = Next_number /\ HeadTimestamp(chain)' = HeadTimestamp(chain)
  BY DEF NoBlockStep, Next_number, chain, HeadTimestamp
<1>3. Stamps'
  BY <1>1, <1>2, Stamp DEF Stamps
<1>4. ASSUME NEW m \in Numbers, NEW n \in Numbers, ForcedAt(m)', Next_number' <= n, n <= m
      PROVE  ForcedAt(n)'
  <2>1. Len(chain) \in Nat /\ m \in Nat /\ n \in Nat /\ Next_number = Len(chain) + 1
    BY NumbersAre, Stamp DEF Next_number
  <2> DEFINE k == m - Len(chain)
             j == n - Len(chain)
  <2>2. k \in Batches /\ j \in Nat /\ 1 <= j /\ j <= k
    BY <1>1, <1>2, <1>4, <2>1
  <2> HIDE DEF k, j
  <2>3. j \in Batches
    BY <2>2, BatchesAreFirst DEF Inv
  <2> QED  BY <1>1, <2>3 DEF j
<1>5. Contiguous'
  BY <1>4 DEF Contiguous
<1> QED  BY <1>3, <1>5

(* The block that starts is not older than the head.                       *)
LEMMA StartForced ==
  ASSUME Inv, Stamps, StartBlock, InProgress' = {bip'}
  PROVE  BlocksForced'
<1> DEFINE p == NextBlueprint.blueprint
           b == blueprints[Next_number]
<1>1. /\ b \in Stored /\ b.chunks[0] \in Chunk
      /\ p = b.chunks[0].blueprint /\ p \in Blueprint
      /\ \/ IsForced(b) /\ p.by = None
         \/ /\ ~ IsForced(b) /\ p.by = sequencer
            /\ HeaderIsValid(p, chain, current_timestamp + Lookahead)
  BY ReadNext DEF StartBlock, Inv
<1>2. /\ bip' = [number |-> Next_number, parent_hash |-> p.parent_hash,
                 queue |-> p.transactions, done |-> << >>,
                 timestamp |-> p.timestamp, by |-> p.by]
      /\ UNCHANGED <<blueprints, world>>
  BY DEF StartBlock
<1>3. /\ HeadTimestamp(chain)' = HeadTimestamp(chain) /\ Next_number' = Next_number
  BY <1>2, SameForced
<1>4. /\ sequencer # None /\ b # None /\ Next_number \in Numbers /\ Next_number \in Nat
  BY <1>1, NoneAssumption, NumbersAre DEF Inv, TypeOK
<1>5. /\ ForcedAt(Next_number) <=> IsForced(b)
      /\ ForcedStamp(Next_number) = p.timestamp
  BY <1>1, <1>4 DEF ForcedAt, ForcedStamp
<1>6. p.timestamp >= HeadTimestamp(chain)
  BY <1>1, <1>4, <1>5 DEF HeaderIsValid, Stamps
<1>7. bip'.number = Next_number /\ bip'.timestamp = p.timestamp /\ bip'.by = p.by
  BY <1>2
<1>8. blueprints' = blueprints
  BY <1>2
<1> HIDE DEF p
<1>9. (bip.timestamp >= HeadTimestamp(chain))'
  BY <1>3, <1>6, <1>7
<1>10. (bip.by = None => ForcedAt(bip.number) /\ bip.timestamp = ForcedStamp(bip.number))'
  BY <1>1, <1>3, <1>4, <1>5, <1>7, <1>8 DEF ForcedAt, IsForced, ForcedStamp
<1>11. (bip.by # None => ~ ForcedAt(bip.number))'
  BY <1>1, <1>3, <1>4, <1>5, <1>7, <1>8 DEF ForcedAt, IsForced
<1> QED  BY <1>9, <1>10, <1>11 DEF BlocksForced

(* A promotion takes the first forced blueprint, if any.                   *)
LEMMA PromotingForced ==
  ASSUME Inv, Contiguous, Stamps, BlocksForced, promote_block
  PROVE  /\ Contiguous' /\ Stamps'
         /\ HeadTimestamp(chain)' = bip.timestamp
         /\ \A n \in Numbers : ForcedAt(n)' <=> ForcedAt(n) /\ n # Next_number
<1> DEFINE N == Next_number
           new == [transactions |-> bip.done, timestamp |-> bip.timestamp, by |-> bip.by]
<1>1. /\ bip \in InProgress /\ bip.number = N /\ N \in Numbers /\ N \in Nat
      /\ chain \in Seq(Block) /\ chain' = Append(chain, new) /\ Next_number' = N + 1
      /\ \A n \in Numbers : /\ n # N => blueprints'[n] = blueprints[n]
                            /\ blueprints'[n] # None => blueprints'[n] = blueprints[n]
  BY Promoting, NumbersAre
<1>2. HeadTimestamp(chain)' = bip.timestamp
  <2>1. new.timestamp = bip.timestamp
    OBVIOUS
  <2> HIDE DEF new
  <2>2. chain' # << >> /\ Len(chain') = Len(chain) + 1 /\ chain'[Len(chain) + 1] = new
    BY <1>1
  <2> QED  BY <2>1, <2>2 DEF HeadTimestamp
<1> HIDE DEF new
<1>3. ASSUME NEW n \in Numbers
      PROVE  ForcedAt(n)' <=> ForcedAt(n) /\ n # N
  <2>1. n \in Nat
    BY NumbersAre
  <2>2. CASE n = N
    BY <1>1, <2>1, <2>2 DEF ForcedAt
  <2>3. CASE n # N
    <3>1. blueprints'[n] = blueprints[n] /\ (n >= Next_number' <=> n >= N)
      BY <1>1, <2>1, <2>3
    <3> QED  BY <2>3, <3>1 DEF ForcedAt, IsForced
  <2> QED  BY <2>2, <2>3
<1>4. ASSUME NEW n \in Numbers, ForcedAt(n)'
      PROVE  ForcedStamp(n)' = ForcedStamp(n)
  <2>1. blueprints'[n] = blueprints[n]
    BY <1>1, <1>3, <1>4
  <2> QED  BY <2>1 DEF ForcedStamp
<1>5. ASSUME NEW m \in Numbers, NEW n \in Numbers, ForcedAt(m)', Next_number' <= n, n <= m
      PROVE  ForcedAt(n)'
  <2>1. n \in Nat /\ N <= n /\ n # N
    BY <1>1, <1>5, NumbersAre
  <2> QED  BY <1>3, <1>5, <2>1 DEF Contiguous
<1>6. ASSUME NEW n \in Numbers, ForcedAt(n)'
      PROVE  ForcedStamp(n)' >= HeadTimestamp(chain)'
  <2>1. ForcedAt(n) /\ n # N
    BY <1>3, <1>6
  <2>2. n >= N /\ n \in Nat
    BY <2>1, NumbersAre DEF ForcedAt
  <2>3. ForcedAt(N)
    <3>1. N <= N /\ N <= n
      BY <1>1, <2>2
    <3> QED  BY <1>1, <2>1, <3>1 DEF Contiguous
  <2>4. bip.timestamp = ForcedStamp(N)
    BY <1>1, <2>3 DEF BlocksForced
  <2>5. ForcedStamp(N) = ForcedStamp(n)
    BY <1>1, <2>1, <2>3 DEF Stamps
  <2>6. bip.timestamp \in Nat
    BY Promoting DEF BlockInProgress
  <2> QED  BY <1>2, <1>4, <1>6, <2>4, <2>5, <2>6
<1>7. Stamps'
  BY <1>3, <1>4, <1>6 DEF Stamps
<1>8. Contiguous'
  BY <1>5 DEF Contiguous
<1> QED  BY <1>2, <1>3, <1>7, <1>8

(* Only these steps change blueprints, when blocks do not fail.            *)
LEMMA SameBlueprints ==
  ASSUME Whole, Inv, sequencer_upgrade = None, Next, ~ SequencerStep, ~ ForcedStep,
         ~ promote_block, ~ invalidate_blueprint
  PROVE  UNCHANGED <<blueprints, world>>
<1>1. CASE StageTwo
  BY <1>1
  DEF StageTwo, ResumeBlock, possible_sequencer_upgrade, StartBlock, ApplyTransaction,
      RetryTransaction, DiscardTransaction, revert_block, Whole
<1> QED  BY <1>1, Kinds DEF NoBlockStep

(* Forced blueprints stay in order, and are not older than the head.       *)
LEMMA ForcedInvStep ==
  ASSUME Whole, Inv, TurnInv, OnceInv, ForcedInv, Next
  PROVE  ForcedInv'
<1>1. /\ sequencer_upgrade = None /\ Contiguous /\ Stamps /\ BlocksForced /\ ChunksOnce
      /\ inbox # "consumed" \/ pc = "wait" => NoForced
  BY ForcedParts, OnceParts
<1>2. sequencer_upgrade' = None
  BY <1>1, OneKey
<1>3. (/\ sequencer_upgrade = None /\ Contiguous /\ Stamps /\ BlocksForced
       /\ inbox # "consumed" \/ pc = "wait" => NoForced)' => ForcedInv'
  BY DEF ForcedInv, Contiguous, Stamps, BlocksForced, NoForced
<1>4. ASSUME NoForced, NoNewForced, InProgress' = {}  PROVE  ForcedInv'
  <2>1. NoForced'
    BY <1>4 DEF NoForced, NoNewForced
  <2>2. Contiguous' /\ Stamps' /\ BlocksForced'
    BY <1>4, <2>1 DEF NoForced, Contiguous, Stamps, BlocksForced
  <2> QED  BY <1>2, <1>3, <2>1, <2>2
<1>5. ASSUME pc = "inbox"  PROVE  NoForced /\ InProgress' = {}
  <2>1. NoForced
    BY <1>1, <1>5 DEF TurnInv
  <2>2. InProgress = {} /\ ~ StartBlock
    BY <1>5, Idle DEF StartBlock
  <2> QED  BY <2>1, <2>2, ProgressStep
<1>6. CASE SequencerStep
  <2>1. pc = "inbox"
    BY <1>6 DEF SequencerStep, SequencerBlueprint, DalSlotImportSignals, Message
  <2>2. NoBlockStep
    BY <1>6, <2>1, Kinds
    DEF StageTwo, ResumeBlock, possible_sequencer_upgrade, invalidate_blueprint,
        StartBlock, ApplyTransaction, RetryTransaction, DiscardTransaction, revert_block,
        promote_block
  <2> QED  BY <1>1, <1>4, <1>5, <1>6, <2>1, <2>2, ProposedOnce
<1>7. CASE ForcedStep
  <2>1. pc = "inbox" /\ pc' = "start" /\ inbox' = "consumed" /\ NoBlockStep
    BY <1>7 DEF ForcedStep, EndOfInbox, Reboot, NoBlockStep, Whole, Inv, TypeOK
  <2>2. Contiguous' /\ Stamps'
    BY <1>5, <1>7, <2>1, ForcingInv
  <2>3. BlocksForced'
    BY <1>5, <2>1 DEF BlocksForced
  <2> QED  BY <1>2, <1>3, <2>1, <2>2, <2>3
<1>8. CASE promote_block
  <2>1. Contiguous' /\ Stamps'
    BY <1>1, <1>8, PromotingForced
  <2>2. BlocksForced'
    BY <1>8, Promoting DEF BlocksForced
  <2>3. pc' # "wait" /\ inbox' = "consumed"
    BY <1>8 DEF promote_block, TurnInv
  <2> QED  BY <1>2, <1>3, <2>1, <2>2, <2>3
<1>9. CASE invalidate_blueprint
  <2>1. NoForced
    BY <1>9, NothingForced
  <2>2. NoNewForced
    BY <1>1, <1>9, StageTwoDrops, DroppingOnce DEF StageTwo, invalidate_blueprint, chain
  <2>3. InProgress = {} /\ ~ StartBlock
    BY <1>9 DEF invalidate_blueprint, StartBlock, InProgress, Inv, TypeOK, BlockInv
  <2>4. InProgress' = {}
    BY <2>3, ProgressStep
  <2> QED  BY <1>4, <2>1, <2>2, <2>4
<1>10. CASE ~ SequencerStep /\ ~ ForcedStep /\ ~ promote_block /\ ~ invalidate_blueprint
  <2>1. UNCHANGED <<blueprints, world>>
    BY <1>1, <1>10, SameBlueprints
  <2>2. /\ Next_number' = Next_number /\ HeadTimestamp(chain)' = HeadTimestamp(chain)
        /\ \A n : ForcedAt(n)' <=> ForcedAt(n)
        /\ \A n : ForcedStamp(n)' = ForcedStamp(n)
    BY <2>1, SameForced
  <2>3. Contiguous' /\ Stamps'
    BY <1>1, <2>2 DEF Contiguous, Stamps
  <2>4. BlocksForced'
    <3>1. CASE StartBlock /\ InProgress' = {bip'}
      BY <1>1, <3>1, StartForced
    <3>2. CASE \A b \in InProgress' : \E a \in InProgress : Follows(b, a)
      <4> SUFFICES ASSUME NEW b \in InProgress'
                   PROVE  /\ b.timestamp >= HeadTimestamp(chain)'
                          /\ b.by = None => /\ ForcedAt(b.number)'
                                            /\ b.timestamp = ForcedStamp(b.number)'
                          /\ b.by # None => ~ ForcedAt(b.number)'
        BY DEF BlocksForced
      <4>1. PICK a \in InProgress : Follows(b, a)
        BY <3>2
      <4>2. b.number = a.number /\ b.by = a.by /\ b.timestamp = a.timestamp
        BY <4>1 DEF Follows
      <4> QED  BY <1>1, <2>2, <4>2 DEF BlocksForced
    <3> QED  BY <3>1, <3>2, ProgressStep
  <2>5. (inbox # "consumed" \/ pc = "wait" => NoForced)'
    <3>1. NoForced => NoForced'
      BY <2>2 DEF NoForced
    <3>2. NoBlueprint => NoForced
      BY NothingForced
    <3> QED  BY <1>1, <1>10, <3>1, <3>2, TurnsKeep DEF Whole
  <2> QED  BY <1>2, <1>3, <2>3, <2>4, <2>5
<1> QED  BY <1>6, <1>7, <1>8, <1>9, <1>10

(* A block is added after the head with its timestamp or a later one.      *)
LEMMA TimestampStep ==
  ASSUME Inv, ForcedInv, TimestampsIncrease, [Next]_vars
  PROVE  TimestampsIncrease'
<1>1. CASE chain' = chain
  BY <1>1 DEF TimestampsIncrease
<1>2. CASE chain' # chain
  <2> DEFINE new == [transactions |-> bip.done, timestamp |-> bip.timestamp, by |-> bip.by]
             n == Len(chain)
  <2>1. promote_block
    BY <1>2, OnlyPromotion
  <2>2. chain \in Seq(Block) /\ chain' = Append(chain, new) /\ bip \in InProgress
    BY <2>1, Promoting
  <2>3. new.timestamp = bip.timestamp /\ bip.timestamp >= HeadTimestamp(chain)
    BY <2>2, ForcedParts DEF BlocksForced
  <2> HIDE DEF new
  <2>4. /\ n \in Nat /\ Len(chain') = n + 1 /\ chain'[n + 1] = new
        /\ \A i \in 1 .. n : chain'[i] = chain[i]
    BY <2>2
  <2>5. ASSUME NEW i \in 1 .. Len(chain') - 1
        PROVE  chain'[i].timestamp <= chain'[i + 1].timestamp
    <3>1. i \in 1 .. n
      BY <2>4
    <3>2. CASE i = n
      <4>1. HeadTimestamp(chain) = chain[n].timestamp /\ chain'[i] = chain[n]
        BY <2>2, <2>4, <3>1, <3>2 DEF HeadTimestamp
      <4>2. HeadTimestamp(chain) \in Nat /\ bip.timestamp \in Nat
        BY <2>1, Stamp, Promoting DEF BlockInProgress
      <4> QED  BY <2>3, <2>4, <3>2, <4>1, <4>2
    <3>3. CASE i # n
      <4>1. i \in 1 .. n - 1 /\ i + 1 \in 1 .. n
        BY <2>4, <3>1, <3>3
      <4> QED  BY <2>4, <3>1, <4>1 DEF TimestampsIncrease
    <3> QED  BY <3>2, <3>3
  <2> QED  BY <2>5 DEF TimestampsIncrease
<1> QED  BY <1>1, <1>2

(***************************************************************************)
(* Transactions that have timed out                                        *)
(***************************************************************************)

(* The items of the delayed inbox.                                         *)
LEMMA Items ==
  ASSUME TypeOK
  PROVE  /\ Len(delayed_inbox) \in Nat /\ DOMAIN delayed_inbox = 1 .. Len(delayed_inbox)
         /\ \A i \in DOMAIN delayed_inbox :
              delayed_inbox[i].timestamp \in Nat /\ delayed_inbox[i].level \in Nat
<1>1. delayed_inbox \in Seq(Item)
  BY DEF TypeOK
<1>2. \A i \in DOMAIN delayed_inbox : delayed_inbox[i] \in Item
  BY <1>1
<1>3. \A x \in Item : x.timestamp \in Nat /\ x.level \in Nat
  BY BoundsAssumption DEF Item
<1> QED  BY <1>1, <1>2, <1>3

(* Time passes.                                                            *)
LEMMA OrderTime ==
  ASSUME Inv, OrderInv, UNCHANGED delayed_inbox, l1_level' \in l1_level .. MaxLevel,
         inbox' # "consumed"
  PROVE  OrderInv'
<1>1. l1_level \in 0 .. MaxLevel /\ MaxLevel \in Nat
  BY Now, BoundsAssumption DEF Inv
<1>2. /\ current_timestamp \in Nat /\ current_timestamp' \in Nat
      /\ current_timestamp <= current_timestamp' /\ l1_level <= l1_level'
      /\ l1_level' \in Nat
  BY <1>1, TimeAssumption DEF current_timestamp
<1>3. \A i \in DOMAIN delayed_inbox :
        /\ delayed_inbox[i].timestamp <= current_timestamp'
        /\ delayed_inbox[i].level <= l1_level'
  BY <1>1, <1>2, Items DEF OrderInv, Inv
<1> QED  BY <1>3 DEF OrderInv

(* A transaction is pushed to the end of the delayed inbox.                *)
LEMMA OrderSaving ==
  ASSUME Inv, OrderInv, inbox' # "consumed", l1_level' = l1_level,
         NEW tx \in Delayed, save_transaction(tx)
  PROVE  OrderInv'
<1> DEFINE item == [hash |-> tx, timestamp |-> current_timestamp, level |-> l1_level]
           n == Len(delayed_inbox)
<1>1. \/ delayed_inbox' = delayed_inbox
      \/ delayed_inbox' = Append(delayed_inbox, item)
  BY DEF save_transaction
<1>2. /\ current_timestamp' = current_timestamp /\ current_timestamp \in Nat
      /\ l1_level \in Nat
  BY Now, BoundsAssumption DEF Inv, current_timestamp
<1>3. CASE delayed_inbox' = delayed_inbox
  BY <1>2, <1>3 DEF OrderInv
<1>4. CASE delayed_inbox' = Append(delayed_inbox, item)
  <2>1. item.timestamp = current_timestamp /\ item.level = l1_level
    OBVIOUS
  <2> HIDE DEF item
  <2>2. /\ n \in Nat /\ DOMAIN delayed_inbox = 1 .. n /\ DOMAIN delayed_inbox' = 1 .. n + 1
        /\ \A i \in 1 .. n : delayed_inbox'[i] = delayed_inbox[i]
        /\ delayed_inbox'[n + 1] = item
    <3>1. delayed_inbox \in Seq(Item)
      BY DEF Inv, TypeOK
    <3> QED  BY <1>4, <3>1
  <2> HIDE DEF n
  <2>3. ASSUME NEW i \in DOMAIN delayed_inbox'
        PROVE  /\ delayed_inbox'[i].timestamp <= current_timestamp'
               /\ delayed_inbox'[i].level <= l1_level'
    BY <1>2, <2>1, <2>2 DEF OrderInv
  <2>4. ASSUME NEW i \in DOMAIN delayed_inbox', NEW j \in DOMAIN delayed_inbox', i < j
        PROVE  /\ delayed_inbox'[i].timestamp <= delayed_inbox'[j].timestamp
               /\ delayed_inbox'[i].level <= delayed_inbox'[j].level
    <3>1. CASE j = n + 1
      BY <1>2, <2>1, <2>2, <2>3, <3>1
    <3>2. CASE j # n + 1
      <4>1. i \in 1 .. n /\ j \in 1 .. n
        BY <2>2, <2>4, <3>2
      <4> QED  BY <2>2, <2>4, <4>1 DEF OrderInv
    <3> QED  BY <3>1, <3>2
  <2> QED  BY <2>3, <2>4 DEF OrderInv
<1> QED  BY <1>1, <1>3, <1>4

(* Transactions are taken out of the delayed inbox.                        *)
LEMMA OrderCleaning ==
  ASSUME Inv, OrderInv, UNCHANGED <<inbox, l1_level>>,
         NEW done, delayed_inbox' = Without(delayed_inbox, done)
  PROVE  OrderInv'
<1> DEFINE w == delayed_inbox'
           n == Len(delayed_inbox)
<1>1. delayed_inbox \in Seq(Item)
  BY DEF Inv, TypeOK
<1>2. w \in Seq(Item) /\ Selects(w, n, delayed_inbox, done)
  BY <1>1, WithoutSelects
<1>3. PICK m \in [1 .. Len(w) -> 1 .. n] :
        /\ \A j, k \in 1 .. Len(w) : j < k => m[j] < m[k]
        /\ \A k \in 1 .. Len(w) : w[k] = delayed_inbox[m[k]]
  BY <1>2 DEF Selects
<1>4. DOMAIN w = 1 .. Len(w) /\ DOMAIN delayed_inbox = 1 .. n
  BY <1>1, <1>2
<1>5. \A k \in DOMAIN w : m[k] \in DOMAIN delayed_inbox /\ w[k] = delayed_inbox[m[k]]
  BY <1>3, <1>4
<1>6. \A j, k \in DOMAIN w : j < k => m[j] < m[k]
  BY <1>3, <1>4
<1>7. current_timestamp' = current_timestamp
  BY DEF current_timestamp
<1> HIDE DEF w
<1>8. ASSUME NEW i \in DOMAIN w
      PROVE  /\ w[i].timestamp <= current_timestamp'
             /\ w[i].level <= l1_level'
             /\ inbox' = "consumed" => Waits(delayed_inbox[i])'
  <2>1. /\ delayed_inbox[m[i]].timestamp <= current_timestamp
        /\ delayed_inbox[m[i]].level <= l1_level
        /\ inbox = "consumed" => Waits(delayed_inbox[m[i]])
    BY <1>5 DEF OrderInv
  <2>2. delayed_inbox'[i] = delayed_inbox[m[i]] /\ l1_level' = l1_level /\ inbox' = inbox
    BY <1>5 DEF w
  <2> QED  BY <1>5, <1>7, <2>1, <2>2 DEF Waits
<1>9. ASSUME NEW i \in DOMAIN w, NEW j \in DOMAIN w, i < j
      PROVE  /\ w[i].timestamp <= w[j].timestamp
             /\ w[i].level <= w[j].level
  <2>1. m[i] < m[j]
    BY <1>6, <1>9
  <2> QED  BY <1>5, <2>1 DEF OrderInv
<1> QED  BY <1>8, <1>9 DEF w, OrderInv

(* The first transaction is the oldest: if it waits, all do.               *)
LEMMA OrderEnd ==
  ASSUME Inv, OrderInv, ~ first_has_timed_out, UNCHANGED <<delayed_inbox, l1_level>>
  PROVE  OrderInv'
<1>1. /\ current_timestamp' = current_timestamp /\ current_timestamp \in Nat
      /\ l1_level \in Nat
  BY Now, BoundsAssumption DEF Inv, current_timestamp
<1>2. ASSUME NEW i \in DOMAIN delayed_inbox  PROVE  Waits(delayed_inbox[i])
  <2> DEFINE h == delayed_inbox[1]
             x == delayed_inbox[i]
  <2>1. /\ i \in Nat /\ 1 <= i /\ 1 \in DOMAIN delayed_inbox /\ delayed_inbox # << >>
        /\ h = Head(delayed_inbox)
    <3>1. delayed_inbox \in Seq(Item)
      BY DEF Inv, TypeOK
    <3> QED  BY <3>1
  <2>2. h.timestamp <= x.timestamp /\ h.level <= x.level
    <3>1. CASE i = 1
      BY <2>1, <3>1, Items DEF Inv
    <3>2. CASE i # 1
      BY <2>1, <3>2 DEF OrderInv
    <3> QED  BY <3>1, <3>2
  <2>3. /\ h.timestamp \in Nat /\ h.level \in Nat /\ x.timestamp \in Nat /\ x.level \in Nat
    BY <2>1, Items DEF Inv
  <2>4. Waits(h)
    BY <1>1, <2>1, <2>3, TimeAssumption DEF first_has_timed_out, Waits
  <2> HIDE DEF h, x
  <2>5. Waits(x)
    BY <1>1, <2>2, <2>3, <2>4, TimeAssumption DEF Waits
  <2> QED  BY <2>5 DEF x
<1>3. \A i \in DOMAIN delayed_inbox : Waits(delayed_inbox[i])'
  BY <1>1, <1>2 DEF Waits
<1> QED  BY <1>1, <1>3 DEF OrderInv

(* The delayed inbox stays in order.                                       *)
LEMMA OrderStep ==
  ASSUME Inv, OrderInv, Next
  PROVE  OrderInv'
<1>0. /\ l1_level \in l1_level .. MaxLevel /\ level \in l1_level .. MaxLevel
  BY Now, BoundsAssumption DEF Inv, TypeOK
<1>1. CASE UNCHANGED <<delayed_inbox, l1_level, inbox>>
  <2>1. current_timestamp' = current_timestamp
    BY <1>1 DEF current_timestamp
  <2> QED  BY <1>1, <2>1 DEF OrderInv, Waits
<1>2. CASE Level \/ Info
  BY <1>0, <1>2, OrderTime DEF Level, Info
<1>3. CASE EndOfInbox
  <2>1. CASE first_has_timed_out
    BY <1>3, <2>1 DEF EndOfInbox, fetch_delayed_transactions, OrderInv
  <2>2. CASE ~ first_has_timed_out
    BY <1>3, <2>2, OrderEnd DEF EndOfInbox
  <2> QED  BY <2>1, <2>2
<1>4. CASE \E tx \in Delayed : DelayedInput(tx)
  BY <1>4, OrderSaving DEF DelayedInput, Message
<1>5. CASE parse_chunk
  <2>1. CASE buffer # None /\ buffer.left = 1
    <3>1. buffer.tx \in Delayed
      BY <2>1 DEF Inv, TypeOK, Transfer
    <3> QED  BY <1>5, <2>1, <3>1, OrderSaving DEF parse_chunk
  <2>2. CASE ~ (buffer # None /\ buffer.left = 1)
    BY <1>1, <1>5, <2>2 DEF parse_chunk
  <2> QED  BY <2>1, <2>2
<1>6. CASE promote_block
  BY <1>6, OrderCleaning DEF promote_block, clean_delayed_transactions
<1>7. CASE Migrate \/ fallback_backup_kernel \/ NoMigration \/ NoBlueprint \/ UpgradeKernel
  BY <1>1, <1>7
  DEF Migrate, fallback_backup_kernel, NoMigration, NoBlueprint, UpgradeKernel
<1>8. CASE force_kernel_upgrade \/ \E d \in Delays :
             \/ store_kernel_upgrade(d)
             \/ \E i \in 2 .. Len(Sequencers) : store_sequencer_upgrade(Sequencers[i], d)
  BY <1>1, <1>8
  DEF force_kernel_upgrade, store_kernel_upgrade, store_sequencer_upgrade, Message
<1>9. CASE SequencerStep \/ \E tx \in Delayed : parse_new_chunk(tx)
  BY <1>1, <1>9
  DEF SequencerStep, SequencerBlueprint, DalSlotImportSignals, parse_new_chunk, Message
<1>10. CASE StageTwo /\ ~ promote_block
  BY <1>1, <1>10
  DEF StageTwo, ResumeBlock, possible_sequencer_upgrade, invalidate_blueprint,
      StartBlock, ApplyTransaction, RetryTransaction, DiscardTransaction, revert_block
<1> QED
  BY <1>2, <1>3, <1>4, <1>5, <1>6, <1>7, <1>8, <1>9, <1>10
  DEF Next, Run, StageTwo, SequencerStep

(***************************************************************************)
(* No delayed transaction is lost                                          *)
(***************************************************************************)

\* Nothing of a delayed transaction is lost in a run of stage one or by the
\* execution of its block.
Careful ==
  /\ InboxMayReboot => "chunked" \notin Inputs
  /\ TooLarge \intersect Delayed = {}

\* No chunk of a transaction that is being sent is lost.
SendingInv ==
  /\ sending # None => buffer = sending
  /\ InboxMayReboot => sending = None

\* A forced block is the whole of its blueprint.
WorkInv ==
  \A b \in InProgress : b.by = None =>
    Work(b) = blueprints[b.number].chunks[0].blueprint.transactions

(* The chunks of a transaction are read in one run.                        *)
LEMMA SendingStep ==
  ASSUME Careful, Inv, SendingInv, Next
  PROVE  SendingInv'
<1>1. pc # "inbox" => sending = None
  BY DEF Inv, TransferInv, SendingInv
<1>2. CASE pc # "inbox"
  <2>1. sending' = sending \/ sending' = None
    BY <1>2
    DEF Next, Run, Level, Migrate, fallback_backup_kernel, NoMigration, Info, parse_chunk,
        force_kernel_upgrade, EndOfInbox, DelayedInput, parse_new_chunk, Message,
        SequencerBlueprint, DalSlotImportSignals, store_kernel_upgrade,
        store_sequencer_upgrade, ResumeBlock, possible_sequencer_upgrade, NoBlueprint,
        invalidate_blueprint, UpgradeKernel, upgrade, StartBlock, ApplyTransaction,
        RetryTransaction, DiscardTransaction, revert_block, promote_block
  <2> QED  BY <1>1, <1>2, <2>1 DEF SendingInv
<1>3. CASE pc = "inbox" /\ sending' = None
  BY <1>3 DEF SendingInv
<1>4. CASE \E tx \in Delayed : parse_new_chunk(tx)
  <2>1. ~ InboxMayReboot
    BY <1>4 DEF parse_new_chunk, Message, Careful
  <2> QED  BY <1>4, <2>1 DEF parse_new_chunk, Continue, SendingInv
<1>5. CASE parse_chunk
  <2>1. ~ InboxMayReboot /\ buffer = sending
    BY <1>5 DEF parse_chunk, SendingInv
  <2> QED  BY <1>5, <2>1 DEF parse_chunk, Continue, SendingInv
<1>6. CASE Info
  BY <1>6 DEF Info, SendingInv
<1>7. CASE Level \/ Migrate \/ fallback_backup_kernel \/ NoMigration \/ NoBlueprint
           \/ UpgradeKernel \/ StageTwo
  BY <1>2, <1>7
  DEF Level, Migrate, fallback_backup_kernel, NoMigration, NoBlueprint, UpgradeKernel,
      StageTwo, ResumeBlock, possible_sequencer_upgrade, invalidate_blueprint,
      StartBlock, ApplyTransaction, RetryTransaction, DiscardTransaction, revert_block,
      promote_block
<1>8. CASE \/ force_kernel_upgrade \/ EndOfInbox \/ SequencerStep
           \/ \E tx \in Delayed : DelayedInput(tx)
           \/ \E d \in Delays :
                \/ store_kernel_upgrade(d)
                \/ \E i \in 2 .. Len(Sequencers) :
                     store_sequencer_upgrade(Sequencers[i], d)
  <2>1. sending' = None
    BY <1>8
    DEF force_kernel_upgrade, EndOfInbox, SequencerStep, SequencerBlueprint,
        DalSlotImportSignals, DelayedInput, store_kernel_upgrade,
        store_sequencer_upgrade, Message
  <2> QED  BY <1>2, <1>3, <2>1
<1> QED
  BY <1>4, <1>5, <1>6, <1>7, <1>8 DEF Next, Run, StageTwo, SequencerStep

(* The next transaction of a block is one of its transactions.             *)
LEMMA HeadOfQueue ==
  ASSUME NEW s \in Seq(Transaction), NEW t \in Seq(Transaction), t # << >>,
         s \o t \in Seq(Delayed)
  PROVE  Head(t) \in Delayed
<1>1. Len(s) \in Nat /\ Len(t) \in Nat /\ Len(t) >= 1 /\ Head(t) = t[1]
  OBVIOUS
<1>2. Len(s \o t) = Len(s) + Len(t) /\ (s \o t)[Len(s) + 1] = t[1]
  BY <1>1
<1>3. Len(s) + 1 \in 1 .. Len(s \o t)
  BY <1>1, <1>2
<1>4. \A u \in Seq(Delayed) : \A i \in 1 .. Len(u) : u[i] \in Delayed
  OBVIOUS
<1> QED  BY <1>1, <1>2, <1>3, <1>4

(* A forced block executes all that its blueprint holds.                   *)
LEMMA WorkStep ==
  ASSUME Whole, Careful, Inv, TurnInv, OnceInv, ForcedInv, WorkInv, Next
  PROVE  WorkInv'
<1>1. BlocksForced /\ ChunksOnce /\ sequencer_upgrade = None
  BY ForcedParts, OnceParts
<1>2. ASSUME InProgress' = {}  PROVE  WorkInv'
  BY <1>2 DEF WorkInv
<1>3. CASE SequencerStep \/ ForcedStep
  <2>1. pc = "inbox"
    BY <1>3
    DEF SequencerStep, SequencerBlueprint, DalSlotImportSignals, Message, ForcedStep,
        EndOfInbox
  <2>2. InProgress = {} /\ ~ StartBlock
    BY <2>1, Idle DEF StartBlock
  <2> QED  BY <1>2, <2>2, ProgressStep
<1>4. CASE promote_block
  BY <1>2, <1>4, Promoting
<1>5. CASE invalidate_blueprint
  <2>1. InProgress = {} /\ ~ StartBlock
    BY <1>5 DEF invalidate_blueprint, StartBlock, InProgress, Inv, TypeOK, BlockInv
  <2> QED  BY <1>2, <2>1, ProgressStep
<1>6. CASE StartBlock /\ InProgress' = {bip'}
  <2> DEFINE p == NextBlueprint.blueprint
             N == Next_number
  <2>1. p = blueprints[N].chunks[0].blueprint /\ p.transactions \in Seq(Transaction)
    BY <1>6, ReadNext DEF StartBlock, Inv, Blueprint
  <2>2. /\ bip'.number = N /\ bip'.queue = p.transactions /\ bip'.done = << >>
        /\ blueprints' = blueprints
    BY <1>6 DEF StartBlock
  <2> HIDE DEF p, N
  <2>3. Work(bip') = p.transactions
    BY <2>1, <2>2, ConcatEmptySeq DEF Work
  <2>4. (Work(bip) = blueprints[bip.number].chunks[0].blueprint.transactions)'
    BY <2>1, <2>2, <2>3 DEF Work
  <2> QED  BY <1>6, <2>4 DEF WorkInv
<1>7. CASE /\ ~ SequencerStep /\ ~ ForcedStep /\ ~ promote_block /\ ~ invalidate_blueprint
           /\ \A b \in InProgress' : \E a \in InProgress : Follows(b, a)
  <2>1. blueprints' = blueprints
    BY <1>1, <1>7, SameBlueprints
  <2> SUFFICES ASSUME NEW b \in InProgress', b.by = None
               PROVE  Work(b) = blueprints'[b.number].chunks[0].blueprint.transactions
    BY DEF WorkInv, Work
  <2>2. PICK a \in InProgress : Follows(b, a)
    BY <1>7
  <2>3. b.number = a.number /\ a.by = None
    BY <2>2 DEF Follows
  <2>4. Work(a) = blueprints[a.number].chunks[0].blueprint.transactions
    BY <2>3 DEF WorkInv
  <2>5. CASE Work(b) = Work(a)
    BY <2>1, <2>3, <2>4, <2>5
  <2>6. CASE DiscardTransaction /\ a = bip
    <3> DEFINE s == bip.done
               t == bip.queue
    <3>1. bip \in BlockInProgress /\ bip.number = Next_number
      BY <2>6, Computing DEF DiscardTransaction
    <3>2. /\ t # << >> /\ Head(t) \in TooLarge
          /\ s \in Seq(Transaction) /\ t \in Seq(Transaction)
      BY <2>6, <3>1 DEF DiscardTransaction, BlockInProgress
    <3>3. s \o t \in Seq(Delayed)
      <4>1. ForcedAt(Next_number) /\ Next_number \in Numbers
        BY <2>3, <2>6, <3>1, <1>1 DEF BlocksForced, Inv, TypeOK
      <4>2. 0 \in Indices
        BY ChunkingAssumption DEF Indices
      <4>3. blueprints[Next_number].chunks[0].blueprint.transactions \in Seq(Delayed)
        BY <1>1, <4>1, <4>2 DEF ForcedAt, IsForced, ChunksOnce, ChunkOnce
      <4> QED  BY <2>4, <2>6, <3>1, <4>3 DEF Work
    <3> HIDE DEF s, t
    <3>4. Head(t) \in Delayed
      BY <3>2, <3>3, HeadOfQueue
    <3> QED  BY <3>2, <3>4 DEF Careful
  <2> QED  BY <2>2, <2>5, <2>6 DEF Follows
<1> QED  BY <1>3, <1>4, <1>5, <1>6, <1>7, ProgressStep

(* The transactions of forced blueprints.                                  *)
LEMMA ForcedIs ==
  \A tx : tx \in Forced <=> \E n \in Numbers : ForcedAt(n) /\ tx \in ForcedTxs(n)
BY DEF Forced, ForcedAt, ForcedTxs

(* And those of the next state.                                            *)
LEMMA ForcedIsNext ==
  ASSUME NEW n \in Numbers, ForcedAt(n)', NEW tx, tx \in ForcedTxs(n)'
  PROVE  tx \in Forced'
BY DEF Forced, ForcedAt, ForcedTxs

(* Every place of the delayed inbox is in a batch.                         *)
LEMMA EveryPlace ==
  ASSUME TypeOK, NEW p \in DOMAIN delayed_inbox
  PROVE  \E k \in Batches : delayed_inbox[p].hash \in ToSet(ForcedBlueprint(k).transactions)
<1> DEFINE M == MaxForced
           N == Len(delayed_inbox)
           T == {k \in Nat : p <= k * M}
<1>1. M \in Nat /\ M >= 1 /\ N \in Nat /\ p \in 1 .. N /\ DOMAIN delayed_inbox = 1 .. N
  BY ForcedAssumption, Items
<1>2. p \in T
  <2>1. 1 * p <= M * p
    BY <1>1, Monotone
  <2>2. M * p = p * M /\ 1 * p = p
    BY <1>1
  <2> QED  BY <1>1, <2>1, <2>2
<1>3. PICK k \in T : \A j \in T : ~ (j < k)
  BY <1>2, LeastNatural
<1>4. k \in Nat /\ p <= k * M
  BY <1>3
<1>5. k >= 1
  BY <1>1, <1>4
<1>6. (k - 1) * M \in Nat /\ k * M = (k - 1) * M + M /\ (k - 1) * M < p
  <2>1. k - 1 \in Nat /\ k - 1 < k
    BY <1>4, <1>5
  <2>2. k - 1 \notin T
    BY <1>3, <2>1
  <2>3. ~ (p <= (k - 1) * M) /\ (k - 1) * M \in Nat
    BY <1>1, <2>1, <2>2
  <2>4. k * M = (k - 1) * M + M
    BY <1>1, <1>4
  <2> DEFINE x == (k - 1) * M
  <2> HIDE DEF x
  <2>5. x < p
    BY <1>1, <2>3 DEF x
  <2> QED  BY <2>3, <2>4, <2>5 DEF x
<1> DEFINE q == (k - 1) * M
           i == p - q
<1>7. q \in Nat /\ q < p /\ p <= q + M
  BY <1>4, <1>6
<1>8. k <= N
  <2>1. (k - 1) * 1 <= (k - 1) * M
    <3>1. k - 1 \in Nat
      BY <1>4, <1>5
    <3>2. 1 * (k - 1) <= M * (k - 1)
      BY <1>1, <3>1, Monotone
    <3> QED  BY <1>1, <3>1, <3>2
  <2>2. k - 1 <= q
    BY <1>4, <2>1
  <2> HIDE DEF q
  <2> QED  BY <1>1, <1>4, <1>7, <2>2
<1>9. k \in Batches
  <2>1. q < N
    <3> HIDE DEF q
    <3> QED  BY <1>1, <1>7
  <2> QED  BY <1>1, <1>4, <1>5, <1>8, <2>1 DEF Batches
<1>10. Place(k, i) = p /\ i \in 1 .. M
  <2>1. Place(k, i) = q + i
    BY DEF Place
  <2> HIDE DEF q
  <2> QED  BY <1>1, <1>7, <2>1
<1> DEFINE t == ForcedBlueprint(k).transactions
<1> HIDE DEF i, q
<1>11. i \in DOMAIN t /\ t[i] = delayed_inbox[p].hash
  <2>1. /\ \A j \in DOMAIN t : t[j] = delayed_inbox[Place(k, j)].hash
        /\ \A j \in 1 .. MaxForced : Place(k, j) \in DOMAIN delayed_inbox => j \in DOMAIN t
    BY <1>9, Batch
  <2> QED  BY <1>1, <1>10, <2>1
<1> HIDE DEF t
<1>12. delayed_inbox[p].hash \in ToSet(t)
  BY <1>11 DEF ToSet
<1> QED  BY <1>9, <1>12 DEF t

(* Forcing takes every transaction of the delayed inbox to a number that   *)
(* there is.                                                               *)
LEMMA ForcingKeeps ==
  ASSUME Inv, NoForced, ForcedStep, NoBlockStep, NEW tx \in Hashes
  PROVE  tx \in Forced'
<1>1. TypeOK
  BY DEF Inv
<1>2. PICK p \in DOMAIN delayed_inbox : tx = delayed_inbox[p].hash
  BY DEF Hashes
<1>3. PICK k \in Batches : tx \in ToSet(ForcedBlueprint(k).transactions)
  BY <1>1, <1>2, EveryPlace
<1>4. /\ Len(chain) \in Nat /\ k \in 1 .. Len(delayed_inbox) /\ Len(delayed_inbox) \in Nat
  BY <1>1, Stamp, Items DEF Batches
<1>5. PICK n \in Numbers : n - Len(chain) = k
  <2>1. /\ Cardinality(sent) \in Nat /\ Cardinality(sent) <= Cardinality(Delayed)
        /\ Cardinality(sent \ Hashes) \in Nat
        /\ Cardinality(sent) = Cardinality(sent \ Hashes) + Len(delayed_inbox)
    BY Counting DEF Inv
  <2>2. Len(chain) <= MaxBlocks + Cardinality(sent \ Hashes) /\ MaxBlocks \in Nat
    BY BoundsAssumption DEF Inv, NumberInv, Limit
  <2>3. k + Len(chain) \in Numbers /\ (k + Len(chain)) - Len(chain) = k
    BY <1>4, <2>1, <2>2, NumbersAre
  <2> QED  BY <2>3
<1>6. ForcedAt(n)' /\ ForcedTxs(n)' = ToSet(ForcedBlueprint(k).transactions)
  BY <1>5, ForcingStamps
<1> QED  BY <1>3, <1>6, ForcedIsNext

(* A promotion puts what it takes from either place in the chain.          *)
LEMMA PromotingKeeps ==
  ASSUME Inv, OnceInv, ForcedInv, WorkInv, promote_block,
         NEW tx, tx \in Hashes \/ tx \in Forced \/ InChain(tx)
  PROVE  (tx \in Hashes \/ tx \in Forced \/ InChain(tx))'
<1> DEFINE new == [transactions |-> bip.done, timestamp |-> bip.timestamp, by |-> bip.by]
           N == Next_number
           n == Len(chain)
<1>1. /\ bip \in InProgress /\ bip.number = N /\ N \in Numbers /\ Work(bip) = bip.done
      /\ chain \in Seq(Block) /\ chain' = Append(chain, new)
      /\ Hashes' = Hashes \ ToSet(bip.done)
      /\ \A m \in Numbers : m # N => blueprints'[m] = blueprints[m]
  BY Promoting
<1>2. new.transactions = bip.done
  OBVIOUS
<1> HIDE DEF new
<1>3. /\ n \in Nat /\ DOMAIN chain = 1 .. n /\ DOMAIN chain' = 1 .. n + 1
      /\ \A i \in 1 .. n : chain'[i] = chain[i]
      /\ chain'[n + 1] = new
  BY <1>1
<1>4. ASSUME tx \in ToSet(bip.done)  PROVE  InChain(tx)'
  <2>1. n + 1 \in DOMAIN chain' /\ tx \in ToSet(chain'[n + 1].transactions)
    BY <1>2, <1>3, <1>4
  <2> QED  BY <2>1 DEF InChain
<1>5. CASE InChain(tx)
  <2>1. PICK i \in DOMAIN chain : tx \in ToSet(chain[i].transactions)
    BY <1>5 DEF InChain
  <2>2. i \in DOMAIN chain' /\ chain'[i] = chain[i]
    BY <1>3
  <2>3. InChain(tx)'
    BY <2>1, <2>2 DEF InChain
  <2> QED  BY <2>3
<1>6. CASE tx \in Hashes
  BY <1>1, <1>4, <1>6
<1>7. CASE tx \in Forced
  <2>1. PICK m \in Numbers : ForcedAt(m) /\ tx \in ForcedTxs(m)
    BY <1>7, ForcedIs
  <2>2. CASE m = N
    <3>1. bip.by = None
      BY <1>1, <2>1, <2>2, ForcedParts DEF BlocksForced
    <3>2. bip.done = blueprints[N].chunks[0].blueprint.transactions
      BY <1>1, <3>1 DEF WorkInv
    <3> QED  BY <1>4, <2>1, <2>2, <3>2 DEF ForcedTxs
  <2>3. CASE m # N
    <3>1. ForcedAt(m)'
      BY <2>1, <2>3, PromotingForced, ForcedParts
    <3>2. ForcedTxs(m)' = ForcedTxs(m)
      BY <1>1, <2>3 DEF ForcedTxs
    <3> QED  BY <2>1, <3>1, <3>2, ForcedIsNext
  <2> QED  BY <2>2, <2>3
<1> QED  BY <1>5, <1>6, <1>7

(* What L1 sends goes to the delayed inbox when the last of it is read.    *)
LEMMA SentIsKept ==
  ASSUME Inv, SendingInv, Next, NEW tx \in sent' \ sent
  PROVE  tx \in Hashes'
<1>1. CASE \E t \in Delayed : DelayedInput(t)
  <2>1. PICK t \in Delayed : DelayedInput(t)
    BY <1>1
  <2>2. tx = t /\ Hashes' = Hashes \union {t}
    BY <2>1, Saving DEF DelayedInput, Inv
  <2> QED  BY <2>2
<1>2. CASE parse_chunk
  <2>1. sending' = None /\ tx = sending.tx /\ sending # None /\ buffer = sending
    BY <1>2 DEF parse_chunk, SendingInv
  <2>2. sending \in Transfer /\ sending.left \in 1 .. 2 /\ sending.tx \in Delayed
    BY <2>1 DEF Inv, TypeOK, Transfer
  <2>3. sending.left = 1
    <3> SUFFICES ASSUME sending.left # 1  PROVE FALSE
      OBVIOUS
    <3>1. sending' = [sending EXCEPT !.left = @ - 1]
      BY <1>2, <2>1 DEF parse_chunk, OneLess
    <3>2. sending' \in Transfer
      BY <2>2, <3>1 DEF Transfer
    <3> QED  BY <2>1, <3>2, NoneAssumption
  <2>4. save_transaction(sending.tx)
    BY <1>2, <2>1, <2>3 DEF parse_chunk
  <2> QED  BY <2>1, <2>2, <2>4, Saving DEF Inv
<1>3. CASE sent' = sent
  BY <1>3
<1> QED
  BY <1>1, <1>2, <1>3
  DEF Next, Run, Level, Migrate, fallback_backup_kernel, NoMigration, Info,
      force_kernel_upgrade, EndOfInbox, parse_new_chunk, SequencerBlueprint,
      DalSlotImportSignals, store_kernel_upgrade, store_sequencer_upgrade, ResumeBlock,
      possible_sequencer_upgrade, NoBlueprint, invalidate_blueprint, UpgradeKernel,
      StartBlock, ApplyTransaction, RetryTransaction, DiscardTransaction, revert_block,
      promote_block

(* A delayed transaction stays in one of the three places.                 *)
LEMMA LostStep ==
  ASSUME Whole, Careful, Inv, TurnInv, OnceInv, ForcedInv, SendingInv, WorkInv,
         NoDelayedTransactionLost, Next
  PROVE  NoDelayedTransactionLost'
<1> SUFFICES ASSUME NEW tx \in sent'
             PROVE  (tx \in Hashes \/ tx \in Forced \/ InChain(tx))'
  BY DEF NoDelayedTransactionLost
<1>1. CASE tx \notin sent
  BY <1>1, SentIsKept
<1>2. CASE tx \in sent
  <2>1. tx \in Hashes \/ tx \in Forced \/ InChain(tx)
    BY <1>2 DEF NoDelayedTransactionLost
  <2>2. /\ pc = "inbox" => NoForced
        /\ sequencer_upgrade = None
    BY ForcedParts DEF TurnInv
  <2>3. NoForced => Forced = {}
    BY ForcedIs DEF NoForced
  <2>4. CASE promote_block
    BY <2>1, <2>4, PromotingKeeps
  <2>5. CASE ForcedStep
    <3>1. pc = "inbox" /\ world' = world /\ NoBlockStep
      BY <2>5 DEF ForcedStep, EndOfInbox, Reboot, NoBlockStep, Inv, TypeOK
    <3>2. InChain(tx) => InChain(tx)'
      BY <3>1 DEF InChain, chain
    <3> QED  BY <2>1, <2>2, <2>3, <2>5, <3>1, <3>2, ForcingKeeps
  <2>6. CASE ~ promote_block /\ ~ ForcedStep
    <3>1. Hashes \subseteq Hashes'
      BY <2>6, InboxGrows
    <3>2. CASE SequencerStep \/ invalidate_blueprint
      <4>1. NoForced
        BY <2>2, <3>2, NothingForced
        DEF SequencerStep, SequencerBlueprint, DalSlotImportSignals, Message
      <4>2. world' = world
        BY <3>2
        DEF SequencerStep, SequencerBlueprint, DalSlotImportSignals, Message,
            invalidate_blueprint
      <4>3. InChain(tx) => InChain(tx)'
        BY <4>2 DEF InChain, chain
      <4> QED  BY <2>1, <2>3, <3>1, <4>1, <4>3
    <3>3. CASE ~ SequencerStep /\ ~ invalidate_blueprint
      <4>1. UNCHANGED <<blueprints, world>>
        BY <2>2, <2>6, <3>3, SameBlueprints
      <4>2. Forced' = Forced
        BY <4>1 DEF Forced, Next_number, chain
      <4>3. InChain(tx) => InChain(tx)'
        BY <4>1 DEF InChain, chain
      <4> QED  BY <2>1, <3>1, <4>2, <4>3
    <3> QED  BY <3>2, <3>3
  <2> QED  BY <2>4, <2>5, <2>6
<1> QED  BY <1>1, <1>2

(***************************************************************************)
(* Theorems for whole blueprints of one sequencer                          *)
(***************************************************************************)
WholeInv == ForcedInv /\ TimestampsIncrease /\ OrderInv

KeptInv == SendingInv /\ WorkInv /\ NoDelayedTransactionLost

(* The initial state.                                                      *)
LEMMA WholeInit ==
  ASSUME Init
  PROVE  WholeInv /\ KeptInv
<1>1. InProgress = {} /\ \A n \in Numbers : ~ ForcedAt(n)
  BY DEF Init, InProgress, StoredBip, ForcedAt
<1>2. ForcedInv
  BY <1>1 DEF Init, ForcedInv
<1>3. TimestampsIncrease
  BY DEF Init, chain, TimestampsIncrease
<1>4. OrderInv
  BY DEF Init, OrderInv
<1>5. KeptInv
  BY <1>1 DEF Init, KeptInv, SendingInv, WorkInv, NoDelayedTransactionLost
<1> QED  BY <1>2, <1>3, <1>4, <1>5 DEF WholeInv

(* Stuttering.                                                             *)
LEMMA WholeStutter ==
  ASSUME UNCHANGED vars
  PROVE  (WholeInv => WholeInv') /\ (KeptInv => KeptInv')
<1>1. UNCHANGED <<chain, Next_number, StoredBip, Hashes, InProgress, Forced,
                  current_timestamp>>
  BY DEF vars, chain, Next_number, StoredBip, Hashes, InProgress, Forced,
         current_timestamp
<1>2. \A n : /\ ForcedAt(n)' <=> ForcedAt(n)
             /\ ForcedStamp(n)' = ForcedStamp(n)
  BY <1>1 DEF vars, ForcedAt, ForcedStamp
<1>3. ForcedInv => ForcedInv'
  BY <1>1, <1>2 DEF vars, ForcedInv
<1>4. TimestampsIncrease => TimestampsIncrease'
  BY <1>1 DEF TimestampsIncrease
<1>5. OrderInv => OrderInv'
  BY <1>1 DEF vars, OrderInv, Waits
<1>6. KeptInv => KeptInv'
  BY <1>1 DEF vars, KeptInv, SendingInv, WorkInv, NoDelayedTransactionLost, InChain
<1> QED  BY <1>3, <1>4, <1>5, <1>6 DEF WholeInv

(* Forced blueprints follow the head, and are gone at the end of a level.  *)
THEOREM WholeInvariance ==
  ASSUME Whole
  PROVE  Spec => []WholeInv
<1>1. Init => WholeInv
  BY WholeInit
<1>2. ASSUME Inv, DelayedInv, WholeInv, [Next]_vars  PROVE  WholeInv'
  <2>1. CASE UNCHANGED vars
    BY <1>2, <2>1, WholeStutter
  <2>2. CASE Next
    BY <1>2, <2>2, ForcedInvStep, TimestampStep, OrderStep DEF DelayedInv, WholeInv
  <2> QED  BY <1>2, <2>1, <2>2
<1>3. ~ RebootsMayRunOut
  BY DEF Whole
<1>4. Spec => []DelayedInv
  BY <1>3, DelayedInvariance
<1> QED  BY <1>1, <1>2, <1>4, Invariance, PTL DEF Spec

(* Timestamps never go back along the chain, forced blocks included.       *)
THEOREM TimestampsIncreaseHolds ==
  ASSUME Whole
  PROVE  Spec => []TimestampsIncrease
<1>1. WholeInv => TimestampsIncrease
  BY DEF WholeInv
<1> QED  BY <1>1, WholeInvariance, PTL

(* When a level ends no delayed transaction that has timed out is left.    *)
THEOREM DeadlineHolds ==
  ASSUME Whole
  PROVE  Spec => []Deadline
<1>1. ASSUME DelayedInv, WholeInv  PROVE  Deadline
  <2> SUFFICES ASSUME pc = "wait"
               PROVE  /\ Forced = {} /\ StoredBip = None
                      /\ \A i \in DOMAIN delayed_inbox : Waits(delayed_inbox[i])
    BY DEF Deadline, Waits
  <2>1. inbox = "consumed" /\ StoredBip = None
    BY <1>1 DEF DelayedInv, TurnInv
  <2>2. Forced = {}
    BY <1>1, ForcedIs DEF WholeInv, ForcedInv
  <2> QED  BY <1>1, <2>1, <2>2 DEF WholeInv, OrderInv
<1>2. ~ RebootsMayRunOut
  BY DEF Whole
<1>3. Spec => []DelayedInv
  BY <1>2, DelayedInvariance
<1> QED  BY <1>1, <1>3, WholeInvariance, PTL

(* A delayed transaction the kernel has read is in the delayed inbox, in a *)
(* forced blueprint or in a block.                                         *)
THEOREM NoDelayedTransactionLostHolds ==
  ASSUME Whole, Careful
  PROVE  Spec => []NoDelayedTransactionLost
<1>1. Init => KeptInv
  BY WholeInit
<1>2. ASSUME Inv, DelayedInv, WholeInv, KeptInv, [Next]_vars  PROVE  KeptInv'
  <2>1. CASE UNCHANGED vars
    BY <1>2, <2>1, WholeStutter
  <2>2. CASE Next
    BY <1>2, <2>2, SendingStep, WorkStep, LostStep DEF DelayedInv, WholeInv, KeptInv
  <2> QED  BY <1>2, <2>1, <2>2
<1>3. ~ RebootsMayRunOut
  BY DEF Whole
<1>4. Spec => []DelayedInv
  BY <1>3, DelayedInvariance
<1>5. KeptInv => NoDelayedTransactionLost
  BY DEF KeptInv
<1> QED  BY <1>1, <1>2, <1>4, <1>5, Invariance, WholeInvariance, PTL DEF Spec
=============================================================================
