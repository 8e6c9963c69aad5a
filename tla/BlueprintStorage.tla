-------------------------- MODULE BlueprintStorage --------------------------
(***************************************************************************)
(* The blueprints of the next blocks, as the Etherlink kernel keeps them   *)
(* in its durable storage (kernel/src/blueprint_storage.rs).  A blueprint  *)
(* of the sequencer arrives in chunks, in any order and possibly twice;    *)
(* the kernel itself stores a blueprint in one piece when delayed          *)
(* transactions have timed out.  Both write to the same place:             *)
(* blueprints/<number>/nb_chunks and blueprints/<number>/<index>.          *)
(*                                                                         *)
(* A chunk stands for its bytes: the part of its blueprint that its index  *)
(* names when the blueprint is cut into `of' parts.                        *)
(***************************************************************************)
EXTENDS Naturals, Sequences, FiniteSets

CONSTANTS
  None,         \* an empty path; also a hash the kernel does not know
  Delayed,      \* delayed transactions: deposits and transactions sent by L1
  Plain,        \* a transaction that is not a delayed one
  Garbage,      \* bytes of a transaction that do not decode
  Keys,         \* the public keys of sequencers
  MaxChunks,    \* MAXIMUM_NUMBER_OF_CHUNKS
  MaxSize       \* MAXIMUM_SIZE_OF_BLUEPRINT, in chunks

Indices == 0 .. MaxChunks - 1

Transaction == Delayed \union {Plain, Garbage}

\* The hash of a block is the chain that ends with it, `by' the sequencer that
\* signed its blueprint, None for a blueprint of the kernel.
Block ==
  [transactions : Seq(Transaction), timestamp : Nat, by : Keys \union {None}]

Blueprint ==
  [parent_hash : Seq(Block) \union {None}, transactions : Seq(Transaction),
   timestamp : Nat, by : Keys \union {None}]

Chunk == [blueprint : Blueprint, of : 1 .. MaxChunks, forced : BOOLEAN]

Stored == [nb_chunks : 1 .. MaxChunks, chunks : [Indices -> Chunk \union {None}]]

NoChunks == [i \in Indices |-> None]

ChunksOf(b) == IF b = None THEN NoChunks ELSE b.chunks

\* store_sequencer_blueprint: neither the number nor the index is checked.
store_sequencer_blueprint(blueprints, number, index, nb, blueprint) ==
  [blueprints EXCEPT ![number] =
     [nb_chunks |-> nb,
      chunks |-> [ChunksOf(@) EXCEPT ![index] =
                    [blueprint |-> blueprint, of |-> nb, forced |-> FALSE]]]]

\* The chunks of a DAL slot, all those of the blueprint, stored in one go.
store_slot(blueprints, number, nb, blueprint) ==
  [blueprints EXCEPT ![number] =
     [nb_chunks |-> nb,
      chunks |-> [i \in Indices |->
                    IF i < nb THEN [blueprint |-> blueprint, of |-> nb, forced |-> FALSE]
                    ELSE ChunksOf(blueprints[number])[i]]]]

\* store_immediate_blueprint: the other chunks stored there stay.
store_immediate_blueprint(blueprints, number, blueprint) ==
  [blueprints EXCEPT ![number] =
     [nb_chunks |-> 1,
      chunks |-> [ChunksOf(@) EXCEPT ![0] =
                    [blueprint |-> blueprint, of |-> 1, forced |-> TRUE]]]]

\* Mutant: the chunks are deleted, their number is not.
drop_chunks(blueprints, number) ==
  [blueprints EXCEPT ![number] = IF @ = None THEN None ELSE [@ EXCEPT !.chunks = NoChunks]]

drop_blueprint(blueprints, number) == [blueprints EXCEPT ![number] = None]

AvailableChunks(b) == Cardinality({i \in Indices : b.chunks[i] # None})

HeadTimestamp(chain) ==
  IF chain = << >> THEN 0 ELSE chain[Len(chain)].timestamp

IsForced(b) == b.chunks[0] # None /\ b.chunks[0].forced

\* A chunk that is read is missing: an error, which leaves the blueprint there.
ChunkMissing(b) == \E i \in 0 .. b.nb_chunks - 1 : b.chunks[i] = None

\* The bytes of the chunks put together are those of one blueprint.
Decodes(b) ==
  \A i \in 0 .. b.nb_chunks - 1 :
    b.chunks[i].of = b.nb_chunks /\ b.chunks[i].blueprint = b.chunks[0].blueprint

DelayedOf(transactions) == {i \in DOMAIN transactions : transactions[i] \in Delayed}

\* Mutant: the parent hash is not checked.
HeaderOfAnyParent(blueprint, chain, accepted_bound) ==
  /\ blueprint.timestamp >= HeadTimestamp(chain)
  /\ blueprint.timestamp <= accepted_bound

\* The checks of parse_and_validate_blueprint that precede the transactions.
HeaderIsValid(blueprint, chain, accepted_bound) ==
  /\ blueprint.parent_hash = chain
  /\ blueprint.timestamp >= HeadTimestamp(chain)
  /\ blueprint.timestamp <= accepted_bound

\* fetch_delayed_txs: `hashes' are those of the delayed inbox.
DelayedAreFetched(blueprint, nb_chunks, hashes) ==
  LET delayed == DelayedOf(blueprint.transactions)
  IN /\ nb_chunks + Cardinality(delayed) <= MaxSize
     /\ \A i \in delayed : blueprint.transactions[i] \in hashes

(***************************************************************************)
(* read_next_blueprint, on what is stored under the next number.  The      *)
(* outcome "none" leaves the storage as it is, so does "error", which ends *)
(* the run of the kernel; "deleted" removes all that is stored there.      *)
(***************************************************************************)
read_next_blueprint(b, chain, accepted_bound, hashes) ==
  LET blueprint == b.chunks[0].blueprint
      found(status) == [status |-> status, blueprint |-> None]
  IN IF b = None THEN found("none")
     ELSE IF AvailableChunks(b) < b.nb_chunks THEN found("none")
     ELSE IF AvailableChunks(b) > b.nb_chunks THEN found("deleted")
     ELSE IF IsForced(b) THEN [status |-> "next", blueprint |-> blueprint]
     ELSE IF ChunkMissing(b) THEN found("error")
     ELSE IF ~ Decodes(b) \/ ~ HeaderIsValid(blueprint, chain, accepted_bound)
             \/ ~ DelayedAreFetched(blueprint, b.nb_chunks, hashes)
          THEN found("deleted")
     ELSE IF \E i \in DOMAIN blueprint.transactions :
               blueprint.transactions[i] = Garbage
          THEN found("error")
     ELSE [status |-> "next", blueprint |-> blueprint]
=============================================================================
