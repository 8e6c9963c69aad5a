-------------------------- MODULE EvmKernelProofs --------------------------
(***************************************************************************)
(* Proofs about EvmKernel.                                                 *)
(***************************************************************************)
EXTENDS EvmKernel, SequenceTheorems, FiniteSetTheorems, WellFoundedInduction, TLAPS

(***************************************************************************)
(* Induction: a set of naturals that is not empty has a least element.     *)
(***************************************************************************)
LEMMA LeastNatural ==
  ASSUME NEW T, T \subseteq Nat, T # {}
  PROVE  \E x \in T : \A y \in T : ~ (y < x)
<1> DEFINE R == OpToRel(<, Nat)
<1>1. \A x, y \in Nat : y < x => <<y, x>> \in R
  BY DEF OpToRel
<1>2. IsWellFoundedOn(R, Nat)
  BY NatLessThanWellFounded
<1> HIDE DEF R
<1>3. \E x \in T : \A y \in T : ~ (<<y, x>> \in R)
  BY <1>2, WFMin
<1> QED  BY <1>1, <1>3

(* The first element, if any, at which something is false.                 *)
LEMMA Induction ==
  ASSUME NEW n \in Nat, NEW S, S \subseteq 0 .. n, 0 \in S,
         \A i \in 1 .. n : i - 1 \in S => i \in S
  PROVE  S = 0 .. n
<1> DEFINE T == (0 .. n) \ S
<1> SUFFICES ASSUME T # {} PROVE FALSE
  OBVIOUS
<1>1. T \subseteq Nat
  OBVIOUS
<1>2. PICK x \in T : \A y \in T : ~ (y < x)
  <2> HIDE DEF T
  <2> QED  BY <1>1, LeastNatural
<1>3. x \in 1 .. n
  OBVIOUS
<1>4. x - 1 \in S
  BY <1>2, <1>3
<1> QED  BY <1>3, <1>4

(***************************************************************************)
(* Without: what is kept of a list is an increasing selection of it.       *)
(***************************************************************************)
KeptUpTo(f, n, items, hashes) ==
  f = [i \in 0 .. n |->
         IF i = 0 THEN << >>
         ELSE IF items[i].hash \in hashes THEN f[i - 1]
         ELSE Append(f[i - 1], items[i])]

(* The recursive function of Without exists.                               *)
LEMMA KeptExists ==
  ASSUME NEW items, NEW hashes, Len(items) \in Nat
  PROVE  \E f : KeptUpTo(f, Len(items), items, hashes)
<1> DEFINE S == {n \in 0 .. Len(items) : \E f : KeptUpTo(f, n, items, hashes)}
<1>1. 0 \in S
  <2> DEFINE f == [i \in 0 .. 0 |-> << >>]
  <2>1. KeptUpTo(f, 0, items, hashes)
    BY DEF KeptUpTo
  <2> QED  BY <2>1
<1>2. ASSUME NEW n \in 1 .. Len(items), n - 1 \in S  PROVE  n \in S
  <2>1. PICK f : KeptUpTo(f, n - 1, items, hashes)
    BY <1>2
  <2> DEFINE g == [i \in 0 .. n |->
                     IF i < n THEN f[i]
                     ELSE IF items[i].hash \in hashes THEN f[i - 1]
                     ELSE Append(f[i - 1], items[i])]
             h == [i \in 0 .. n |->
                     IF i = 0 THEN << >>
                     ELSE IF items[i].hash \in hashes THEN g[i - 1]
                     ELSE Append(g[i - 1], items[i])]
  <2>2. ASSUME NEW i \in 0 .. n  PROVE  g[i] = h[i]
    <3>1. i # 0 => g[i - 1] = f[i - 1]
      OBVIOUS
    <3>2. CASE i < n
      <4>1. i \in 0 .. n - 1
        BY <3>2
      <4>2. f[i] = IF i = 0 THEN << >>
                   ELSE IF items[i].hash \in hashes THEN f[i - 1]
                   ELSE Append(f[i - 1], items[i])
        BY <2>1, <4>1 DEF KeptUpTo
      <4> QED  BY <3>1, <3>2, <4>2
    <3>3. CASE i = n
      BY <3>1, <3>3
    <3> QED  BY <3>2, <3>3
  <2>3. g = h
    <3>1. g = [i \in 0 .. n |-> g[i]] /\ h = [i \in 0 .. n |-> h[i]]
      OBVIOUS
    <3> HIDE DEF g, h
    <3> QED  BY <2>2, <3>1
  <2>4. KeptUpTo(g, n, items, hashes)
    BY <2>3 DEF KeptUpTo
  <2> QED  BY <2>4
<1>3. S = 0 .. Len(items)
  <2> HIDE DEF S
  <2>1. S \subseteq 0 .. Len(items)
    BY DEF S
  <2> QED  BY <1>1, <1>2, <2>1, Induction
<1> QED  BY <1>3

\* w is an increasing selection of the first n items, those not in hashes.
Selects(w, n, items, hashes) ==
  \E m \in [1 .. Len(w) -> 1 .. n] :
    /\ \A j, k \in 1 .. Len(w) : j < k => m[j] < m[k]
    /\ \A k \in 1 .. Len(w) : w[k] = items[m[k]]
    /\ \A i \in 1 .. n :
         items[i].hash \notin hashes <=> \E k \in 1 .. Len(w) : m[k] = i

(* What clean_delayed_transactions leaves in the delayed inbox.            *)
LEMMA WithoutSelects ==
  ASSUME NEW I, NEW items \in Seq(I), NEW hashes
  PROVE  /\ Without(items, hashes) \in Seq(I)
         /\ Selects(Without(items, hashes), Len(items), items, hashes)
<1> DEFINE N == Len(items)
<1>1. N \in Nat
  OBVIOUS
<1> DEFINE kept == CHOOSE f : KeptUpTo(f, N, items, hashes)
<1>2. KeptUpTo(kept, N, items, hashes)
  BY <1>1, KeptExists
<1>3. Without(items, hashes) = kept[N]
  BY DEF Without, KeptUpTo
<1> HIDE DEF kept
<1> DEFINE S == {n \in 0 .. N : /\ kept[n] \in Seq(I)
                                /\ Selects(kept[n], n, items, hashes)}
<1>4. 0 \in S
  <2>1. kept[0] = << >>
    BY <1>1, <1>2 DEF KeptUpTo
  <2> DEFINE m == [k \in 1 .. 0 |-> 1]
  <2>2. m \in [1 .. Len(<< >>) -> 1 .. 0]
    OBVIOUS
  <2>3. Selects(<< >>, 0, items, hashes)
    <3>1. Len(<< >>) = 0 /\ 1 .. 0 = {}
      OBVIOUS
    <3> HIDE DEF m
    <3> QED  BY <2>2, <3>1 DEF Selects
  <2>4. << >> \in Seq(I)
    OBVIOUS
  <2>5. kept[0] \in Seq(I) /\ Selects(kept[0], 0, items, hashes)
    BY <2>1, <2>3, <2>4
  <2> QED  BY <1>1, <2>5
<1>5. ASSUME NEW n \in 1 .. N, n - 1 \in S  PROVE  n \in S
  <2> DEFINE v == kept[n - 1]
             w == kept[n]
  <2>1. v \in Seq(I) /\ items[n] \in I /\ n \in 0 .. N /\ Len(v) \in Nat
    BY <1>1, <1>5
  <2>2. PICK m \in [1 .. Len(v) -> 1 .. n - 1] :
          /\ \A j, k \in 1 .. Len(v) : j < k => m[j] < m[k]
          /\ \A k \in 1 .. Len(v) : v[k] = items[m[k]]
          /\ \A i \in 1 .. n - 1 :
               items[i].hash \notin hashes <=> \E k \in 1 .. Len(v) : m[k] = i
    BY <1>5 DEF Selects
  <2>3. w = IF items[n].hash \in hashes THEN v ELSE Append(v, items[n])
    <3>1. kept[n] = IF n = 0 THEN << >>
                    ELSE IF items[n].hash \in hashes THEN kept[n - 1]
                    ELSE Append(kept[n - 1], items[n])
      <4> HIDE DEF N
      <4> QED  BY <1>2, <2>1 DEF KeptUpTo
    <3> QED  BY <3>1
  <2> HIDE DEF v, w
  <2>4. CASE items[n].hash \in hashes
    <3>1. m \in [1 .. Len(w) -> 1 .. n] /\ w = v
      BY <2>3, <2>4
    <3>2. \A i \in 1 .. n :
            items[i].hash \notin hashes <=> \E k \in 1 .. Len(w) : m[k] = i
      <4>1. \A i \in 1 .. n : i = n \/ i \in 1 .. n - 1
        OBVIOUS
      <4>2. \A k \in 1 .. Len(w) : m[k] # n
        BY <3>1
      <4> QED  BY <2>2, <2>4, <3>1, <4>1, <4>2
    <3>3. Selects(w, n, items, hashes)
      BY <2>2, <3>1, <3>2 DEF Selects
    <3> QED  BY <2>1, <3>1, <3>3 DEF w
  <2>5. CASE items[n].hash \notin hashes
    <3>1. /\ w = Append(v, items[n]) /\ w \in Seq(I) /\ Len(w) = Len(v) + 1
          /\ \A k \in 1 .. Len(v) : w[k] = v[k]
          /\ w[Len(v) + 1] = items[n]
      BY <2>1, <2>3, <2>5
    <3> DEFINE p == [k \in 1 .. Len(w) |-> IF k = Len(w) THEN n ELSE m[k]]
    <3>2. /\ p \in [1 .. Len(w) -> 1 .. n] /\ p[Len(w)] = n
          /\ \A k \in 1 .. Len(v) : p[k] = m[k]
      BY <2>1, <2>2, <3>1
    <3> HIDE DEF p
    <3>3. ASSUME NEW j \in 1 .. Len(w), NEW k \in 1 .. Len(w), j < k
          PROVE  p[j] < p[k]
      <4>1. j \in 1 .. Len(v) /\ p[j] = m[j] /\ m[j] \in 1 .. n - 1
        BY <2>1, <3>1, <3>2, <3>3
      <4>2. CASE k = Len(w)
        BY <3>2, <4>1, <4>2
      <4>3. CASE k # Len(w)
        <5>1. k \in 1 .. Len(v)
          BY <2>1, <3>1, <4>3
        <5> QED  BY <2>2, <3>2, <3>3, <4>1, <5>1
      <4> QED  BY <4>2, <4>3
    <3>4. ASSUME NEW k \in 1 .. Len(w)  PROVE  w[k] = items[p[k]]
      <4>1. CASE k = Len(w)
        BY <3>1, <3>2, <4>1
      <4>2. CASE k # Len(w)
        <5>1. k \in 1 .. Len(v)
          BY <2>1, <3>1, <4>2
        <5>2. w[k] = v[k] /\ p[k] = m[k] /\ v[k] = items[m[k]]
          BY <2>2, <3>1, <3>2, <5>1
        <5> QED  BY <5>2
      <4> QED  BY <4>1, <4>2
    <3>5. ASSUME NEW i \in 1 .. n
          PROVE  items[i].hash \notin hashes <=> \E k \in 1 .. Len(w) : p[k] = i
      <4>1. CASE i = n
        BY <2>1, <2>5, <3>1, <3>2, <4>1
      <4>2. CASE i # n
        <5>1. i \in 1 .. n - 1
          BY <4>2
        <5>2. \A k \in 1 .. Len(w) : k # Len(w) => k \in 1 .. Len(v)
          BY <2>1, <3>1
        <5>3. \A k \in 1 .. Len(v) : k \in 1 .. Len(w)
          BY <2>1, <3>1
        <5>4. (\E k \in 1 .. Len(v) : m[k] = i) => \E k \in 1 .. Len(w) : p[k] = i
          BY <3>2, <5>3
        <5>5. (\E k \in 1 .. Len(w) : p[k] = i) => \E k \in 1 .. Len(v) : m[k] = i
          BY <3>2, <4>2, <5>2
        <5> QED  BY <2>2, <5>1, <5>4, <5>5
      <4> QED  BY <4>1, <4>2
    <3>6. Selects(w, n, items, hashes)
      BY <3>2, <3>3, <3>4, <3>5 DEF Selects
    <3> QED  BY <2>1, <3>1, <3>6 DEF w
  <2> QED  BY <2>4, <2>5
<1>6. S = 0 .. N
  <2> HIDE DEF S
  <2>1. S \subseteq 0 .. N
    BY DEF S
  <2> HIDE DEF N
  <2> QED  BY <1>1, <1>4, <1>5, <2>1, Induction
<1>7. N \in S
  BY <1>1, <1>6
<1> QED  BY <1>3, <1>7

(***************************************************************************)
(* FlattenSeq: the last sequence comes at the end of the result.           *)
(***************************************************************************)
FlatUpTo(f, n, seqs) ==
  f = [i \in 1 .. n |-> IF i = 1 THEN seqs[i] ELSE f[i - 1] \o seqs[i]]

(* The recursive function of FlattenSeq exists.                            *)
LEMMA FlatExists ==
  ASSUME NEW seqs, NEW N \in Nat
  PROVE  \E f : FlatUpTo(f, N, seqs)
<1> DEFINE S == {n \in 0 .. N : \E f : FlatUpTo(f, n, seqs)}
<1>1. 0 \in S
  <2> DEFINE f == [i \in 1 .. 0 |-> << >>]
  <2>1. FlatUpTo(f, 0, seqs)
    BY DEF FlatUpTo
  <2> QED  BY <2>1
<1>2. ASSUME NEW n \in 1 .. N, n - 1 \in S  PROVE  n \in S
  <2>1. PICK f : FlatUpTo(f, n - 1, seqs)
    BY <1>2
  <2> DEFINE g == [i \in 1 .. n |-> IF i < n THEN f[i] ELSE
                                    IF i = 1 THEN seqs[i] ELSE f[i - 1] \o seqs[i]]
             h == [i \in 1 .. n |-> IF i = 1 THEN seqs[i] ELSE g[i - 1] \o seqs[i]]
  <2>2. ASSUME NEW i \in 1 .. n  PROVE  g[i] = h[i]
    <3>1. i # 1 => g[i - 1] = f[i - 1]
      OBVIOUS
    <3>2. CASE i < n
      <4>1. i \in 1 .. n - 1
        BY <3>2
      <4>2. f[i] = IF i = 1 THEN seqs[i] ELSE f[i - 1] \o seqs[i]
        BY <2>1, <4>1 DEF FlatUpTo
      <4> QED  BY <3>1, <3>2, <4>2
    <3>3. CASE i = n
      BY <3>1, <3>3
    <3> QED  BY <3>2, <3>3
  <2>3. g = h
    <3>1. g = [i \in 1 .. n |-> g[i]] /\ h = [i \in 1 .. n |-> h[i]]
      OBVIOUS
    <3> HIDE DEF g, h
    <3> QED  BY <2>2, <3>1
  <2>4. FlatUpTo(g, n, seqs)
    BY <2>3 DEF FlatUpTo
  <2> QED  BY <2>4
<1>3. S = 0 .. N
  <2> HIDE DEF S
  <2>1. S \subseteq 0 .. N
    BY DEF S
  <2> QED  BY <1>1, <1>2, <2>1, Induction
<1> QED  BY <1>3

(* FlattenSeq in terms of any such function.                               *)
LEMMA FlattenIs ==
  ASSUME NEW S, NEW seqs \in Seq(Seq(S)), seqs # << >>
  PROVE  \E f : /\ FlatUpTo(f, Len(seqs), seqs)
                /\ FlattenSeq(seqs) = f[Len(seqs)]
                /\ \A i \in 1 .. Len(seqs) : f[i] \in Seq(S)
<1> DEFINE N == Len(seqs)
           f == CHOOSE g : FlatUpTo(g, N, seqs)
<1>1. N \in Nat /\ N # 0
  OBVIOUS
<1>2. FlatUpTo(f, N, seqs)
  BY <1>1, FlatExists
<1>3. FlattenSeq(seqs) = f[N]
  BY <1>1 DEF FlattenSeq, FlatUpTo
<1> HIDE DEF f
<1> DEFINE T == {n \in 0 .. N : n # 0 => f[n] \in Seq(S)}
<1>4. 0 \in T
  BY <1>1
<1>5. ASSUME NEW n \in 1 .. N, n - 1 \in T  PROVE  n \in T
  <2>1. f[n] = IF n = 1 THEN seqs[n] ELSE f[n - 1] \o seqs[n]
    <3> HIDE DEF N
    <3> QED  BY <1>2 DEF FlatUpTo
  <2>2. seqs[n] \in Seq(S) /\ n \in 0 .. N
    OBVIOUS
  <2>3. CASE n = 1
    BY <2>1, <2>2, <2>3
  <2>4. CASE n # 1
    <3>1. f[n - 1] \in Seq(S)
      BY <1>5, <2>4
    <3>2. f[n - 1] \o seqs[n] \in Seq(S)
      BY <2>2, <3>1
    <3> QED  BY <2>1, <2>2, <2>4, <3>2
  <2> QED  BY <2>3, <2>4
<1>6. T = 0 .. N
  <2> HIDE DEF T
  <2>1. T \subseteq 0 .. N
    BY DEF T
  <2> HIDE DEF N
  <2> QED  BY <1>1, <1>4, <1>5, <2>1, Induction
<1>7. ASSUME NEW i \in 1 .. N  PROVE  f[i] \in Seq(S)
  <2>1. i \in T /\ i # 0
    <3> HIDE DEF T
    <3> QED  BY <1>1, <1>6
  <2> QED  BY <2>1
<1> QED  BY <1>2, <1>3, <1>7

(* The effects of a chain with one more block.                             *)
LEMMA FlattenAppend ==
  ASSUME NEW S, NEW seqs \in Seq(Seq(S)), NEW e \in Seq(S)
  PROVE  /\ FlattenSeq(seqs) \in Seq(S)
         /\ FlattenSeq(Append(seqs, e)) = FlattenSeq(seqs) \o e
<1> DEFINE N == Len(seqs)
           more == Append(seqs, e)
<1>1. /\ N \in Nat /\ more \in Seq(Seq(S)) /\ Len(more) = N + 1 /\ more # << >>
      /\ \A i \in 1 .. N : more[i] = seqs[i]
      /\ more[N + 1] = e
  <2>1. N \in Nat /\ Seq(S) # {}
    OBVIOUS
  <2>2. more \in Seq(Seq(S)) /\ Len(more) = N + 1
    BY <2>1, AppendProperties
  <2>3. more # << >>
    BY <2>1, AppendProperties
  <2> QED  BY <2>1, <2>2, <2>3, AppendProperties
<1>2. PICK g : /\ FlatUpTo(g, N + 1, more)
               /\ FlattenSeq(more) = g[N + 1]
               /\ \A i \in 1 .. N + 1 : g[i] \in Seq(S)
  <2> HIDE DEF more
  <2> QED  BY <1>1, FlattenIs
<1> HIDE DEF more
<1>3. \A i \in 1 .. N + 1 : g[i] = IF i = 1 THEN more[i] ELSE g[i - 1] \o more[i]
  <2> HIDE DEF N
  <2> QED  BY <1>1, <1>2 DEF FlatUpTo
<1>4. CASE seqs = << >>
  <2>1. N = 0 /\ FlattenSeq(seqs) = << >>
    BY <1>4 DEF FlattenSeq
  <2>2. g[1] = e
    BY <1>1, <1>3, <2>1
  <2>3. << >> \in Seq(S) /\ << >> \o e = e
    OBVIOUS
  <2> QED  BY <1>1, <1>2, <2>1, <2>2, <2>3 DEF more
<1>5. CASE seqs # << >>
  <2>1. N # 0
    BY <1>5
  <2>2. PICK f : /\ FlatUpTo(f, N, seqs)
                 /\ FlattenSeq(seqs) = f[N]
                 /\ \A i \in 1 .. N : f[i] \in Seq(S)
    BY <1>5, FlattenIs
  <2>3. \A i \in 1 .. N : f[i] = IF i = 1 THEN seqs[i] ELSE f[i - 1] \o seqs[i]
    <3> HIDE DEF N
    <3> QED  BY <1>1, <2>2 DEF FlatUpTo
  <2> DEFINE T == {n \in 0 .. N : n # 0 => g[n] = f[n]}
  <2>4. 0 \in T
    BY <1>1
  <2>5. ASSUME NEW n \in 1 .. N, n - 1 \in T  PROVE  n \in T
    <3>1. n \in 0 .. N /\ n \in 1 .. N + 1
      BY <1>1
    <3>2. /\ g[n] = IF n = 1 THEN seqs[n] ELSE g[n - 1] \o seqs[n]
          /\ f[n] = IF n = 1 THEN seqs[n] ELSE f[n - 1] \o seqs[n]
      BY <1>1, <1>3, <2>3, <3>1
    <3> QED  BY <2>5, <3>1, <3>2
  <2>6. T = 0 .. N
    <3> HIDE DEF T
    <3>1. T \subseteq 0 .. N
      BY DEF T
    <3> HIDE DEF N
    <3> QED  BY <1>1, <2>4, <2>5, <3>1, Induction
  <2>7. g[N] = f[N]
    <3>1. N \in T
      <4> HIDE DEF T, N
      <4> QED  BY <1>1, <2>6
    <3> QED  BY <2>1, <3>1
  <2>8. g[N + 1] = g[N] \o e
    <3>1. N + 1 \in 1 .. N + 1 /\ N + 1 # 1 /\ (N + 1) - 1 = N
      BY <1>1, <2>1
    <3> HIDE DEF N
    <3> QED  BY <1>1, <1>3, <3>1
  <2> QED  BY <1>1, <1>2, <2>1, <2>2, <2>7, <2>8 DEF more
<1> QED  BY <1>4, <1>5

(***************************************************************************)
(* The inductive invariant                                                 *)
(***************************************************************************)

\* A transaction sent in chunks is put together from those of one transfer,
\* and is new.  The delayed inbox holds each transaction once, and only what
\* was sent.
TransferInv ==
  /\ buffer = None \/ buffer = sending
  /\ pc # "inbox" => buffer = None
  /\ sending # None => sending.tx \notin sent
  /\ \A i, j \in DOMAIN delayed_inbox :
       delayed_inbox[i].hash = delayed_inbox[j].hash => i = j
  /\ Hashes \subseteq sent

\* Numbers are enough: beyond those of the sequencer, every number is that of
\* a forced blueprint, which took a transaction out of the delayed inbox.
Limit == MaxBlocks + Cardinality(sent \ Hashes)

NumberInv ==
  /\ Len(chain) <= Limit
  /\ \A n \in Numbers : blueprints[n] # None => n <= Limit

\* A chunk is the kernel's, or of the sequencer in place.
ChunkInv ==
  \A n \in Numbers : blueprints[n] # None =>
    \A i \in Indices : blueprints[n].chunks[i] # None =>
      blueprints[n].chunks[i].blueprint.by =
        IF blueprints[n].chunks[i].forced THEN None ELSE sequencer

\* A block in progress, in memory or stored, is that of the next number.
NextBlock(b) ==
  /\ b.number = Next_number /\ blueprints[Next_number] # None
  /\ b.by # None => b.by = sequencer /\ b.parent_hash = chain

BlockInv ==
  /\ world.bip = None
  /\ pc = "next" => StoredBip = None
  /\ bip # None => NextBlock(bip) /\ tmp # None /\ (run.resumed \/ tmp.bip = None)
  /\ StoredBip # None => NextBlock(StoredBip)
  /\ tmp # None => tmp.chain = chain

Inv ==
  /\ TypeOK /\ TransferInv /\ NumberInv /\ ChunkInv /\ BlockInv /\ WorldIsAtomic

(***************************************************************************)
(* Types                                                                   *)
(***************************************************************************)

(* The time of the last level read.                                        *)
LEMMA Now ==
  ASSUME TypeOK
  PROVE  current_timestamp \in Nat /\ l1_level \in 0 .. MaxLevel
BY TimeAssumption, BoundsAssumption DEF TypeOK, current_timestamp

(* The numbers of blocks.                                                  *)
LEMMA NumbersAre ==
  /\ Cardinality(Delayed) \in Nat
  /\ Numbers = 1 .. MaxBlocks + Cardinality(Delayed) + 1
  /\ 1 \in Numbers
BY TransactionsAssumption, FS_CardinalityType, BoundsAssumption DEF Numbers

(* A stored blueprint of which a chunk is there.                           *)
LEMMA SomeChunk ==
  ASSUME NEW b \in Stored
  PROVE  AvailableChunks(b) > 0 <=> \E i \in Indices : b.chunks[i] # None
<1> DEFINE A == {i \in Indices : b.chunks[i] # None}
<1>1. IsFiniteSet(Indices)
  BY ChunkingAssumption, FS_Interval DEF Indices
<1>2. IsFiniteSet(A)
  BY <1>1, FS_Subset
<1>3. Cardinality(A) \in Nat /\ (Cardinality(A) = 0 <=> A = {})
  <2> HIDE DEF A
  <2> QED  BY <1>2, FS_CardinalityType, FS_EmptySet
<1>4. AvailableChunks(b) = Cardinality(A)
  BY DEF AvailableChunks
<1>5. AvailableChunks(b) > 0 <=> A # {}
  <2> HIDE DEF A
  <2> QED  BY <1>3, <1>4
<1> QED  BY <1>5

\* The value of a number after a chunk was written over it.
Overwrites(new, old, c) ==
  /\ new \in Stored
  /\ \E i \in Indices : new.chunks[i] = c
  /\ \A i \in Indices : new.chunks[i] = c \/ new.chunks[i] = ChunksOf(old)[i]

(* The three ways to store a blueprint write one chunk, or one chunk in    *)
(* several places, and leave the other numbers alone.                      *)
LEMMA Storing ==
  ASSUME NEW bs \in [Numbers -> Stored \union {None}], NEW n \in Numbers,
         NEW i \in Indices, NEW nb \in 1 .. MaxChunks, NEW blueprint \in Blueprint,
         NEW c, c = [blueprint |-> blueprint, of |-> nb, forced |-> FALSE],
         NEW d, d = [blueprint |-> blueprint, of |-> 1, forced |-> TRUE],
         NEW f, f = store_sequencer_blueprint(bs, n, i, nb, blueprint),
         NEW g, g = store_slot(bs, n, nb, blueprint),
         NEW h, h = store_immediate_blueprint(bs, n, blueprint)
  PROVE  /\ c \in Chunk /\ d \in Chunk
         /\ Overwrites(f[n], bs[n], c) /\ f = [bs EXCEPT ![n] = f[n]]
         /\ Overwrites(g[n], bs[n], c) /\ g = [bs EXCEPT ![n] = g[n]]
         /\ Overwrites(h[n], bs[n], d) /\ h = [bs EXCEPT ![n] = h[n]]
<1>1. ChunksOf(bs[n]) \in [Indices -> Chunk \union {None}]
  BY DEF ChunksOf, NoChunks, Stored
<1>2. 0 \in Indices /\ 1 \in 1 .. MaxChunks /\ nb > 0
  BY ChunkingAssumption DEF Indices
<1>3. c \in Chunk /\ d \in Chunk
  BY <1>2 DEF Chunk
<1> DEFINE cs == ChunksOf(bs[n])
           x == [cs EXCEPT ![i] = c]
           y == [k \in Indices |-> IF k < nb THEN c ELSE cs[k]]
           z == [cs EXCEPT ![0] = d]
<1>4. /\ f = [bs EXCEPT ![n] = [nb_chunks |-> nb, chunks |-> x]]
      /\ g = [bs EXCEPT ![n] = [nb_chunks |-> nb, chunks |-> y]]
      /\ h = [bs EXCEPT ![n] = [nb_chunks |-> 1, chunks |-> z]]
  BY DEF store_sequencer_blueprint, store_slot, store_immediate_blueprint
<1> HIDE DEF cs
<1>5. /\ x \in [Indices -> Chunk \union {None}] /\ x[i] = c
      /\ y \in [Indices -> Chunk \union {None}] /\ y[0] = c
      /\ z \in [Indices -> Chunk \union {None}] /\ z[0] = d
      /\ \A k \in Indices : /\ x[k] = c \/ x[k] = cs[k]
                            /\ y[k] = c \/ y[k] = cs[k]
                            /\ z[k] = d \/ z[k] = cs[k]
  BY <1>1, <1>2, <1>3 DEF cs
<1> HIDE DEF x, y, z
<1>6. /\ f[n] = [nb_chunks |-> nb, chunks |-> x]
      /\ g[n] = [nb_chunks |-> nb, chunks |-> y]
      /\ h[n] = [nb_chunks |-> 1, chunks |-> z]
  BY <1>4
<1>7. f[n] \in Stored /\ g[n] \in Stored /\ h[n] \in Stored
  BY <1>2, <1>5, <1>6 DEF Stored
<1>8. /\ f[n].chunks = x /\ g[n].chunks = y /\ h[n].chunks = z
  BY <1>6
<1>9. Overwrites(f[n], bs[n], c)
  BY <1>5, <1>7, <1>8 DEF Overwrites, cs
<1>10. Overwrites(g[n], bs[n], c)
  BY <1>2, <1>5, <1>7, <1>8 DEF Overwrites, cs
<1>11. Overwrites(h[n], bs[n], d)
  BY <1>2, <1>5, <1>7, <1>8 DEF Overwrites, cs
<1>12. /\ f = [bs EXCEPT ![n] = f[n]] /\ g = [bs EXCEPT ![n] = g[n]]
       /\ h = [bs EXCEPT ![n] = h[n]]
  BY <1>4, <1>6
<1> QED  BY <1>3, <1>9, <1>10, <1>11, <1>12

\* A step that only stores blueprints, of the sequencer or of the kernel.
Stores ==
  /\ sequencer' = sequencer
  /\ DOMAIN blueprints' = Numbers
  /\ \A n \in Numbers :
       \/ blueprints'[n] = blueprints[n]
       \/ \E c \in Chunk :
            /\ Overwrites(blueprints'[n], blueprints[n], c)
            /\ c.blueprint.by = IF c.forced THEN None ELSE sequencer

\* The part of TypeOK that is about the blueprints.
BlueprintsOK ==
  /\ blueprints \in [Numbers -> Stored \union {None}]
  /\ \A n \in Numbers : blueprints[n] # None => AvailableChunks(blueprints[n]) > 0

(* Storing keeps what is said of blueprints, and deletes none.             *)
LEMMA StoresKeep ==
  ASSUME BlueprintsOK, ChunkInv, Stores, blueprints' = [n \in Numbers |-> blueprints'[n]]
  PROVE  /\ BlueprintsOK' /\ ChunkInv'
         /\ \A n \in Numbers : blueprints[n] # None => blueprints'[n] # None
<1>1. ASSUME NEW n \in Numbers
      PROVE  /\ blueprints'[n] \in Stored \union {None}
             /\ blueprints[n] # None => blueprints'[n] # None
             /\ blueprints'[n] # None =>
                  /\ AvailableChunks(blueprints'[n]) > 0
                  /\ \A i \in Indices : blueprints'[n].chunks[i] # None =>
                       blueprints'[n].chunks[i].blueprint.by =
                         IF blueprints'[n].chunks[i].forced THEN None ELSE sequencer'
  <2>1. CASE blueprints'[n] = blueprints[n]
    BY <2>1 DEF BlueprintsOK, ChunkInv, Stores
  <2>2. CASE blueprints'[n] # blueprints[n]
    <3>1. PICK c \in Chunk :
            /\ Overwrites(blueprints'[n], blueprints[n], c)
            /\ c.blueprint.by = IF c.forced THEN None ELSE sequencer
      BY <2>2 DEF Stores
    <3>2. blueprints'[n] \in Stored /\ blueprints'[n] # None /\ c # None
      BY <3>1, NoneAssumption DEF Overwrites
    <3>3. AvailableChunks(blueprints'[n]) > 0
      BY <3>1, <3>2, SomeChunk DEF Overwrites
    <3>4. ASSUME NEW i \in Indices, blueprints'[n].chunks[i] # None
          PROVE  blueprints'[n].chunks[i].blueprint.by =
                   IF blueprints'[n].chunks[i].forced THEN None ELSE sequencer
      <4>1. CASE blueprints'[n].chunks[i] = c
        BY <3>1, <4>1
      <4>2. CASE blueprints'[n].chunks[i] = ChunksOf(blueprints[n])[i]
        <5>1. blueprints[n] # None /\ blueprints'[n].chunks[i] = blueprints[n].chunks[i]
          BY <3>4, <4>2 DEF ChunksOf, NoChunks
        <5> QED  BY <3>4, <5>1 DEF ChunkInv
      <4> QED  BY <3>1, <4>1, <4>2 DEF Overwrites
    <3> QED  BY <3>2, <3>3, <3>4 DEF Stores
  <2> QED  BY <2>1, <2>2
<1>2. BlueprintsOK'
  BY <1>1 DEF BlueprintsOK
<1>3. ChunkInv'
  BY <1>1 DEF ChunkInv
<1> QED  BY <1>1, <1>2, <1>3

(* What the sequencer signs is a blueprint in its own name.                *)
LEMMA ProposalIsBlueprint ==
  ASSUME TypeOK, NEW number \in Upcoming, NEW blueprint \in Proposal(number)
  PROVE  /\ blueprint \in Blueprint /\ blueprint.by = sequencer
         /\ number \in Numbers /\ number <= MaxBlocks
<1>1. chain \in Seq(Block) /\ sequencer \in Keys /\ Next_number \in Numbers
  BY DEF TypeOK, chain, World
<1>2. ASSUME NEW p \in Predicted(number)  PROVE  p \in Seq(Block)
  <2>1. CASE number = Next_number
    BY <1>1, <1>2, <2>1 DEF Predicted
  <2>2. CASE number # Next_number
    <3> DEFINE b == blueprints[Next_number]
    <3>1. b # None /\ \E i \in {j \in Indices : b.chunks[j] # None /\ ~ b.chunks[j].forced} :
            p = Append(chain, [transactions |-> b.chunks[i].blueprint.transactions,
                               timestamp |-> b.chunks[i].blueprint.timestamp,
                               by |-> b.chunks[i].blueprint.by])
      BY <1>2, <2>2 DEF Predicted
    <3>2. PICK i \in Indices :
            /\ b.chunks[i] # None
            /\ p = Append(chain, [transactions |-> b.chunks[i].blueprint.transactions,
                                  timestamp |-> b.chunks[i].blueprint.timestamp,
                                  by |-> b.chunks[i].blueprint.by])
      BY <3>1
    <3>3. b \in Stored
      BY <1>1, <3>1 DEF TypeOK
    <3>4. b.chunks[i] \in Chunk
      BY <3>2, <3>3 DEF Stored
    <3>5. b.chunks[i].blueprint \in Blueprint
      BY <3>4 DEF Chunk
    <3>6. [transactions |-> b.chunks[i].blueprint.transactions,
           timestamp |-> b.chunks[i].blueprint.timestamp,
           by |-> b.chunks[i].blueprint.by] \in Block
      BY <3>5 DEF Blueprint, Block
    <3> QED  BY <1>1, <3>2, <3>6
  <2> QED  BY <2>1, <2>2
<1>3. \A d \in Offsets : current_timestamp + d \in Nat
  BY Now, TimeAssumption
<1>4. Contents \subseteq Seq(Transaction) /\ << >> \in Seq(Transaction)
  BY TransactionsAssumption
<1>5. blueprint \in Blueprint /\ blueprint.by = sequencer
  <2>1. CASE blueprint \in
          [parent_hash : Predicted(number), transactions : Contents,
           timestamp : {current_timestamp + d : d \in Offsets}, by : {sequencer}]
    BY <1>1, <1>2, <1>3, <1>4, <2>1 DEF Blueprint
  <2>2. CASE blueprint \in
          [parent_hash : {None}, transactions : {<< >>},
           timestamp : {current_timestamp}, by : {sequencer}]
    BY <1>1, <1>4, <2>2, Now DEF Blueprint
  <2> QED  BY <2>1, <2>2 DEF Proposal
<1> QED  BY <1>5, NumbersAre, BoundsAssumption DEF Upcoming

(* A message that stores a blueprint of the sequencer.                     *)
LEMMA SequencerStores ==
  ASSUME TypeOK, NEW number \in Upcoming, NEW blueprint \in Proposal(number),
         sequencer' = sequencer,
         \/ \E c \in Chunking : blueprints' =
              store_sequencer_blueprint(blueprints, number, c[2], c[1], blueprint)
         \/ \E nb \in {c[1] : c \in Chunking} : blueprints' =
              store_slot(blueprints, number, nb, blueprint)
  PROVE  /\ Stores /\ blueprints' = [n \in Numbers |-> blueprints'[n]]
         /\ \A n \in Numbers : n > MaxBlocks => blueprints'[n] = blueprints[n]
<1>1. PICK i \in Indices, nb \in 1 .. MaxChunks :
        \/ blueprints' = store_sequencer_blueprint(blueprints, number, i, nb, blueprint)
        \/ blueprints' = store_slot(blueprints, number, nb, blueprint)
  <2>1. 0 \in Indices
    BY ChunkingAssumption DEF Indices
  <2>2. \A c \in Chunking : c[1] \in 1 .. MaxChunks /\ c[2] \in Indices
    BY ChunkingAssumption
  <2> QED  BY <2>1, <2>2
<1>2. /\ blueprint \in Blueprint /\ blueprint.by = sequencer
      /\ number \in Numbers /\ number <= MaxBlocks
      /\ blueprints \in [Numbers -> Stored \union {None}]
  BY ProposalIsBlueprint DEF TypeOK
<1> DEFINE c == [blueprint |-> blueprint, of |-> nb, forced |-> FALSE]
<1>3. /\ c \in Chunk /\ c.blueprint.by = sequencer /\ ~ c.forced
      /\ Overwrites(blueprints'[number], blueprints[number], c)
      /\ blueprints' = [blueprints EXCEPT ![number] = blueprints'[number]]
  <2>1. c.blueprint.by = sequencer /\ ~ c.forced
    BY <1>2
  <2> HIDE DEF c
  <2> DEFINE d == [blueprint |-> blueprint, of |-> 1, forced |-> TRUE]
             f == store_sequencer_blueprint(blueprints, number, i, nb, blueprint)
             g == store_slot(blueprints, number, nb, blueprint)
             h == store_immediate_blueprint(blueprints, number, blueprint)
  <2>2. /\ c = [blueprint |-> blueprint, of |-> nb, forced |-> FALSE]
        /\ d = [blueprint |-> blueprint, of |-> 1, forced |-> TRUE]
        /\ f = store_sequencer_blueprint(blueprints, number, i, nb, blueprint)
        /\ g = store_slot(blueprints, number, nb, blueprint)
        /\ h = store_immediate_blueprint(blueprints, number, blueprint)
    BY DEF c
  <2>3. blueprints' = f \/ blueprints' = g
    BY <1>1
  <2> HIDE DEF d, f, g, h
  <2>4. /\ c \in Chunk
        /\ Overwrites(f[number], blueprints[number], c)
        /\ f = [blueprints EXCEPT ![number] = f[number]]
        /\ Overwrites(g[number], blueprints[number], c)
        /\ g = [blueprints EXCEPT ![number] = g[number]]
    BY <1>2, <2>2, Storing
  <2> QED  BY <2>1, <2>3, <2>4
<1> HIDE DEF c
<1>4. /\ DOMAIN blueprints' = Numbers
      /\ \A n \in Numbers : n # number => blueprints'[n] = blueprints[n]
      /\ blueprints' = [n \in Numbers |-> blueprints'[n]]
  BY <1>2, <1>3
<1>5. Stores
  BY <1>3, <1>4 DEF Stores
<1> QED  BY <1>2, <1>4, <1>5, NumbersAre, BoundsAssumption

(* A forced blueprint is a blueprint of the kernel.                        *)
LEMMA ForcedIsBlueprint ==
  ASSUME TypeOK, NEW n \in Batches
  PROVE  /\ ForcedBlueprint(n) \in Blueprint /\ ForcedBlueprint(n).by = None
         /\ n \in 1 .. Len(delayed_inbox)
<1> DEFINE txs == [i \in DOMAIN delayed_inbox |-> delayed_inbox[i].hash]
           last == n * MaxForced
           first == last - MaxForced + 1
           end == IF last < Len(txs) THEN last ELSE Len(txs)
<1>1. delayed_inbox \in Seq(Item) /\ n \in 1 .. Len(delayed_inbox) /\ n \in Nat
  BY DEF TypeOK, Batches
<1>2. txs \in Seq(Transaction) /\ Len(txs) = Len(delayed_inbox)
  <2>1. \A i \in 1 .. Len(delayed_inbox) : delayed_inbox[i].hash \in Transaction
    <3>1. \A i \in 1 .. Len(delayed_inbox) : delayed_inbox[i] \in Item
      BY <1>1
    <3> QED  BY <3>1 DEF Item, Transaction
  <2> QED  BY <1>1, <2>1, IsASeq
<1>3. first \in Nat /\ first >= 1 /\ last \in Nat
  <2>1. MaxForced \in Nat /\ n >= 1
    BY <1>1, ForcedAssumption
  <2>2. last \in Nat
    BY <1>1, <2>1
  <2>3. n * MaxForced - MaxForced = (n - 1) * MaxForced
    BY <1>1, <2>1
  <2>4. (n - 1) * MaxForced \in Nat
    BY <1>1, <2>1
  <2> QED  BY <2>1, <2>2, <2>3, <2>4
<1>4. end \in 0 .. Len(txs)
  BY <1>2, <1>3
<1>5. SubSeq(txs, first, end) \in Seq(Transaction)
  <2> HIDE DEF txs, first, end
  <2> QED  BY <1>2, <1>3, <1>4
<1>6. ForcedTimestamp \in Nat
  <2>1. chain \in Seq(Block)
    BY DEF TypeOK, chain, World
  <2>2. HeadTimestamp(chain) \in Nat
    <3>1. chain # << >> => chain[Len(chain)] \in Block
      BY <2>1
    <3> QED  BY <3>1 DEF HeadTimestamp, Block
  <2> QED  BY <2>2, Now DEF ForcedTimestamp
<1>7. ForcedBlueprint(n) = [parent_hash |-> None, by |-> None,
                            transactions |-> SubSeq(txs, first, end),
                            timestamp |-> ForcedTimestamp]
  BY DEF ForcedBlueprint
<1> HIDE DEF txs, first, end
<1> QED  BY <1>1, <1>5, <1>6, <1>7 DEF Blueprint

(* Forced blueprints are stored at the numbers that follow the head.       *)
LEMMA ForcedStores ==
  ASSUME TypeOK, sequencer' = sequencer, fetch_delayed_transactions
  PROVE  /\ Stores /\ blueprints' = [n \in Numbers |-> blueprints'[n]]
         /\ \A n \in Numbers : blueprints'[n] # blueprints[n] =>
              n - Len(chain) \in 1 .. Len(delayed_inbox)
<1>1. /\ DOMAIN blueprints' = Numbers
      /\ blueprints' = [n \in Numbers |-> blueprints'[n]]
      /\ blueprints \in [Numbers -> Stored \union {None}]
  BY DEF fetch_delayed_transactions, TypeOK
<1>2. ASSUME NEW n \in Numbers, blueprints'[n] # blueprints[n]
      PROVE  /\ n - Len(chain) \in 1 .. Len(delayed_inbox)
             /\ \E c \in Chunk :
                  /\ Overwrites(blueprints'[n], blueprints[n], c)
                  /\ c.blueprint.by = IF c.forced THEN None ELSE sequencer
  <2> DEFINE k == n - Len(chain)
             fb == ForcedBlueprint(k)
             d == [blueprint |-> fb, of |-> 1, forced |-> TRUE]
             h == store_immediate_blueprint(blueprints, n, fb)
  <2>1. k \in Batches /\ blueprints'[n] = h[n]
    BY <1>2 DEF fetch_delayed_transactions
  <2>2. fb \in Blueprint /\ fb.by = None /\ k \in 1 .. Len(delayed_inbox)
    BY <2>1, ForcedIsBlueprint
  <2> HIDE DEF k, fb
  <2>3. d.blueprint.by = None /\ d.forced
    BY <2>2
  <2> DEFINE c == [blueprint |-> fb, of |-> 1, forced |-> FALSE]
             f == store_sequencer_blueprint(blueprints, n, 0, 1, fb)
             g == store_slot(blueprints, n, 1, fb)
  <2>4. /\ c = [blueprint |-> fb, of |-> 1, forced |-> FALSE]
        /\ d = [blueprint |-> fb, of |-> 1, forced |-> TRUE]
        /\ f = store_sequencer_blueprint(blueprints, n, 0, 1, fb)
        /\ g = store_slot(blueprints, n, 1, fb)
        /\ h = store_immediate_blueprint(blueprints, n, fb)
    OBVIOUS
  <2> HIDE DEF c, d, f, g, h
  <2>5. 0 \in Indices /\ 1 \in 1 .. MaxChunks
    BY ChunkingAssumption DEF Indices
  <2>6. d \in Chunk /\ Overwrites(h[n], blueprints[n], d)
    BY <1>1, <2>2, <2>4, <2>5, Storing
  <2> QED  BY <2>1, <2>2, <2>3, <2>6 DEF k
<1>3. Stores
  BY <1>1, <1>2 DEF Stores
<1> QED  BY <1>1, <1>2, <1>3

(* The delayed inbox holds as many transactions as it is long.             *)
LEMMA Counting ==
  ASSUME TypeOK, TransferInv
  PROVE  /\ IsFiniteSet(sent) /\ Cardinality(sent) \in Nat
         /\ Cardinality(sent) <= Cardinality(Delayed)
         /\ Cardinality(sent \ Hashes) \in Nat
         /\ Cardinality(sent) = Cardinality(sent \ Hashes) + Len(delayed_inbox)
<1> DEFINE n == Len(delayed_inbox)
           f == [i \in 1 .. n |-> delayed_inbox[i].hash]
<1>1. IsFiniteSet(sent) /\ Cardinality(sent) <= Cardinality(Delayed)
  BY TransactionsAssumption, FS_Subset DEF TypeOK
<1>2. n \in Nat /\ DOMAIN delayed_inbox = 1 .. n
  BY DEF TypeOK
<1>3. f \in Surjection(1 .. n, Hashes) /\ f \in Injection(1 .. n, Hashes)
  <2>1. f \in [1 .. n -> Hashes]
    BY <1>2 DEF Hashes
  <2>2. \A t \in Hashes : \E i \in 1 .. n : f[i] = t
    BY <1>2 DEF Hashes
  <2>3. \A i, j \in 1 .. n : f[i] = f[j] => i = j
    BY <1>2 DEF TransferInv
  <2> HIDE DEF f, n
  <2>4. DOMAIN f = 1 .. n
    BY <2>1
  <2> QED  BY <2>1, <2>2, <2>3, <2>4 DEF Surjection, Injection, IsInjective
<1> HIDE DEF f, n
<1>4. IsFiniteSet(1 .. n) /\ Cardinality(1 .. n) = n
  BY <1>2, FS_Interval
<1>5. Cardinality(Hashes) = n
  BY <1>3, <1>4, FS_Surjection
<1>6. sent \intersect Hashes = Hashes
  BY DEF TransferInv
<1>7. /\ IsFiniteSet(sent \ Hashes)
      /\ Cardinality(sent \ Hashes) = Cardinality(sent) - n
  BY <1>1, <1>5, <1>6, FS_Difference
<1>8. Cardinality(sent) \in Nat /\ Cardinality(sent \ Hashes) \in Nat
  BY <1>1, <1>7, FS_CardinalityType
<1> QED  BY <1>1, <1>2, <1>7, <1>8 DEF n

(* More transactions that left the delayed inbox, more numbers.            *)
LEMMA LimitGrows ==
  ASSUME TypeOK, TransferInv, sent' \subseteq Delayed,
         sent \ Hashes \subseteq sent' \ Hashes'
  PROVE  Limit \in Nat /\ Limit' \in Nat /\ Limit <= Limit'
<1>1. IsFiniteSet(sent') /\ IsFiniteSet(sent' \ Hashes')
  BY TransactionsAssumption, FS_Subset, FS_Difference
<1>2. Cardinality(sent' \ Hashes') \in Nat
  BY <1>1, FS_CardinalityType
<1>3. Cardinality(sent \ Hashes) <= Cardinality(sent' \ Hashes')
  BY <1>1, FS_Subset
<1> QED  BY <1>2, <1>3, Counting, BoundsAssumption DEF Limit

(***************************************************************************)
(* Reading the next blueprint                                              *)
(***************************************************************************)

(* A blueprint that is read is a forced one, or was found valid.           *)
LEMMA ReadNext ==
  ASSUME TypeOK, ChunkInv, NextBlueprint.status = "next",
         NEW b, b = blueprints[Next_number], NEW p, p = NextBlueprint.blueprint
  PROVE  /\ b \in Stored /\ b.chunks[0] \in Chunk
         /\ p = b.chunks[0].blueprint /\ p \in Blueprint
         /\ \/ IsForced(b) /\ p.by = None
            \/ /\ ~ IsForced(b) /\ p.by = sequencer
               /\ HeaderIsValid(p, chain, current_timestamp + Lookahead)
               /\ DelayedAreFetched(p, b.nb_chunks, Hashes)
               /\ Decodes(b) /\ ~ ChunkMissing(b)
         /\ AvailableChunks(b) = b.nb_chunks
<1> DEFINE r == read_next_blueprint(b, chain, current_timestamp + Lookahead, Hashes)
<1>1. r = NextBlueprint
  BY DEF NextBlueprint
<1>2. r.status = "next" /\ p = r.blueprint
  BY <1>1
<1>3. /\ b # None
      /\ ~ (AvailableChunks(b) < b.nb_chunks)
      /\ ~ (AvailableChunks(b) > b.nb_chunks)
      /\ p = b.chunks[0].blueprint
      /\ \/ IsForced(b)
         \/ /\ ~ IsForced(b) /\ ~ ChunkMissing(b) /\ Decodes(b)
            /\ HeaderIsValid(p, chain, current_timestamp + Lookahead)
            /\ DelayedAreFetched(p, b.nb_chunks, Hashes)
  BY <1>2 DEF read_next_blueprint
<1> HIDE DEF r
<1>4. b \in Stored /\ Next_number \in Numbers
  BY <1>3 DEF TypeOK
<1>5. AvailableChunks(b) = b.nb_chunks
  <2>1. b.nb_chunks \in Nat
    BY <1>4, ChunkingAssumption DEF Stored
  <2>2. AvailableChunks(b) \in Nat
    <3>1. IsFiniteSet(Indices)
      BY ChunkingAssumption, FS_Interval DEF Indices
    <3>2. IsFiniteSet({i \in Indices : b.chunks[i] # None})
      BY <3>1, FS_Subset
    <3> QED  BY <3>2, FS_CardinalityType DEF AvailableChunks
  <2> QED  BY <1>3, <2>1, <2>2
<1>6. b.chunks[0] # None /\ 0 \in Indices
  <2>1. 0 \in Indices
    BY ChunkingAssumption DEF Indices
  <2>2. CASE IsForced(b)
    BY <2>1, <2>2 DEF IsForced
  <2>3. CASE ~ ChunkMissing(b)
    <3>1. 0 \in 0 .. b.nb_chunks - 1
      BY <1>4, ChunkingAssumption DEF Stored
    <3> QED  BY <2>1, <2>3, <3>1 DEF ChunkMissing
  <2> QED  BY <1>3, <2>2, <2>3
<1>7. b.chunks[0] \in Chunk
  BY <1>4, <1>6 DEF Stored
<1>8. p \in Blueprint
  BY <1>3, <1>7 DEF Chunk
<1>9. p.by = IF b.chunks[0].forced THEN None ELSE sequencer
  BY <1>3, <1>4, <1>6 DEF ChunkInv
<1>10. IsForced(b) <=> b.chunks[0].forced
  BY <1>6 DEF IsForced
<1> QED  BY <1>3, <1>4, <1>5, <1>7, <1>8, <1>9, <1>10

(***************************************************************************)
(* Steps                                                                   *)
(***************************************************************************)
USE DEF l1, memory, versions, governance, blocks

(* The constants and the values that stay in TypeOK through a step.        *)
LEMMA TypeStepQuiet ==
  ASSUME Inv, \/ Level \/ Migrate \/ fallback_backup_kernel \/ NoMigration \/ Info
              \/ \E tx \in Delayed : parse_new_chunk(tx)
              \/ force_kernel_upgrade
              \/ \E d \in Delays : store_kernel_upgrade(d)
              \/ \E d \in Delays, i \in 2 .. Len(Sequencers) :
                   store_sequencer_upgrade(Sequencers[i], d)
              \/ ResumeBlock \/ NoBlueprint \/ UpgradeKernel
  PROVE  TypeOK'
<1> USE DEF Inv
<1>1. NoRun \in [first_block : BOOLEAN, first_transaction : BOOLEAN, resumed : BOOLEAN]
  BY DEF NoRun
<1>2. CASE Level
  BY <1>2, BoundsAssumption DEF Level, TypeOK, Next_number, chain
<1>3. CASE Migrate
  BY <1>1, <1>3 DEF Migrate, Reboot, TypeOK, Next_number, chain
<1>4. CASE fallback_backup_kernel
  BY <1>1, <1>4 DEF fallback_backup_kernel, Reboot, TypeOK, Next_number, chain
<1>5. CASE NoMigration
  BY <1>5 DEF NoMigration, TypeOK, Next_number, chain
<1>6. CASE Info
  BY <1>6 DEF Info, TypeOK, Next_number, chain
<1>7. CASE \E tx \in Delayed : parse_new_chunk(tx)
  <2>1. PICK tx \in Delayed : parse_new_chunk(tx)
    BY <1>7
  <2>2. [tx |-> tx, left |-> 2] \in Transfer
    BY DEF Transfer
  <2> QED
    BY <1>1, <2>1, <2>2, BoundsAssumption
    DEF parse_new_chunk, Message, Continue, Reboot, TypeOK, Next_number, chain
<1>8. CASE force_kernel_upgrade
  <2>1. kernel_upgrade.kernel \in DOMAIN Known
    BY <1>8 DEF force_kernel_upgrade, TypeOK, KernelUpgrade
  <2> QED
    BY <1>8, <2>1, BoundsAssumption
    DEF force_kernel_upgrade, upgrade, Message, TypeOK, Next_number, chain
<1>9. CASE \E d \in Delays : store_kernel_upgrade(d)
  <2>1. PICK d \in Delays : store_kernel_upgrade(d)
    BY <1>9
  <2>2. kernel_upgrade' \in KernelUpgrade
    <3>1. current_timestamp + d \in Nat
      BY TimeAssumption, Now
    <3> QED  BY <2>1, <3>1 DEF store_kernel_upgrade, KernelUpgrade
  <2> QED
    BY <2>1, <2>2, BoundsAssumption
    DEF store_kernel_upgrade, Message, TypeOK, Next_number, chain
<1>10. CASE \E d \in Delays, i \in 2 .. Len(Sequencers) :
             store_sequencer_upgrade(Sequencers[i], d)
  <2>1. PICK d \in Delays, i \in 2 .. Len(Sequencers) :
          store_sequencer_upgrade(Sequencers[i], d)
    BY <1>10
  <2>2. sequencer_upgrade' \in SequencerUpgrade
    <3>1. current_timestamp + d \in Nat
      BY TimeAssumption, Now
    <3>2. Sequencers[i] \in Keys
      BY SequencersAssumption
    <3> QED  BY <2>1, <3>1, <3>2 DEF store_sequencer_upgrade, SequencerUpgrade
  <2> QED
    BY <2>1, <2>2, BoundsAssumption
    DEF store_sequencer_upgrade, Message, TypeOK, Next_number, chain
<1>11. CASE ResumeBlock
  <2>1. StoredBip \in BlockInProgress /\ StoredBip # None
    BY <1>11 DEF ResumeBlock, StoredBip, TypeOK, World
  <2> QED  BY <1>11, <2>1 DEF ResumeBlock, TypeOK, Next_number, chain
<1>12. CASE NoBlueprint
  BY <1>1, <1>12 DEF NoBlueprint, Finished, TypeOK, Next_number, chain
<1>13. CASE UpgradeKernel
  <2>1. kernel_upgrade.kernel \in DOMAIN Known
    BY <1>13 DEF UpgradeKernel, UpgradeIsDue, TypeOK, KernelUpgrade
  <2> QED
    BY <1>1, <1>13, <2>1
    DEF UpgradeKernel, upgrade, Reboot, TypeOK, Next_number, chain
<1> QED
  BY <1>2, <1>3, <1>4, <1>5, <1>6, <1>7, <1>8, <1>9, <1>10, <1>11, <1>12, <1>13

(* What save_transaction makes of the delayed inbox.                       *)
LEMMA Saving ==
  ASSUME TypeOK, NEW tx \in Delayed, save_transaction(tx)
  PROVE  /\ delayed_inbox' \in Seq(Item)
         /\ Hashes' = Hashes \union {tx}
         /\ \/ tx \in Hashes /\ delayed_inbox' = delayed_inbox
            \/ tx \notin Hashes
               /\ delayed_inbox' = Append(delayed_inbox,
                    [hash |-> tx, timestamp |-> current_timestamp, level |-> l1_level])
<1>1. CASE tx \in Hashes
  BY <1>1 DEF save_transaction, Hashes, TypeOK
<1>2. CASE tx \notin Hashes
  <2> DEFINE item == [hash |-> tx, timestamp |-> current_timestamp, level |-> l1_level]
             n == Len(delayed_inbox)
  <2>1. item \in Item /\ item.hash = tx
    BY Now DEF Item
  <2>2. delayed_inbox \in Seq(Item) /\ delayed_inbox' = Append(delayed_inbox, item)
    BY <1>2 DEF save_transaction, TypeOK
  <2> HIDE DEF item
  <2>3. /\ delayed_inbox' \in Seq(Item) /\ n \in Nat
        /\ DOMAIN delayed_inbox = 1 .. n /\ DOMAIN delayed_inbox' = 1 .. n + 1
        /\ \A i \in 1 .. n : delayed_inbox'[i] = delayed_inbox[i]
        /\ delayed_inbox'[n + 1] = item
    BY <2>1, <2>2
  <2>4. \A h : h \in Hashes' <=> h \in Hashes \/ h = tx
    BY <2>1, <2>3 DEF Hashes
  <2> QED  BY <1>2, <2>2, <2>3, <2>4 DEF item
<1> QED  BY <1>1, <1>2

(* The steps of stage one that store something.                            *)
LEMMA TypeStepStore ==
  ASSUME Inv, \/ \E tx \in Delayed : DelayedInput(tx)
              \/ parse_chunk \/ EndOfInbox
              \/ \E number \in Upcoming : \E blueprint \in Proposal(number) :
                   \/ \E c \in Chunking : SequencerBlueprint(number, c, blueprint)
                   \/ \E nb \in {c[1] : c \in Chunking} :
                        DalSlotImportSignals(number, nb, blueprint)
  PROVE  TypeOK'
<1> USE DEF Inv
<1>1. NoRun \in [first_block : BOOLEAN, first_transaction : BOOLEAN, resumed : BOOLEAN]
  BY DEF NoRun
<1>2. CASE \E tx \in Delayed : DelayedInput(tx)
  <2>1. PICK tx \in Delayed : DelayedInput(tx)
    BY <1>2
  <2>2. delayed_inbox' \in Seq(Item)
    BY <2>1, Saving DEF DelayedInput
  <2> QED
    BY <1>1, <2>1, <2>2, BoundsAssumption
    DEF DelayedInput, Message, Continue, Reboot, TypeOK, Next_number, chain
<1>3. CASE parse_chunk
  <2>1. \A t \in Transfer \union {None} : OneLess(t) \in Transfer \union {None}
    BY DEF OneLess, Transfer
  <2>2. sending \in Transfer /\ buffer \in Transfer \union {None}
    BY <1>3 DEF parse_chunk, TypeOK
  <2>3. sending.tx \in Delayed /\ (buffer # None => buffer.tx \in Delayed)
    BY <2>2 DEF Transfer
  <2>4. delayed_inbox' \in Seq(Item)
    <3>1. CASE buffer # None /\ buffer.left = 1
      BY <1>3, <2>3, <3>1, Saving DEF parse_chunk
    <3>2. CASE ~ (buffer # None /\ buffer.left = 1)
      BY <1>3, <3>2 DEF parse_chunk, TypeOK
    <3> QED  BY <3>1, <3>2
  <2>5. sending' \in Transfer \union {None} /\ OneLess(buffer) \in Transfer \union {None}
    BY <1>3, <2>1, <2>2 DEF parse_chunk
  <2>6. sent' \subseteq Delayed
    BY <1>3, <2>3 DEF parse_chunk, TypeOK
  <2> QED
    BY <1>1, <1>3, <2>4, <2>5, <2>6
    DEF parse_chunk, Continue, Reboot, TypeOK, Next_number, chain
<1>4. CASE EndOfInbox
  <2>1. BlueprintsOK' /\ delayed_inbox' \in Seq(Item)
    <3>1. CASE first_has_timed_out
      <4>1. BlueprintsOK'
        BY <1>4, <3>1, ForcedStores, StoresKeep DEF EndOfInbox, BlueprintsOK, TypeOK
      <4>2. delayed_inbox' = << >>
        BY <1>4, <3>1 DEF EndOfInbox, fetch_delayed_transactions
      <4> QED  BY <4>1, <4>2
    <3>2. CASE ~ first_has_timed_out
      BY <1>4, <3>2 DEF EndOfInbox, BlueprintsOK, TypeOK
    <3> QED  BY <3>1, <3>2
  <2> QED
    BY <1>1, <1>4, <2>1
    DEF EndOfInbox, Reboot, BlueprintsOK, TypeOK, Next_number, chain
<1>5. ASSUME NEW number \in Upcoming, NEW blueprint \in Proposal(number),
             \/ \E c \in Chunking : SequencerBlueprint(number, c, blueprint)
             \/ \E nb \in {c[1] : c \in Chunking} :
                  DalSlotImportSignals(number, nb, blueprint)
      PROVE  TypeOK'
  <2>1. /\ Message("blueprint") \/ Message("dal")
        /\ Continue(buffer)
        /\ UNCHANGED <<sent, sending, delayed_inbox, versions, governance>>
        /\ \/ \E c \in Chunking : blueprints' =
                store_sequencer_blueprint(blueprints, number, c[2], c[1], blueprint)
           \/ \E nb \in {c[1] : c \in Chunking} : blueprints' =
                store_slot(blueprints, number, nb, blueprint)
    BY <1>5 DEF SequencerBlueprint, DalSlotImportSignals
  <2>2. BlueprintsOK'
    <3>1. Stores /\ blueprints' = [n \in Numbers |-> blueprints'[n]]
      BY <2>1, SequencerStores
    <3> QED  BY <3>1, StoresKeep DEF BlueprintsOK, TypeOK
  <2> QED
    BY <1>1, <2>1, <2>2, BoundsAssumption
    DEF Message, Continue, Reboot, BlueprintsOK, TypeOK, Next_number, chain
<1> QED  BY <1>2, <1>3, <1>4, <1>5

(* A number whose blueprint goes.                                          *)
LEMMA Dropping ==
  ASSUME BlueprintsOK, NEW m \in Nat, blueprints' = drop_blueprint(blueprints, m)
  PROVE  /\ BlueprintsOK'
         /\ \A n \in Numbers : /\ n # m => blueprints'[n] = blueprints[n]
                               /\ blueprints'[n] # None => blueprints'[n] = blueprints[n]
BY DEF BlueprintsOK, drop_blueprint

(* In the loop of compute there are a block in progress and a copy of the  *)
(* world it is computed on.                                                *)
LEMMA Computing ==
  ASSUME Inv, pc = "compute"
  PROVE  /\ bip \in BlockInProgress /\ bip # None /\ NextBlock(bip)
         /\ bip.number = Next_number /\ bip.number \in Nat
         /\ tmp \in World /\ tmp.chain = chain /\ chain \in Seq(Block)
         /\ run.resumed \/ tmp.bip = None
<1>1. bip \in BlockInProgress /\ bip # None /\ tmp \in World
  BY DEF Inv, BlockInv, TypeOK
<1>2. bip.number \in Nat
  BY <1>1 DEF BlockInProgress
<1>3. tmp # None
  BY <1>1, NoneAssumption
<1> QED  BY <1>1, <1>2, <1>3 DEF Inv, BlockInv, NextBlock, TypeOK, World, chain

(* The head of the queue of a block in progress.                           *)
LEMMA Queue ==
  ASSUME NEW b \in BlockInProgress, b.queue # << >>
  PROVE  /\ Head(b.queue) \in Transaction /\ Tail(b.queue) \in Seq(Transaction)
         /\ [b EXCEPT !.queue = Tail(@)] \in BlockInProgress
         /\ [b EXCEPT !.queue = Tail(@), !.done = Append(@, Head(b.queue))]
              \in BlockInProgress
<1>1. b.queue \in Seq(Transaction) /\ b.done \in Seq(Transaction)
  BY DEF BlockInProgress
<1>2. Head(b.queue) \in Transaction /\ Tail(b.queue) \in Seq(Transaction)
  BY <1>1
<1>3. Append(b.done, Head(b.queue)) \in Seq(Transaction)
  BY <1>1, <1>2
<1> QED  BY <1>2, <1>3 DEF BlockInProgress

(* The steps of stage two.                                                 *)
LEMMA TypeStepProduce ==
  ASSUME Inv, \/ possible_sequencer_upgrade \/ invalidate_blueprint \/ StartBlock
              \/ ApplyTransaction \/ RetryTransaction \/ DiscardTransaction
              \/ revert_block \/ promote_block
  PROVE  TypeOK'
<1> USE DEF Inv
<1>1. NoRun \in [first_block : BOOLEAN, first_transaction : BOOLEAN, resumed : BOOLEAN]
  BY DEF NoRun
<1>2. BlueprintsOK
  BY DEF BlueprintsOK, TypeOK
<1>3. CASE possible_sequencer_upgrade
  <2>1. BlueprintsOK'
    BY <1>2, <1>3
    DEF possible_sequencer_upgrade, clear_all_blueprint, BlueprintsOK
  <2>2. sequencer' \in Keys
    BY <1>3 DEF possible_sequencer_upgrade, TypeOK, SequencerUpgrade
  <2> QED
    BY <1>3, <2>1, <2>2
    DEF possible_sequencer_upgrade, BlueprintsOK, TypeOK, Next_number, chain
<1>4. CASE invalidate_blueprint
  <2>1. Next_number \in Nat
    BY NumbersAre DEF TypeOK
  <2>2. BlueprintsOK'
    BY <1>2, <1>4, <2>1, Dropping DEF invalidate_blueprint
  <2> QED
    BY <1>1, <1>4, <2>2
    DEF invalidate_blueprint, Finished, BlueprintsOK, TypeOK, Next_number, chain
<1>5. CASE StartBlock
  <2> DEFINE p == NextBlueprint.blueprint
  <2>1. p \in Blueprint
    BY <1>5, ReadNext DEF StartBlock
  <2> HIDE DEF p
  <2>2. Next_number \in Nat
    BY NumbersAre DEF TypeOK
  <2>3. << >> \in Seq(Transaction)
    OBVIOUS
  <2>4. bip' = [number |-> Next_number, parent_hash |-> p.parent_hash,
                queue |-> p.transactions, done |-> << >>,
                timestamp |-> p.timestamp, by |-> p.by]
    BY <1>5 DEF StartBlock, p
  <2>5. bip' \in BlockInProgress /\ bip' # None
    <3>1. bip' \in BlockInProgress
      BY <2>1, <2>2, <2>3, <2>4 DEF BlockInProgress, Blueprint
    <3> QED  BY <3>1, NoneAssumption
  <2> QED
    BY <1>5, <2>5 DEF StartBlock, TypeOK, Next_number, chain
<1>6. CASE ApplyTransaction
  <2>1. pc = "compute" /\ bip.queue # << >>
    BY <1>6 DEF ApplyTransaction
  <2>2. bip \in BlockInProgress /\ tmp \in World
    BY <2>1, Computing
  <2>3. bip' \in BlockInProgress /\ bip' # None /\ Head(bip.queue) \in Transaction
    <3>1. bip' \in BlockInProgress /\ Head(bip.queue) \in Transaction
      BY <1>6, <2>1, <2>2, Queue DEF ApplyTransaction
    <3> QED  BY <3>1, NoneAssumption
  <2>4. tmp' \in World
    <3>1. tmp.applied \in Seq(Transaction)
      BY <2>2 DEF World
    <3>2. Append(tmp.applied, Head(bip.queue)) \in Seq(Transaction)
      BY <2>3, <3>1
    <3> QED  BY <1>6, <2>2, <3>2 DEF ApplyTransaction, World
  <2> QED  BY <1>6, <2>3, <2>4 DEF ApplyTransaction, TypeOK, Next_number, chain
<1>7. CASE RetryTransaction
  <2>1. pc = "compute"
    BY <1>7 DEF RetryTransaction
  <2>2. tmp' \in World
    BY <1>7, <2>1, Computing DEF RetryTransaction, World
  <2> QED
    BY <1>1, <1>7, <2>2 DEF RetryTransaction, Reboot, TypeOK, Next_number, chain
<1>8. CASE DiscardTransaction
  <2>1. pc = "compute" /\ bip.queue # << >>
    BY <1>8 DEF DiscardTransaction
  <2>2. [bip EXCEPT !.queue = Tail(@)] \in BlockInProgress
    BY <2>1, Computing, Queue
  <2>3. tmp' \in World
    BY <1>8, <2>1, <2>2, Computing DEF DiscardTransaction, World
  <2> QED
    BY <1>1, <1>8, <2>3 DEF DiscardTransaction, Reboot, TypeOK, Next_number, chain
<1>9. CASE revert_block
  <2>1. bip.number \in Nat
    BY <1>9, Computing DEF revert_block
  <2>2. BlueprintsOK'
    BY <1>2, <1>9, <2>1, Dropping DEF revert_block
  <2> QED
    BY <1>1, <1>9, <2>2
    DEF revert_block, Reboot, BlueprintsOK, TypeOK, Next_number, chain
<1>10. CASE promote_block
  <2>1. /\ bip \in BlockInProgress /\ NextBlock(bip) /\ bip.number = Next_number
        /\ bip.number \in Nat
        /\ tmp \in World /\ tmp.chain = chain /\ chain \in Seq(Block)
    BY <1>10, Computing DEF promote_block
  <2>2. BlueprintsOK'
    BY <1>2, <1>10, <2>1, Dropping DEF promote_block
  <2> DEFINE b == [transactions |-> bip.done, timestamp |-> bip.timestamp, by |-> bip.by]
  <2>3. b \in Block
    BY <2>1 DEF BlockInProgress, Block
  <2> HIDE DEF b
  <2>4. Append(chain, b) \in Seq(Block) /\ Len(Append(chain, b)) = Len(chain) + 1
    BY <2>1, <2>3
  <2>5. world' \in World /\ world'.chain = Append(chain, b)
    <3>1. BipAtPromotion \in BlockInProgress \union {None} /\ tmp.applied \in Seq(Transaction)
      BY <2>1 DEF BipAtPromotion, World
    <3>2. world' = [chain |-> Append(chain, b), applied |-> tmp.applied,
                    bip |-> BipAtPromotion]
      BY <1>10, <2>1 DEF promote_block, b
    <3> QED  BY <2>4, <3>1, <3>2 DEF World
  <2>6. Next_number' \in Numbers
    <3>1. Next_number \in Numbers /\ Next_number <= Limit
      BY <2>1 DEF TypeOK, NextBlock, NumberInv
    <3>2. Limit <= MaxBlocks + Cardinality(Delayed) /\ Limit \in Nat
      BY Counting, NumbersAre, BoundsAssumption DEF Limit, TypeOK
    <3>3. Next_number' = Next_number + 1
      BY <2>1, <2>4, <2>5 DEF Next_number, chain
    <3> QED  BY <3>1, <3>2, <3>3, NumbersAre, BoundsAssumption
  <2>7. delayed_inbox' \in Seq(Item)
    BY <1>10, WithoutSelects DEF promote_block, clean_delayed_transactions, TypeOK
  <2>8. run' \in [first_block : BOOLEAN, first_transaction : BOOLEAN, resumed : BOOLEAN]
    BY <1>10 DEF promote_block, TypeOK
  <2> QED
    BY <1>10, <2>2, <2>5, <2>6, <2>7, <2>8 DEF promote_block, BlueprintsOK, TypeOK
<1> QED  BY <1>3, <1>4, <1>5, <1>6, <1>7, <1>8, <1>9, <1>10

(* Cleaning the delayed inbox: what is left was there, once.               *)
LEMMA Cleaning ==
  ASSUME TypeOK, TransferInv, NEW done, delayed_inbox' = Without(delayed_inbox, done)
  PROVE  /\ \A i, j \in DOMAIN delayed_inbox' :
              delayed_inbox'[i].hash = delayed_inbox'[j].hash => i = j
         /\ Hashes' = Hashes \ done
<1> DEFINE w == delayed_inbox'
           n == Len(delayed_inbox)
<1>1. w \in Seq(Item) /\ delayed_inbox \in Seq(Item)
  BY WithoutSelects DEF TypeOK
<1>2. PICK m \in [1 .. Len(w) -> 1 .. n] :
        /\ \A j, k \in 1 .. Len(w) : j < k => m[j] < m[k]
        /\ \A k \in 1 .. Len(w) : w[k] = delayed_inbox[m[k]]
        /\ \A i \in 1 .. n :
             delayed_inbox[i].hash \notin done <=> \E k \in 1 .. Len(w) : m[k] = i
  <2>1. Selects(w, n, delayed_inbox, done)
    BY <1>1, WithoutSelects
  <2> HIDE DEF w, n
  <2> QED  BY <2>1 DEF Selects
<1>3. /\ Len(w) \in Nat /\ DOMAIN w = 1 .. Len(w) /\ n \in Nat
      /\ DOMAIN delayed_inbox = 1 .. n
  BY <1>1
<1> HIDE DEF w, n
<1>4. ASSUME NEW i \in 1 .. Len(w), NEW j \in 1 .. Len(w), w[i].hash = w[j].hash
      PROVE  i = j
  <2>1. m[i] = m[j]
    BY <1>2, <1>3, <1>4 DEF TransferInv
  <2>2. ~ (i < j) /\ ~ (j < i)
    BY <1>2, <1>3, <2>1
  <2> QED  BY <1>3, <2>2
<1>5. \A h : h \in Hashes' <=> h \in Hashes /\ h \notin done
  <2>1. Hashes' = {w[k].hash : k \in 1 .. Len(w)}
    BY <1>3 DEF Hashes, w
  <2>2. Hashes = {delayed_inbox[i].hash : i \in 1 .. n}
    BY <1>3 DEF Hashes
  <2>3. ASSUME NEW h \in Hashes'  PROVE  h \in Hashes /\ h \notin done
    <3>1. PICK k \in 1 .. Len(w) : h = w[k].hash
      BY <2>1, <2>3
    <3>2. m[k] \in 1 .. n /\ h = delayed_inbox[m[k]].hash
      BY <1>2, <3>1
    <3>3. h \notin done
      BY <1>2, <3>2
    <3> QED  BY <2>2, <3>2, <3>3
  <2>4. ASSUME NEW h \in Hashes, h \notin done  PROVE  h \in Hashes'
    <3>1. PICK i \in 1 .. n : h = delayed_inbox[i].hash
      BY <2>2, <2>4
    <3>2. PICK k \in 1 .. Len(w) : m[k] = i
      BY <1>2, <2>4, <3>1
    <3> QED  BY <1>2, <2>1, <3>1, <3>2
  <2> QED  BY <2>3, <2>4
<1>6. Hashes' = Hashes \ done
  BY <1>5
<1> QED  BY <1>3, <1>4, <1>6 DEF w

(* A step that reads no delayed transaction.                               *)
LEMMA TransferKept ==
  ASSUME TransferInv, UNCHANGED <<sending, sent, delayed_inbox>>,
         buffer' = None \/ (buffer' = buffer /\ (pc' = "inbox" \/ pc # "inbox"))
  PROVE  TransferInv'
BY DEF TransferInv, Hashes

(* One more transaction in the delayed inbox.                              *)
LEMMA Saved ==
  ASSUME TypeOK, TransferInv, NEW tx \in Delayed, save_transaction(tx)
  PROVE  \A i, j \in DOMAIN delayed_inbox' :
           delayed_inbox'[i].hash = delayed_inbox'[j].hash => i = j
<1>1. CASE tx \in Hashes
  BY <1>1, Saving DEF TransferInv
<1>2. CASE tx \notin Hashes
  <2> DEFINE item == [hash |-> tx, timestamp |-> current_timestamp, level |-> l1_level]
             n == Len(delayed_inbox)
  <2>1. delayed_inbox' = Append(delayed_inbox, item) /\ item.hash = tx /\ item \in Item
    BY <1>2, Saving, Now DEF Item
  <2> HIDE DEF item
  <2>2. /\ n \in Nat /\ DOMAIN delayed_inbox = 1 .. n /\ DOMAIN delayed_inbox' = 1 .. n + 1
        /\ \A i \in 1 .. n : delayed_inbox'[i] = delayed_inbox[i]
        /\ delayed_inbox'[n + 1] = item
    BY <2>1 DEF TypeOK
  <2>3. \A i \in 1 .. n : delayed_inbox[i].hash # tx
    BY <1>2, <2>2 DEF Hashes
  <2>4. \A i \in 1 .. n + 1 : i = n + 1 \/ i \in 1 .. n
    BY <2>2
  <2> HIDE DEF n
  <2> QED  BY <2>1, <2>2, <2>3, <2>4 DEF TransferInv
<1> QED  BY <1>1, <1>2

(* Steps keep the transfers and the delayed inbox in order.                *)
LEMMA TransferStep ==
  ASSUME Inv, Next
  PROVE  TransferInv'
<1> USE DEF Inv
<1>1. CASE Level
  BY <1>1 DEF Level, TransferInv, Hashes
<1>2. CASE \E tx \in Delayed : DelayedInput(tx)
  <2>1. PICK tx \in Delayed : DelayedInput(tx)
    BY <1>2
  <2>2. save_transaction(tx) /\ Message("delayed") /\ Continue(buffer)
        /\ sent' = sent \union {tx} /\ sending' = sending
    BY <2>1 DEF DelayedInput
  <2>3. Hashes' = Hashes \union {tx}
    BY <2>2, Saving
  <2>4. \A i, j \in DOMAIN delayed_inbox' :
           delayed_inbox'[i].hash = delayed_inbox'[j].hash => i = j
    BY <2>2, Saved
  <2>5. sending = None /\ ((buffer' = buffer /\ pc' = "inbox") \/ buffer' = None)
    BY <2>2 DEF Message, Continue, Reboot
  <2> QED  BY <2>2, <2>3, <2>4, <2>5 DEF TransferInv
<1>3. CASE \E tx \in Delayed : parse_new_chunk(tx)
  <2>1. PICK tx \in Delayed : parse_new_chunk(tx)
    BY <1>3
  <2>2. /\ sending' = [tx |-> tx, left |-> 2] /\ tx \notin sent
        /\ (buffer' = sending' /\ pc' = "inbox") \/ buffer' = None
        /\ UNCHANGED <<sent, delayed_inbox>>
    BY <2>1 DEF parse_new_chunk, Continue, Reboot
  <2> QED  BY <2>2 DEF TransferInv, Hashes
<1>4. CASE parse_chunk
  <2>1. /\ sending \in Transfer /\ sending # None /\ sending.tx \in Delayed
        /\ sending.tx \notin sent
        /\ sending' = OneLess(sending)
        /\ sent' = IF sending' = None THEN sent \union {sending.tx} ELSE sent
        /\ (buffer' = OneLess(buffer) /\ pc' = "inbox") \/ buffer' = None
    BY <1>4 DEF parse_chunk, Continue, Reboot, TypeOK, TransferInv, Transfer
  <2>2. sending' # None => sending'.tx = sending.tx
    BY <2>1 DEF OneLess, Transfer
  <2>3. buffer' = None \/ (buffer' = sending' /\ pc' = "inbox")
    BY <2>1 DEF TransferInv, OneLess
  <2>4. sending' # None => sending'.tx \notin sent'
    BY <2>1, <2>2
  <2>5. CASE buffer # None /\ buffer.left = 1
    <3>1. buffer = sending /\ sending' = None /\ save_transaction(sending.tx)
      BY <1>4, <2>1, <2>5 DEF parse_chunk, TransferInv, OneLess
    <3>2. Hashes' = Hashes \union {sending.tx}
      BY <2>1, <3>1, Saving
    <3>3. \A i, j \in DOMAIN delayed_inbox' :
            delayed_inbox'[i].hash = delayed_inbox'[j].hash => i = j
      BY <2>1, <3>1, Saved
    <3> QED  BY <2>1, <2>3, <2>4, <3>1, <3>2, <3>3 DEF TransferInv
  <2>6. CASE ~ (buffer # None /\ buffer.left = 1)
    <3>1. delayed_inbox' = delayed_inbox /\ Hashes' = Hashes
      BY <1>4, <2>6 DEF parse_chunk, Hashes
    <3> QED  BY <2>1, <2>3, <2>4, <3>1 DEF TransferInv
  <2> QED  BY <2>5, <2>6
<1>5. CASE EndOfInbox
  <2>1. CASE first_has_timed_out
    <3>1. delayed_inbox' = << >> /\ buffer' = None /\ UNCHANGED <<sending, sent>>
      BY <1>5, <2>1 DEF EndOfInbox, fetch_delayed_transactions, Reboot
    <3> QED  BY <3>1 DEF TransferInv, Hashes
  <2>2. CASE ~ first_has_timed_out
    BY <1>5, <2>2, TransferKept DEF EndOfInbox, Reboot
  <2> QED  BY <2>1, <2>2
<1>6. CASE promote_block
  <2>1. delayed_inbox' = Without(delayed_inbox, ToSet(bip.done))
    BY <1>6 DEF promote_block, clean_delayed_transactions
  <2>2. UNCHANGED <<sending, sent, buffer>> /\ pc # "inbox"
    BY <1>6 DEF promote_block
  <2>3. /\ Hashes' \subseteq Hashes
        /\ \A i, j \in DOMAIN delayed_inbox' :
             delayed_inbox'[i].hash = delayed_inbox'[j].hash => i = j
    BY <2>1, Cleaning
  <2> QED  BY <2>2, <2>3 DEF TransferInv
<1>7. CASE Migrate \/ fallback_backup_kernel \/ NoMigration \/ Info
  BY <1>7, TransferKept DEF Migrate, fallback_backup_kernel, NoMigration, Info, Reboot
<1>8. CASE force_kernel_upgrade \/ \E d \in Delays :
             \/ store_kernel_upgrade(d)
             \/ \E i \in 2 .. Len(Sequencers) : store_sequencer_upgrade(Sequencers[i], d)
  BY <1>8, TransferKept
  DEF force_kernel_upgrade, store_kernel_upgrade, store_sequencer_upgrade, Message
<1>9. CASE \E number \in Upcoming : \E blueprint \in Proposal(number) :
             \/ \E c \in Chunking : SequencerBlueprint(number, c, blueprint)
             \/ \E nb \in {c[1] : c \in Chunking} :
                  DalSlotImportSignals(number, nb, blueprint)
  BY <1>9, TransferKept
  DEF SequencerBlueprint, DalSlotImportSignals, Message, Continue, Reboot
<1>10. CASE ResumeBlock \/ possible_sequencer_upgrade \/ NoBlueprint
             \/ invalidate_blueprint \/ UpgradeKernel \/ StartBlock
  BY <1>10, TransferKept
  DEF ResumeBlock, possible_sequencer_upgrade, NoBlueprint, invalidate_blueprint,
      UpgradeKernel, StartBlock, Finished, Reboot
<1>11. CASE ApplyTransaction \/ RetryTransaction \/ DiscardTransaction \/ revert_block
  BY <1>11, TransferKept
  DEF ApplyTransaction, RetryTransaction, DiscardTransaction, revert_block, Reboot
<1> QED
  BY <1>1, <1>2, <1>3, <1>4, <1>5, <1>6, <1>7, <1>8, <1>9, <1>10, <1>11
  DEF Next, Run

(***************************************************************************)
(* The kinds of steps, by what they do to blocks and blueprints            *)
(***************************************************************************)

\* No block is touched: stage zero, stage one, and the end of a run.
NoBlockStep ==
  /\ UNCHANGED <<world, tmp, sequencer>> /\ bip = None /\ bip' = None
  /\ pc' # "next"

\* No blueprint appears.
NoNewBlueprint ==
  \A n \in Numbers : blueprints'[n] # None => blueprints'[n] = blueprints[n]

\* No blueprint disappears.
NoLessBlueprint ==
  \A n \in Numbers : blueprints[n] # None => blueprints'[n] # None

StageTwo ==
  \/ ResumeBlock \/ possible_sequencer_upgrade \/ invalidate_blueprint \/ StartBlock
  \/ ApplyTransaction \/ RetryTransaction \/ DiscardTransaction
  \/ revert_block \/ promote_block

\* A message with a blueprint of the sequencer.
SequencerStep ==
  \E number \in Upcoming : \E blueprint \in Proposal(number) :
    \/ \E c \in Chunking : SequencerBlueprint(number, c, blueprint)
    \/ \E nb \in {c[1] : c \in Chunking} : DalSlotImportSignals(number, nb, blueprint)

ForcedStep == EndOfInbox /\ first_has_timed_out

(* Every step is one of stage two, or stores blueprints, or leaves both    *)
(* blocks and blueprints alone.                                            *)
LEMMA Kinds ==
  ASSUME Inv, Next
  PROVE  \/ StageTwo
         \/ SequencerStep /\ NoBlockStep
         \/ ForcedStep /\ NoBlockStep
         \/ NoBlockStep /\ UNCHANGED blueprints
<1> USE DEF Inv
<1>1. pc # "compute" => bip = None
  BY DEF TypeOK
<1>2. CASE Level \/ Migrate \/ fallback_backup_kernel \/ NoMigration \/ Info
  BY <1>1, <1>2
  DEF Level, Migrate, fallback_backup_kernel, NoMigration, Info, Reboot, NoBlockStep
<1>3. CASE force_kernel_upgrade \/ \E d \in Delays :
             \/ store_kernel_upgrade(d)
             \/ \E i \in 2 .. Len(Sequencers) : store_sequencer_upgrade(Sequencers[i], d)
  BY <1>1, <1>3
  DEF force_kernel_upgrade, store_kernel_upgrade, store_sequencer_upgrade, Message,
      NoBlockStep
<1>4. CASE parse_chunk \/ \E tx \in Delayed : DelayedInput(tx) \/ parse_new_chunk(tx)
  BY <1>1, <1>4
  DEF parse_chunk, DelayedInput, parse_new_chunk, Message, Continue, Reboot, NoBlockStep
<1>5. CASE SequencerStep
  BY <1>1, <1>5
  DEF SequencerStep, SequencerBlueprint, DalSlotImportSignals, Message, Continue, Reboot,
      NoBlockStep
<1>6. CASE EndOfInbox
  BY <1>1, <1>6 DEF EndOfInbox, ForcedStep, Reboot, NoBlockStep
<1>7. CASE NoBlueprint \/ UpgradeKernel
  BY <1>1, <1>7 DEF NoBlueprint, UpgradeKernel, Finished, Reboot, NoBlockStep
<1>8. CASE StageTwo
  BY <1>8
<1> QED
  BY <1>2, <1>3, <1>4, <1>5, <1>6, <1>7, <1>8 DEF Next, Run, StageTwo, SequencerStep

(* Storing steps store.                                                    *)
LEMMA StoringSteps ==
  ASSUME Inv, (SequencerStep \/ ForcedStep) /\ NoBlockStep
  PROVE  ChunkInv' /\ NoLessBlueprint
<1> USE DEF Inv
<1>1. BlueprintsOK /\ sequencer' = sequencer
  BY DEF BlueprintsOK, TypeOK, NoBlockStep
<1>2. CASE SequencerStep
  <2>1. PICK number \in Upcoming : \E blueprint \in Proposal(number) :
          \/ \E c \in Chunking : SequencerBlueprint(number, c, blueprint)
          \/ \E nb \in {c[1] : c \in Chunking} :
               DalSlotImportSignals(number, nb, blueprint)
    BY <1>2 DEF SequencerStep
  <2>2. PICK blueprint \in Proposal(number) :
          \/ \E c \in Chunking : SequencerBlueprint(number, c, blueprint)
          \/ \E nb \in {c[1] : c \in Chunking} :
               DalSlotImportSignals(number, nb, blueprint)
    BY <2>1
  <2>3. \/ \E c \in Chunking : blueprints' =
             store_sequencer_blueprint(blueprints, number, c[2], c[1], blueprint)
        \/ \E nb \in {c[1] : c \in Chunking} : blueprints' =
             store_slot(blueprints, number, nb, blueprint)
    BY <2>2 DEF SequencerBlueprint, DalSlotImportSignals
  <2>4. Stores /\ blueprints' = [n \in Numbers |-> blueprints'[n]]
    BY <1>1, <2>3, SequencerStores
  <2> QED  BY <1>1, <2>4, StoresKeep DEF NoLessBlueprint
<1>3. CASE ForcedStep
  <2>1. Stores /\ blueprints' = [n \in Numbers |-> blueprints'[n]]
    BY <1>1, <1>3, ForcedStores DEF ForcedStep, EndOfInbox
  <2> QED  BY <1>1, <2>1, StoresKeep DEF NoLessBlueprint
<1> QED  BY <1>2, <1>3

(* Stage two stores no blueprint.                                          *)
LEMMA StageTwoDrops ==
  ASSUME Inv, StageTwo
  PROVE  NoNewBlueprint
<1> USE DEF Inv
<1>1. BlueprintsOK
  BY DEF BlueprintsOK, TypeOK
<1>2. CASE ResumeBlock \/ StartBlock \/ ApplyTransaction \/ RetryTransaction
             \/ DiscardTransaction
  BY <1>2
  DEF ResumeBlock, StartBlock, ApplyTransaction, RetryTransaction, DiscardTransaction,
      NoNewBlueprint
<1>3. CASE possible_sequencer_upgrade
  BY <1>3 DEF possible_sequencer_upgrade, clear_all_blueprint, NoNewBlueprint
<1>4. CASE invalidate_blueprint
  <2>1. Next_number \in Nat
    BY NumbersAre DEF TypeOK
  <2> QED  BY <1>1, <1>4, <2>1, Dropping DEF invalidate_blueprint, NoNewBlueprint
<1>5. CASE revert_block \/ promote_block
  <2>1. bip.number \in Nat
    BY <1>5, Computing DEF revert_block, promote_block
  <2> QED
    BY <1>1, <1>5, <2>1, Dropping DEF revert_block, promote_block, NoNewBlueprint
<1> QED  BY <1>2, <1>3, <1>4, <1>5 DEF StageTwo

(* A chunk is the kernel's or the sequencer's.                             *)
LEMMA ChunkStep ==
  ASSUME Inv, Next
  PROVE  ChunkInv'
<1> USE DEF Inv
<1>1. CASE NoBlockStep /\ UNCHANGED blueprints
  BY <1>1 DEF NoBlockStep, ChunkInv
<1>2. CASE (SequencerStep \/ ForcedStep) /\ NoBlockStep
  BY <1>2, StoringSteps
<1>3. CASE StageTwo
  <2>1. NoNewBlueprint
    BY <1>3, StageTwoDrops
  <2>2. CASE sequencer' = sequencer
    BY <2>1, <2>2 DEF NoNewBlueprint, ChunkInv
  <2>3. CASE sequencer' # sequencer
    <3>1. blueprints' = [n \in Numbers |-> None]
      BY <1>3, <2>3
      DEF StageTwo, ResumeBlock, possible_sequencer_upgrade, clear_all_blueprint,
          invalidate_blueprint, StartBlock, ApplyTransaction, RetryTransaction,
          DiscardTransaction, revert_block, promote_block
    <3> QED  BY <3>1 DEF ChunkInv
  <2> QED  BY <2>2, <2>3
<1> QED  BY <1>1, <1>2, <1>3, Kinds

(* A delayed transaction that left the delayed inbox does not come back.   *)
LEMMA LeftGrows ==
  ASSUME Inv, Next
  PROVE  sent \ Hashes \subseteq sent' \ Hashes'
<1> USE DEF Inv
<1>1. CASE UNCHANGED <<sent, delayed_inbox>>
  BY <1>1 DEF Hashes
<1>2. CASE \E tx \in Delayed : DelayedInput(tx)
  <2>1. PICK tx \in Delayed : DelayedInput(tx)
    BY <1>2
  <2>2. tx \notin sent /\ sent' = sent \union {tx} /\ Hashes' = Hashes \union {tx}
    BY <2>1, Saving DEF DelayedInput
  <2> QED  BY <2>2
<1>3. CASE parse_chunk
  <2>1. sending \in Transfer /\ sending # None /\ sending.tx \notin sent
    BY <1>3 DEF parse_chunk, TypeOK, TransferInv
  <2>2. sending.tx \in Delayed /\ sent \subseteq sent'
    BY <1>3, <2>1 DEF parse_chunk, Transfer
  <2>3. Hashes' \subseteq Hashes \union {sending.tx}
    <3>1. CASE buffer # None /\ buffer.left = 1
      BY <1>3, <2>2, <3>1, Saving DEF parse_chunk, TransferInv
    <3>2. CASE ~ (buffer # None /\ buffer.left = 1)
      BY <1>3, <3>2 DEF parse_chunk, Hashes
    <3> QED  BY <3>1, <3>2
  <2> QED  BY <2>1, <2>2, <2>3
<1>4. CASE EndOfInbox
  <2>1. CASE first_has_timed_out
    <3>1. Hashes' = {} /\ sent' = sent
      BY <1>4, <2>1 DEF EndOfInbox, fetch_delayed_transactions, Hashes
    <3> QED  BY <3>1
  <2>2. CASE ~ first_has_timed_out
    BY <1>1, <1>4, <2>2 DEF EndOfInbox
  <2> QED  BY <2>1, <2>2
<1>5. CASE promote_block
  <2>1. Hashes' \subseteq Hashes /\ sent' = sent
    BY <1>5, Cleaning DEF promote_block, clean_delayed_transactions
  <2> QED  BY <2>1
<1>6. CASE Level \/ Migrate \/ fallback_backup_kernel \/ NoMigration \/ Info
            \/ NoBlueprint \/ UpgradeKernel
  BY <1>1, <1>6
  DEF Level, Migrate, fallback_backup_kernel, NoMigration, Info, NoBlueprint,
      UpgradeKernel
<1>7. CASE force_kernel_upgrade \/ \E d \in Delays :
             \/ store_kernel_upgrade(d)
             \/ \E i \in 2 .. Len(Sequencers) : store_sequencer_upgrade(Sequencers[i], d)
  BY <1>1, <1>7
  DEF force_kernel_upgrade, store_kernel_upgrade, store_sequencer_upgrade
<1>8. CASE SequencerStep \/ \E tx \in Delayed : parse_new_chunk(tx)
  BY <1>1, <1>8
  DEF SequencerStep, SequencerBlueprint, DalSlotImportSignals, parse_new_chunk
<1>9. CASE StageTwo /\ ~ promote_block
  BY <1>1, <1>9
  DEF StageTwo, ResumeBlock, possible_sequencer_upgrade, invalidate_blueprint,
      StartBlock, ApplyTransaction, RetryTransaction, DiscardTransaction, revert_block
<1> QED
  BY <1>2, <1>3, <1>4, <1>5, <1>6, <1>7, <1>8, <1>9
  DEF Next, Run, StageTwo, SequencerStep

(* Numbers are enough.                                                     *)
LEMMA NumberStep ==
  ASSUME Inv, Next, TypeOK'
  PROVE  NumberInv'
<1> USE DEF Inv
<1>1. sent' \subseteq Delayed
  BY DEF TypeOK
<1>2. Limit \in Nat /\ Limit' \in Nat /\ Limit <= Limit' /\ MaxBlocks <= Limit
  <2>1. Limit \in Nat /\ Limit' \in Nat /\ Limit <= Limit'
    BY <1>1, LeftGrows, LimitGrows
  <2> QED  BY <2>1, Counting, BoundsAssumption DEF Limit
<1>3. /\ Len(chain) \in Nat /\ Len(chain) <= Limit
      /\ Numbers \subseteq Nat
      /\ \A n \in Numbers : blueprints[n] # None => n <= Limit
  <2>1. chain \in Seq(Block)
    BY DEF TypeOK, World, chain
  <2> QED  BY <2>1, NumbersAre DEF NumberInv
<1>4. ASSUME chain' = chain,
             \A n \in Numbers : blueprints'[n] # None => blueprints[n] # None \/ n <= Limit'
      PROVE  NumberInv'
  <2>1. Len(chain') <= Limit'
    BY <1>2, <1>3, <1>4
  <2>2. ASSUME NEW n \in Numbers, blueprints'[n] # None  PROVE  n <= Limit'
    BY <1>2, <1>3, <1>4, <2>2
  <2> QED  BY <2>1, <2>2 DEF NumberInv
<1>5. CASE NoBlockStep /\ UNCHANGED blueprints
  BY <1>4, <1>5 DEF NoBlockStep, chain
<1>6. CASE SequencerStep /\ NoBlockStep
  <2>1. PICK number \in Upcoming : \E blueprint \in Proposal(number) :
          \/ \E c \in Chunking : SequencerBlueprint(number, c, blueprint)
          \/ \E nb \in {c[1] : c \in Chunking} :
               DalSlotImportSignals(number, nb, blueprint)
    BY <1>6 DEF SequencerStep
  <2>2. PICK blueprint \in Proposal(number) :
          \/ \E c \in Chunking : SequencerBlueprint(number, c, blueprint)
          \/ \E nb \in {c[1] : c \in Chunking} :
               DalSlotImportSignals(number, nb, blueprint)
    BY <2>1
  <2>3. \/ \E c \in Chunking : blueprints' =
             store_sequencer_blueprint(blueprints, number, c[2], c[1], blueprint)
        \/ \E nb \in {c[1] : c \in Chunking} : blueprints' =
             store_slot(blueprints, number, nb, blueprint)
    BY <2>2 DEF SequencerBlueprint, DalSlotImportSignals
  <2>4. \A n \in Numbers : n > MaxBlocks => blueprints'[n] = blueprints[n]
    BY <1>6, <2>3, SequencerStores DEF NoBlockStep
  <2>5. \A n \in Numbers : n > MaxBlocks \/ n <= Limit'
    BY <1>2, <1>3, BoundsAssumption
  <2> QED  BY <1>4, <1>6, <2>4, <2>5 DEF NoBlockStep, chain
<1>7. CASE ForcedStep /\ NoBlockStep
  <2>1. fetch_delayed_transactions /\ sent' = sent
    BY <1>7 DEF ForcedStep, EndOfInbox
  <2>2. \A n \in Numbers : blueprints'[n] # blueprints[n] =>
          n - Len(chain) \in 1 .. Len(delayed_inbox)
    BY <1>7, <2>1, ForcedStores DEF NoBlockStep
  <2>3. Limit' = Limit + Len(delayed_inbox) /\ Len(delayed_inbox) \in Nat
    <3>1. Hashes' = {}
      BY <2>1 DEF fetch_delayed_transactions, Hashes
    <3>2. sent' \ Hashes' = sent
      BY <2>1, <3>1
    <3>3. Len(delayed_inbox) \in Nat
      BY DEF TypeOK
    <3>4. Limit' = MaxBlocks + Cardinality(sent)
      BY <3>2 DEF Limit
    <3>5. Limit = MaxBlocks + Cardinality(sent \ Hashes)
      BY DEF Limit
    <3> QED  BY <3>3, <3>4, <3>5, Counting, BoundsAssumption
  <2>4. ASSUME NEW n \in Numbers, blueprints'[n] # None
        PROVE  blueprints[n] # None \/ n <= Limit'
    BY <1>2, <1>3, <2>2, <2>3, <2>4
  <2> QED  BY <1>4, <1>7, <2>4 DEF NoBlockStep, chain
<1>8. CASE StageTwo /\ ~ promote_block
  <2>1. chain' = chain
    BY <1>8
    DEF StageTwo, ResumeBlock, possible_sequencer_upgrade, invalidate_blueprint,
        StartBlock, ApplyTransaction, RetryTransaction, DiscardTransaction,
        revert_block, chain
  <2> QED  BY <1>4, <1>8, <2>1, StageTwoDrops DEF NoNewBlueprint
<1>9. CASE promote_block
  <2>1. NextBlock(bip) /\ tmp.chain = chain /\ chain \in Seq(Block)
    BY <1>9, Computing DEF promote_block
  <2>2. Len(chain') = Len(chain) + 1
    <3>1. chain' = Append(chain, [transactions |-> bip.done, timestamp |-> bip.timestamp,
                                  by |-> bip.by])
      BY <1>9, <2>1 DEF promote_block, chain
    <3> QED  BY <2>1, <3>1
  <2>3. Next_number \in Numbers /\ Next_number <= Limit
    BY <1>3, <2>1 DEF NextBlock, TypeOK
  <2>4. Len(chain') <= Limit'
    BY <1>2, <1>3, <2>2, <2>3 DEF Next_number
  <2>5. \A n \in Numbers : blueprints'[n] # None => n <= Limit'
    BY <1>2, <1>3, <1>9, StageTwoDrops DEF StageTwo, NoNewBlueprint
  <2> QED  BY <2>4, <2>5 DEF NumberInv
<1> QED  BY <1>5, <1>6, <1>7, <1>8, <1>9, Kinds

(* The block in progress is that of the next number, with its blueprint.   *)
LEMMA BlockStep ==
  ASSUME Inv, Next
  PROVE  BlockInv'
<1> USE DEF Inv
<1>1. ASSUME NoBlockStep, NoLessBlueprint  PROVE  BlockInv'
  <2>1. chain' = chain /\ Next_number' = Next_number /\ StoredBip' = StoredBip
    BY <1>1 DEF NoBlockStep, chain, Next_number, StoredBip
  <2>2. StoredBip # None => NextBlock(StoredBip)'
    BY <1>1, <2>1 DEF NoBlockStep, NoLessBlueprint, NextBlock, BlockInv, TypeOK
  <2> QED  BY <1>1, <2>1, <2>2 DEF NoBlockStep, BlockInv
<1>2. CASE NoBlockStep /\ UNCHANGED blueprints
  BY <1>1, <1>2 DEF NoLessBlueprint
<1>3. CASE (SequencerStep \/ ForcedStep) /\ NoBlockStep
  BY <1>1, <1>3, StoringSteps
<1>4. CASE ResumeBlock
  <2>1. /\ bip' = StoredBip /\ StoredBip # None /\ run'.resumed /\ pc' = "compute"
        /\ UNCHANGED <<world, tmp, blueprints, sequencer>>
    BY <1>4 DEF ResumeBlock, TypeOK
  <2>2. NextBlock(bip)' /\ NextBlock(StoredBip)' /\ tmp # None
    BY <2>1 DEF NextBlock, BlockInv, StoredBip, Next_number, chain
  <2> QED  BY <2>1, <2>2 DEF BlockInv, StoredBip, chain
<1>5. CASE possible_sequencer_upgrade \/ invalidate_blueprint
  <2>1. StoredBip = None /\ bip' = None /\ UNCHANGED <<world, tmp>>
    BY <1>5
    DEF possible_sequencer_upgrade, invalidate_blueprint, Finished, BlockInv, TypeOK
  <2>2. StoredBip' = None /\ chain' = chain
    BY <2>1 DEF StoredBip, chain
  <2> QED  BY <2>1, <2>2 DEF BlockInv
<1>6. CASE StartBlock
  <2> DEFINE p == NextBlueprint.blueprint
             b == blueprints[Next_number]
  <2>1. /\ b \in Stored
        /\ p.by # None => p.by = sequencer
                          /\ HeaderIsValid(p, chain, current_timestamp + Lookahead)
    BY <1>6, ReadNext DEF StartBlock
  <2>2. /\ bip' = [number |-> Next_number, parent_hash |-> p.parent_hash,
                   queue |-> p.transactions, done |-> << >>,
                   timestamp |-> p.timestamp, by |-> p.by]
        /\ tmp' = world /\ ~ run'.resumed /\ pc' = "compute"
        /\ UNCHANGED <<world, blueprints, sequencer>>
    BY <1>6 DEF StartBlock, TypeOK
  <2> HIDE DEF p
  <2>3. b # None
    BY <2>1, NoneAssumption
  <2>4. bip'.number = Next_number /\ bip'.by = p.by /\ bip'.parent_hash = p.parent_hash
    BY <2>2
  <2>5. chain' = chain /\ Next_number' = Next_number
    BY <2>2 DEF chain, Next_number
  <2>6. NextBlock(bip)'
    BY <2>1, <2>2, <2>3, <2>4, <2>5 DEF NextBlock, HeaderIsValid
  <2>7. /\ tmp' # None /\ tmp'.bip = None /\ world'.bip = None
        /\ StoredBip' = None /\ tmp'.chain = chain'
    <3>1. world \in World /\ world # None
      BY NoneAssumption DEF TypeOK
    <3> QED  BY <2>2, <3>1 DEF BlockInv, StoredBip, chain
  <2> QED  BY <2>2, <2>6, <2>7 DEF BlockInv
<1>7. CASE ApplyTransaction
  <2>1. /\ bip \in BlockInProgress /\ NextBlock(bip) /\ tmp \in World /\ tmp.chain = chain
        /\ run.resumed \/ tmp.bip = None
    BY <1>7, Computing DEF ApplyTransaction
  <2>2. /\ bip'.number = bip.number /\ bip'.by = bip.by
        /\ bip'.parent_hash = bip.parent_hash
        /\ tmp'.bip = tmp.bip /\ tmp'.chain = tmp.chain /\ run'.resumed = run.resumed
        /\ UNCHANGED <<pc, world, blueprints, sequencer>> /\ pc = "compute"
    BY <1>7, <2>1 DEF ApplyTransaction, BlockInProgress, World, TypeOK
  <2>3. tmp' \in World /\ tmp' # None /\ tmp # None
    <3>1. tmp' \in World \union {None} /\ tmp' # None
      <4>1. tmp' = [tmp EXCEPT !.applied = Append(@, Head(bip.queue))]
        BY <1>7 DEF ApplyTransaction
      <4>2. Head(bip.queue) \in Transaction /\ tmp.applied \in Seq(Transaction)
        BY <1>7, <2>1, Queue DEF ApplyTransaction, World
      <4>3. Append(tmp.applied, Head(bip.queue)) \in Seq(Transaction)
        BY <4>2
      <4>4. tmp' \in World
        BY <2>1, <4>1, <4>3 DEF World
      <4> QED  BY <4>4, NoneAssumption
    <3> QED  BY <2>1, <3>1, NoneAssumption
  <2>4. StoredBip' = StoredBip /\ chain' = chain /\ Next_number' = Next_number
    BY <2>2, <2>3 DEF StoredBip, chain, Next_number
  <2>5. NextBlock(bip)' /\ (StoredBip # None => NextBlock(StoredBip)')
    BY <2>1, <2>2, <2>4 DEF NextBlock, BlockInv
  <2> QED  BY <2>1, <2>2, <2>3, <2>4, <2>5 DEF BlockInv
<1>8. CASE RetryTransaction \/ DiscardTransaction
  <2>1. /\ bip \in BlockInProgress /\ NextBlock(bip) /\ tmp \in World /\ tmp.chain = chain
    BY <1>8, Computing DEF RetryTransaction, DiscardTransaction
  <2>2. PICK b : /\ tmp' = [tmp EXCEPT !.bip = b]
                 /\ b = bip \/ b = [bip EXCEPT !.queue = Tail(@)]
    BY <1>8 DEF RetryTransaction, DiscardTransaction
  <2>3. b.number = bip.number /\ b.by = bip.by /\ b.parent_hash = bip.parent_hash
    BY <2>1, <2>2 DEF BlockInProgress
  <2>4. tmp'.bip = b /\ tmp'.chain = tmp.chain
    BY <2>1, <2>2 DEF World
  <2>5. /\ bip' = None /\ pc' # "next"
        /\ UNCHANGED <<world, blueprints, sequencer>>
    BY <1>8 DEF RetryTransaction, DiscardTransaction, Reboot
  <2>6. chain' = chain /\ Next_number' = Next_number
    BY <2>5 DEF chain, Next_number
  <2>7. StoredBip' # None => NextBlock(StoredBip)'
    BY <2>1, <2>3, <2>4, <2>5, <2>6 DEF StoredBip, NextBlock
  <2> QED  BY <2>1, <2>4, <2>5, <2>6, <2>7 DEF BlockInv
<1>9. CASE revert_block
  BY <1>9 DEF revert_block, Reboot, BlockInv, StoredBip
<1>10. CASE promote_block
  <2>1. run.resumed \/ tmp.bip = None
    BY <1>10, Computing DEF promote_block
  <2>2. tmp' = None /\ bip' = None /\ world'.bip = None
    BY <1>10, <2>1 DEF promote_block, BipAtPromotion
  <2> QED  BY <2>2 DEF BlockInv, StoredBip
<1> QED
  BY <1>2, <1>3, <1>4, <1>5, <1>6, <1>7, <1>8, <1>9, <1>10, Kinds DEF StageTwo

(* Appending to the last of two sequences.                                 *)
LEMMA AppendConcat ==
  ASSUME NEW s \in Seq(Transaction), NEW t \in Seq(Transaction), NEW e \in Transaction
  PROVE  Append(s \o t, e) = s \o Append(t, e)
<1> DEFINE a == Append(s \o t, e)
           b == s \o Append(t, e)
<1>1. Len(s) \in Nat /\ Len(t) \in Nat /\ Append(t, e) \in Seq(Transaction)
  OBVIOUS
<1>2. a \in Seq(Transaction) /\ Len(a) = Len(s) + Len(t) + 1
  OBVIOUS
<1>3. b \in Seq(Transaction) /\ Len(b) = Len(s) + Len(t) + 1
  OBVIOUS
<1>4. ASSUME NEW i \in 1 .. Len(a)  PROVE  a[i] = b[i]
  <2>1. i \in 1 .. Len(s) + Len(t) + 1
    BY <1>2
  <2> QED  BY <2>1
<1> HIDE DEF a, b
<1>5. a = b
  BY <1>2, <1>3, <1>4, SeqEqual
<1> QED  BY <1>5 DEF a, b

(* The effects of whole blocks.                                            *)
LEMMA AtomicStep ==
  ASSUME Inv, Next
  PROVE  WorldIsAtomic'
<1> USE DEF Inv
<1> DEFINE seqs == [i \in DOMAIN chain |-> chain[i].transactions]
           effects == FlattenSeq(seqs)
<1>1. /\ world.applied = effects
      /\ bip # None => tmp.applied = effects \o bip.done
      /\ bip = None /\ StoredBip # None => tmp.applied = effects \o StoredBip.done
  BY DEF WorldIsAtomic
<1>2. chain \in Seq(Block) /\ seqs \in Seq(Seq(Transaction))
  <2>1. chain \in Seq(Block)
    BY DEF TypeOK, World, chain
  <2>2. \A i \in 1 .. Len(chain) : chain[i].transactions \in Seq(Transaction)
    <3>1. \A i \in 1 .. Len(chain) : chain[i] \in Block
      BY <2>1
    <3> QED  BY <3>1 DEF Block
  <2>3. DOMAIN chain = 1 .. Len(chain) /\ Len(chain) \in Nat
    BY <2>1
  <2> QED  BY <2>1, <2>2, <2>3, IsASeq
<1>3. effects \in Seq(Transaction)
  <2>1. << >> \in Seq(Transaction)
    OBVIOUS
  <2> HIDE DEF seqs
  <2> QED  BY <1>2, <2>1, FlattenAppend
<1>4. ASSUME world' = world,
             bip' # None => tmp'.applied = effects \o bip'.done,
             bip' = None /\ StoredBip' # None => tmp'.applied = effects \o StoredBip'.done
      PROVE  WorldIsAtomic'
  <2>1. world'.applied = effects /\ chain' = chain
    BY <1>1, <1>4 DEF chain
  <2>2. FlattenSeq([i \in DOMAIN chain' |-> chain'[i].transactions]) = effects
    BY <2>1
  <2> HIDE DEF effects
  <2> QED  BY <1>4, <2>1, <2>2 DEF WorldIsAtomic
<1> HIDE DEF effects
<1>5. CASE NoBlockStep
  BY <1>1, <1>4, <1>5 DEF NoBlockStep, StoredBip
<1>6. CASE ResumeBlock
  <2>1. pc # "compute" /\ bip' = StoredBip /\ UNCHANGED <<world, tmp>> /\ StoredBip # None
    BY <1>6 DEF ResumeBlock
  <2>2. bip = None
    BY <2>1 DEF TypeOK
  <2> QED  BY <1>1, <1>4, <2>1, <2>2 DEF StoredBip
<1>7. CASE possible_sequencer_upgrade \/ invalidate_blueprint
  <2>1. StoredBip = None /\ bip' = None /\ UNCHANGED <<world, tmp>>
    BY <1>7
    DEF possible_sequencer_upgrade, invalidate_blueprint, Finished, BlockInv, TypeOK
  <2> QED  BY <1>4, <2>1 DEF StoredBip
<1>8. CASE StartBlock
  <2>1. bip'.done = << >> /\ tmp' = world /\ world' = world /\ pc' = "compute"
    BY <1>8 DEF StartBlock
  <2>2. effects \o << >> = effects
    BY <1>3
  <2>3. bip' # None
    BY <1>8, TypeStepProduce DEF StartBlock, TypeOK
  <2> QED  BY <1>1, <1>4, <2>1, <2>2, <2>3
<1>9. CASE ApplyTransaction
  <2>1. bip \in BlockInProgress /\ bip # None /\ tmp \in World /\ bip.queue # << >>
    BY <1>9, Computing DEF ApplyTransaction
  <2>2. /\ bip'.done = Append(bip.done, Head(bip.queue))
        /\ tmp'.applied = Append(tmp.applied, Head(bip.queue))
        /\ world' = world /\ pc' = "compute"
    BY <1>9, <2>1 DEF ApplyTransaction, BlockInProgress, World
  <2>3. bip.done \in Seq(Transaction) /\ Head(bip.queue) \in Transaction
    BY <2>1, Queue DEF BlockInProgress
  <2>4. Append(effects \o bip.done, Head(bip.queue)) =
          effects \o Append(bip.done, Head(bip.queue))
    <3> DEFINE d == bip.done
               e == Head(bip.queue)
    <3>1. d \in Seq(Transaction) /\ e \in Transaction
      BY <2>3
    <3> HIDE DEF d, e
    <3>2. Append(effects \o d, e) = effects \o Append(d, e)
      BY <1>3, <3>1, AppendConcat
    <3> QED  BY <3>2 DEF d, e
  <2>5. bip' # None
    BY <1>9, TypeStepProduce DEF ApplyTransaction, TypeOK
  <2> QED  BY <1>1, <1>4, <2>1, <2>2, <2>4, <2>5
<1>10. CASE RetryTransaction \/ DiscardTransaction
  <2>1. bip \in BlockInProgress /\ bip # None /\ tmp \in World
    BY <1>10, Computing DEF RetryTransaction, DiscardTransaction
  <2>2. PICK b : /\ tmp' = [tmp EXCEPT !.bip = b]
                 /\ b = bip \/ b = [bip EXCEPT !.queue = Tail(@)]
    BY <1>10 DEF RetryTransaction, DiscardTransaction
  <2>3. b.done = bip.done
    BY <2>1, <2>2 DEF BlockInProgress
  <2>4. tmp'.bip = b /\ tmp'.applied = tmp.applied
    BY <2>1, <2>2 DEF World
  <2>5. bip' = None /\ world' = world
    BY <1>10 DEF RetryTransaction, DiscardTransaction, Reboot
  <2> QED  BY <1>1, <1>4, <2>1, <2>3, <2>4, <2>5 DEF StoredBip
<1>11. CASE revert_block
  <2>1. bip' = None /\ tmp' = None /\ world' = world
    BY <1>11 DEF revert_block, Reboot
  <2> QED  BY <1>4, <2>1 DEF StoredBip
<1>12. CASE promote_block
  <2> DEFINE b == [transactions |-> bip.done, timestamp |-> bip.timestamp, by |-> bip.by]
             next == [i \in DOMAIN chain' |-> chain'[i].transactions]
  <2>1. /\ bip \in BlockInProgress /\ bip # None /\ tmp \in World /\ tmp.chain = chain
        /\ bip.done \in Seq(Transaction)
    BY <1>12, Computing DEF promote_block, BlockInProgress
  <2>2. b \in Block /\ b.transactions = bip.done
    BY <2>1 DEF Block, BlockInProgress
  <2>3. /\ chain' = Append(chain, b) /\ world'.applied = tmp.applied
        /\ bip' = None /\ tmp' = None
    BY <1>12, <2>1 DEF promote_block, chain
  <2> HIDE DEF b
  <2>4. next = Append(seqs, bip.done)
    <3>1. /\ Len(chain) \in Nat /\ DOMAIN chain = 1 .. Len(chain)
          /\ DOMAIN chain' = 1 .. Len(chain) + 1
          /\ \A i \in 1 .. Len(chain) : chain'[i] = chain[i]
          /\ chain'[Len(chain) + 1] = b
      BY <1>2, <2>2, <2>3
    <3>2. /\ Len(seqs) = Len(chain) /\ seqs \in Seq(Seq(Transaction))
      BY <1>2, <3>1
    <3>3. /\ Append(seqs, bip.done) \in Seq(Seq(Transaction))
          /\ DOMAIN Append(seqs, bip.done) = 1 .. Len(chain) + 1
          /\ \A i \in 1 .. Len(chain) : Append(seqs, bip.done)[i] = seqs[i]
          /\ Append(seqs, bip.done)[Len(chain) + 1] = bip.done
      <4> HIDE DEF seqs
      <4> QED  BY <2>1, <3>1, <3>2, AppendProperties
    <3>4. \A i \in 1 .. Len(chain) + 1 : next[i] = Append(seqs, bip.done)[i]
      BY <2>2, <3>1, <3>3
    <3>5. DOMAIN next = 1 .. Len(chain) + 1
      BY <3>1
    <3>6. next \in Seq(Seq(Transaction)) /\ Len(next) = Len(chain) + 1
      <4>1. next \in Seq(Seq(Transaction))
        <5>1. \A i \in 1 .. Len(chain) + 1 : next[i] \in Seq(Transaction)
          <6>1. \A i \in 1 .. Len(chain) : seqs[i] \in Seq(Transaction)
            <7> HIDE DEF seqs
            <7> QED  BY <3>2
          <6>2. \A i \in 1 .. Len(chain) + 1 : i \in 1 .. Len(chain) \/ i = Len(chain) + 1
            BY <3>1
          <6> HIDE DEF next, seqs
          <6> QED  BY <2>1, <3>3, <3>4, <6>1, <6>2
        <5> HIDE DEF next
        <5>2. next = [i \in 1 .. Len(chain) + 1 |-> next[i]]
          BY <3>5 DEF next
        <5> QED  BY <3>1, <5>1, <5>2, IsASeq
      <4> HIDE DEF next
      <4> QED  BY <3>1, <3>5, <4>1
    <3> DEFINE more == Append(seqs, bip.done)
    <3>7. /\ more \in Seq(Seq(Transaction)) /\ Len(more) = Len(next)
          /\ \A i \in 1 .. Len(next) : next[i] = more[i]
      <4> HIDE DEF next, seqs
      <4> QED  BY <3>1, <3>3, <3>4, <3>6
    <3>8. next = more
      <4> HIDE DEF next, more
      <4> QED  BY <3>6, <3>7, SeqEqual
    <3> QED  BY <3>8
  <2>5. FlattenSeq(next) = effects \o bip.done
    <3> HIDE DEF next, seqs
    <3> QED  BY <1>2, <2>1, <2>4, FlattenAppend DEF effects
  <2>6. world'.applied = FlattenSeq(next)
    BY <1>1, <2>1, <2>3, <2>5
  <2> QED  BY <2>3, <2>6 DEF WorldIsAtomic, StoredBip
<1> QED
  BY <1>5, <1>6, <1>7, <1>8, <1>9, <1>10, <1>11, <1>12, Kinds DEF StageTwo

(***************************************************************************)
(* Theorems                                                                *)
(***************************************************************************)

(* The initial state.                                                      *)
LEMMA InitInv ==
  ASSUME Init
  PROVE  Inv
<1>1. /\ << >> \in Seq(Block) /\ << >> \in Seq(Transaction) /\ << >> \in Seq(Item)
      /\ Len(<< >>) = 0 /\ DOMAIN << >> = {}
  OBVIOUS
<1>2. world \in World /\ chain = << >> /\ Next_number = 1
  BY <1>1 DEF Init, World, chain, Next_number
<1>3. Sequencers[1] \in Keys
  BY SequencersAssumption
<1>4. TypeOK
  BY <1>1, <1>2, <1>3, NumbersAre, BoundsAssumption, KnownAssumption
  DEF Init, TypeOK, NoRun
<1>5. TransferInv
  BY <1>1 DEF Init, TransferInv, Hashes
<1>6. NumberInv
  <2>1. Limit \in Nat
    BY <1>4, <1>5, Counting, BoundsAssumption DEF Limit
  <2> QED  BY <1>1, <1>2, <2>1 DEF Init, NumberInv
<1>7. ChunkInv /\ BlockInv
  BY DEF Init, ChunkInv, BlockInv, StoredBip
<1>8. WorldIsAtomic
  <2> DEFINE seqs == [i \in DOMAIN chain |-> chain[i].transactions]
  <2>1. seqs = << >> /\ Len(seqs) = 0
    BY <1>1, <1>2
  <2>2. FlattenSeq(seqs) = << >>
    <3> HIDE DEF seqs
    <3> QED  BY <2>1 DEF FlattenSeq
  <2> QED  BY <2>2 DEF Init, WorldIsAtomic, StoredBip
<1> QED  BY <1>4, <1>5, <1>6, <1>7, <1>8 DEF Inv

(* Every step keeps the invariant.                                         *)
LEMMA NextInv ==
  ASSUME Inv, [Next]_vars
  PROVE  Inv'
<1>1. CASE Next
  <2>1. TypeOK'
    BY <1>1, TypeStepQuiet, TypeStepStore, TypeStepProduce DEF Next, Run
  <2> QED
    BY <1>1, <2>1, TransferStep, NumberStep, ChunkStep, BlockStep, AtomicStep DEF Inv
<1>2. CASE UNCHANGED vars
  <2>1. UNCHANGED <<chain, Next_number, StoredBip, Hashes>>
    BY <1>2 DEF vars, chain, Next_number, StoredBip, Hashes
  <2>2. TypeOK'
    BY <1>2, <2>1 DEF vars, Inv, TypeOK
  <2>3. TransferInv'
    BY <1>2, <2>1 DEF vars, Inv, TransferInv
  <2>4. NumberInv' /\ ChunkInv'
    BY <1>2, <2>1 DEF vars, Inv, NumberInv, Limit, ChunkInv
  <2>5. BlockInv'
    BY <1>2, <2>1 DEF vars, Inv, BlockInv, NextBlock
  <2>6. WorldIsAtomic'
    BY <1>2, <2>1 DEF vars, Inv, WorldIsAtomic
  <2> QED  BY <2>2, <2>3, <2>4, <2>5, <2>6 DEF Inv
<1> QED  BY <1>1, <1>2

(* The invariant holds of every kernel, whatever the sequencer, L1 and the *)
(* PVM do.                                                                 *)
THEOREM Invariance == Spec => []Inv
<1>1. Init => Inv
  BY InitInv
<1>2. Inv /\ [Next]_vars => Inv'
  BY NextInv
<1> QED  BY <1>1, <1>2, PTL DEF Spec

(* Types, and that Numbers are enough for every blueprint that can be      *)
(* stored.                                                                 *)
THEOREM TypeCorrect == Spec => []TypeOK
<1>1. Inv => TypeOK
  BY DEF Inv
<1> QED  BY <1>1, Invariance, PTL

(* A block in progress keeps its blueprint and its number until the end.   *)
THEOREM BipHasBlueprintHolds == Spec => []BipHasBlueprint
<1>1. Inv => BipHasBlueprint
  BY DEF Inv, BlockInv, NextBlock, BipHasBlueprint
<1> QED  BY <1>1, Invariance, PTL

(* The world holds the effects of whole blocks.                            *)
THEOREM WorldIsAtomicHolds == Spec => []WorldIsAtomic
<1>1. Inv => WorldIsAtomic
  BY DEF Inv
<1> QED  BY <1>1, Invariance, PTL

(* The chain only changes by a promotion.                                  *)
LEMMA OnlyPromotion ==
  ASSUME Inv, [Next]_vars, chain' # chain
  PROVE  promote_block /\ NextBlock(bip)
<1>1. promote_block
  <2>1. Next
    BY DEF vars, chain
  <2>2. CASE NoBlockStep
    BY <2>2 DEF NoBlockStep, chain
  <2>3. CASE StageTwo
    BY <2>3
    DEF StageTwo, ResumeBlock, possible_sequencer_upgrade, invalidate_blueprint,
        StartBlock, ApplyTransaction, RetryTransaction, DiscardTransaction,
        revert_block, chain
  <2> QED  BY <2>1, <2>2, <2>3, Kinds
<1> QED  BY <1>1, Computing DEF promote_block

(* A block of the sequencer is added to the chain its blueprint names.     *)
THEOREM ExtendsItsParentHolds == Spec => ExtendsItsParent
<1>1. ASSUME Inv, [Next]_vars
      PROVE  [chain' # chain => bip.by = None \/ bip.parent_hash = chain]_vars
  BY <1>1, OnlyPromotion DEF NextBlock
<1> QED  BY <1>1, Invariance, PTL DEF Spec, ExtendsItsParent

(* A block is added by the kernel or by the sequencer in place.            *)
THEOREM SequencerExtendsHolds == Spec => SequencerExtends
<1>1. ASSUME Inv, [Next]_vars
      PROVE  [chain' # chain => bip.by \in {None, sequencer}]_vars
  BY <1>1, OnlyPromotion DEF NextBlock
<1> QED  BY <1>1, Invariance, PTL DEF Spec, SequencerExtends
=============================================================================
