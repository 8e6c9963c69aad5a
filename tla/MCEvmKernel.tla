---------------------------- MODULE MCEvmKernel ----------------------------
(* Instances of the kernel for TLC.                                        *)
EXTENDS EvmKernel

CONSTANTS d1, d2, s1, s2

\* Levels one unit of time apart.
RegularTime == [n \in 0 .. MaxLevel |-> n]

OneSequencer == <<s1>>
TwoSequencers == <<s1, s2>>

WholeBlueprints == {<<1, 0>>}
TwoChunks == {<<2, 0>>, <<2, 1>>}
AnyChunks == (1 .. MaxChunks) \X Indices

\* Empty blocks, one transaction of each kind, two in the kernel's order; a
\* delayed transaction named twice; a block of two runs.
NoTransaction == {<< >>}
AllContents == {<< >>, <<d1, Plain>>, <<Garbage>>}
DelayedAndPlain == {<< >>, <<d1, d1>>, <<d2, Plain>>}
PlainPair == {<<Plain, Plain>>}

\* A kernel alone, two upgrades that add a storage version each, one that
\* adds two.
OneKernel == [k \in {0} |-> 0]
OneMigrationEach == [k \in 0 .. 2 |-> k]
TwoMigrations == [k \in 0 .. 1 |-> 2 * k]
=============================================================================
