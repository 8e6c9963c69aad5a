---------------------------- MODULE Highwatermarks ----------------------------
(***************************************************************************)
(* The high watermarks of one delegate                                     *)
(* (src/proto_alpha/lib_delegate/baking_highwatermarks.ml): the last       *)
(* (level, round) signed, for blocks, preattestations and attestations     *)
(* independently.  They are read and written under the client's file lock. *)
(***************************************************************************)
EXTENDS Integers

Kinds == {"block", "preattestation", "attestation"}

(* Below every level and round: no entry in the file. *)
NoHighwatermark == [level |-> -1, round |-> -1]

empty == [k \in Kinds |-> NoHighwatermark]

(* Mutant: the round signed last may be signed again. *)
may_sign_again(hw, level, round) ==
  \/ hw.level < level
  \/ hw.level = level /\ hw.round <= round

may_sign(hw, level, round) ==
  \/ hw.level < level
  \/ hw.level = level /\ hw.round < round

record(hw, level, round) ==
  IF may_sign(hw, level, round) THEN [level |-> level, round |-> round] ELSE hw
===============================================================================
