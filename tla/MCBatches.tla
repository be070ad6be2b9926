----------------------------- MODULE MCBatches -----------------------------
EXTENDS Batches, TLC

(* A device is told from another by its hash alone, which takes all values. *)
DidSymmetry == Permutations(Dids)
=============================================================================
