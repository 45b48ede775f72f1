----------------------------- MODULE MCStaging -----------------------------
(* Staging with two turns and proposals for either of them.                *)
EXTENDS Staging, TLC

AsWritten == [b \in Bodies |-> b]
Interchangeable == Permutations(Threads) \cup Permutations(Bodies)
=============================================================================
