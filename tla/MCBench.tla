------------------------------- MODULE MCBench -------------------------------
(* Instances of Bench for TLC. *)
EXTENDS Bench, TLC

\* The test starts at the only block there is.
FreshChain == <<0>>

WorkerSymmetry == Permutations(Workers)
=============================================================================
