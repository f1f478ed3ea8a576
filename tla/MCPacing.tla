------------------------------- MODULE MCPacing -------------------------------
(* An instance of Pacing for TLC. *)
EXTENDS Pacing, TLC

CONSTANTS n1, n2

TwoAddresses == <<n1, n2>>

WorkerSymmetry == Permutations(Workers)
=============================================================================
