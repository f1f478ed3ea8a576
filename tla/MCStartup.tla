------------------------------ MODULE MCStartup ------------------------------
(* Instances of Startup for TLC. *)
EXTENDS Startup

CONSTANTS n1, n2, n3

OneAddress == <<n1>>
TwoAddresses == <<n1, n2>>
ThreeAddresses == <<n1, n2, n3>>
=============================================================================
