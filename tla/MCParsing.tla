------------------------------ MODULE MCParsing ------------------------------
(* Instances of Parsing for TLC. *)
EXTENDS Parsing

\* The test starts at the only block there is.
EmptyGenesis == <<0>>

\* Block 0 holds a transaction of the preparation; the test starts at block 1.
PreparedGenesis == <<1, 0>>
=============================================================================
