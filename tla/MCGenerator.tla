----------------------------- MODULE MCGenerator -----------------------------
(* An instance of Generator for TLC. *)
EXTENDS Generator
LOCAL INSTANCE Bitwise

BitwiseOr(a, b) == a | b
=============================================================================
